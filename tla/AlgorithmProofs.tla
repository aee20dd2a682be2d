--------------------------- MODULE AlgorithmProofs ---------------------------
(* Theorems about the operating points, the rows they and the gates are      *)
(* judged on, the rows of a verifier, and a packed forest of region trees,    *)
(* its early exit and its clauses, for evidence, tables and forests of any    *)
(* size.                                                                      *)
EXTENDS GateDecisions, HeldOutRows, ForestCalls, SequenceTheorems, FiniteSetTheorems, WellFoundedInduction, TLAPS

-----------------------------------------------------------------------------
(* A call is answered once.                                                *)

Asked == UNION {Asks(op) : op \in DecisionOps}
AnswerOf ==
  \E c \in Asked : call = c /\ (answer = Pending \/ answer = [is |-> DecisionAnswer(c)])

\* The answer of a call is the one that the code computes from it.
THEOREM Answering == DecisionSpec => []AnswerOf
  <1>1. DecisionInit => AnswerOf
    BY DEF DecisionInit, AnswerOf, Asked
  <1>2. AnswerOf /\ [Decide]_<<call, answer>> => AnswerOf'
    <2> SUFFICES ASSUME AnswerOf, [Decide]_<<call, answer>> PROVE AnswerOf'
      OBVIOUS
    <2>1. PICK c \in Asked : /\ call = c
                             /\ answer = Pending \/ answer = [is |-> DecisionAnswer(c)]
      BY DEF AnswerOf
    <2>2. call' = c /\ (answer' = answer \/ answer' = [is |-> DecisionAnswer(c)])
      BY <2>1 DEF Decide
    <2> QED
      BY <2>1, <2>2 DEF AnswerOf
  <1> QED
    BY <1>1, <1>2, PTL DEF DecisionSpec

-----------------------------------------------------------------------------
(* Slices of a sequence.                                                   *)

\* What a slice of a sequence holds.
LEMMA Slices ==
  ASSUME NEW S, NEW s \in Seq(S), NEW a \in 0..Len(s), NEW b \in a..Len(s)
  PROVE  /\ SubSeq(s, a + 1, b) \in Seq(S) /\ Len(SubSeq(s, a + 1, b)) = b - a
         /\ \A i \in 1..b - a : a + i \in 1..Len(s) /\ SubSeq(s, a + 1, b)[i] = s[a + i]
  <1>1. PICK n \in Nat : n = Len(s) /\ a \in 0..n /\ b \in a..n
    OBVIOUS
  <1>2. \A i \in a + 1..b : s[i] \in S
    <2>1. \A i \in 1..n : s[i] \in S
      BY <1>1
    <2> QED
      BY <1>1, <2>1
  <1>3. PICK m \in Int : m = a + 1
    BY <1>1
  <1>4. /\ SubSeq(s, m, b) \in Seq(S)
        /\ Len(SubSeq(s, m, b)) = IF m <= b THEN b - m + 1 ELSE 0
        /\ \A i \in 1..b - m + 1 : SubSeq(s, m, b)[i] = s[m + i - 1]
    <2>1. b \in Int /\ \A i \in m..b : s[i] \in S
      BY <1>1, <1>2, <1>3
    <2> QED
      BY <2>1, SubSeqProperties
  <1>5. Len(SubSeq(s, m, b)) = b - a
    BY <1>1, <1>3, <1>4
  <1>6. ASSUME NEW i \in 1..b - a PROVE a + i \in 1..Len(s) /\ SubSeq(s, m, b)[i] = s[a + i]
    <2>1. i \in 1..b - m + 1 /\ m + i - 1 = a + i /\ a + i \in 1..n
      BY <1>1, <1>3
    <2> QED
      BY <1>1, <1>4, <2>1
  <1> QED
    BY <1>3, <1>4, <1>5, <1>6

\* What the first elements of a sequence are.
LEMMA FirstSlices ==
  ASSUME NEW S, NEW s \in Seq(S), NEW b \in 0..Len(s)
  PROVE  /\ SubSeq(s, 1, b) \in Seq(S) /\ Len(SubSeq(s, 1, b)) = b
         /\ \A i \in 1..b : i \in 1..Len(s) /\ SubSeq(s, 1, b)[i] = s[i]
  <1>1. 0 \in 0..Len(s) /\ b \in 0..Len(s) /\ 0 + 1 = 1 /\ b - 0 = b
    OBVIOUS
  <1>2. /\ SubSeq(s, 0 + 1, b) \in Seq(S) /\ Len(SubSeq(s, 0 + 1, b)) = b - 0
        /\ \A i \in 1..b - 0 : 0 + i \in 1..Len(s) /\ SubSeq(s, 0 + 1, b)[i] = s[0 + i]
    BY <1>1, Slices
  <1> QED
    BY <1>1, <1>2

\* What two joined sequences hold.
LEMMA Joins ==
  ASSUME NEW S, NEW p \in Seq(S), NEW q \in Seq(S)
  PROVE  /\ p \o q \in Seq(S) /\ Len(p \o q) = Len(p) + Len(q)
         /\ \A i \in 1..Len(p) : (p \o q)[i] = p[i]
         /\ \A i \in 1..Len(q) : (p \o q)[Len(p) + i] = q[i]
  <1>1. PICK n \in Nat, m \in Nat : n = Len(p) /\ m = Len(q)
    OBVIOUS
  <1>2. PICK o : o = p \o q
    OBVIOUS
  <1>3. o \in Seq(S) /\ Len(o) = n + m /\ \A i \in 1..n + m : o[i] = IF i <= n THEN p[i] ELSE q[i - n]
    BY <1>1, <1>2, ConcatProperties
  <1>4. \A i \in 1..n : o[i] = p[i]
    BY <1>3
  <1>5. ASSUME NEW i \in 1..m PROVE o[n + i] = q[i]
    <2>1. n + i \in 1..n + m /\ ~(n + i <= n) /\ (n + i) - n = i
      OBVIOUS
    <2> QED
      BY <1>3, <2>1
  <1> QED
    BY <1>1, <1>2, <1>3, <1>4, <1>5

-----------------------------------------------------------------------------
(* Orders of finite sets.                                                  *)

\* A set of natural numbers that is not empty has a least element.
LEMMA LeastNatural ==
  ASSUME NEW S \in SUBSET Nat, S # {}
  PROVE  \E m \in S : \A n \in S : m <= n
  <1> DEFINE Below(m) == 1..m
             Segments == {Below(m) : m \in S}
  <1>1. Segments \subseteq FiniteSubsetsOf(Nat) /\ Segments # {}
    <2>1. ASSUME NEW m \in S PROVE Below(m) \in FiniteSubsetsOf(Nat)
      <3>1. IsFiniteSet(1..m)
        BY FS_Interval
      <3>2. 1..m \subseteq Nat
        OBVIOUS
      <3> QED
        BY <3>1, <3>2 DEF FiniteSubsetsOf
    <2> QED
      BY <2>1
  <1>2. PICK T \in Segments : \A U \in Segments : <<U, T>> \notin StrictSubsetOrdering(Nat)
    <2> HIDE DEF Segments
    <2> QED
      BY <1>1, FS_StrictSubsetOrderingWellFounded, WFMin
  <1>3. PICK m \in S : T = Below(m)
    OBVIOUS
  <1>4. ASSUME NEW n \in S PROVE m <= n
    <2>1. SUFFICES ASSUME n < m PROVE FALSE
      BY <1>3
    <2>2. Below(n) \subseteq Below(m) /\ m \in Below(m) /\ m \notin Below(n)
      BY <2>1
    <2>3. <<Below(n), T>> \in StrictSubsetOrdering(Nat)
      BY <1>3, <2>2 DEF StrictSubsetOrdering
    <2> QED
      BY <1>2, <2>3
  <1> QED
    BY <1>4

\* The members of S up to a in the order R.
Below(S, R, a) == {b \in S : <<b, a>> \in R}

\* A total order numbers the members of a finite set.
LEMMA PlacesAreTaken ==
  ASSUME NEW S, IsFiniteSet(S), NEW R,
         \A a \in S : <<a, a>> \in R,
         \A a, b \in S : <<a, b>> \in R /\ <<b, a>> \in R => a = b,
         \A a, b, c \in S : <<a, b>> \in R /\ <<b, c>> \in R => <<a, c>> \in R,
         \A a, b \in S : <<a, b>> \in R \/ <<b, a>> \in R
  PROVE  /\ Cardinality(S) \in Nat
         /\ \A a \in S : Cardinality(Below(S, R, a)) \in 1..Cardinality(S)
         /\ \A a, b \in S :
               <<a, b>> \in R <=> Cardinality(Below(S, R, a)) <= Cardinality(Below(S, R, b))
         /\ \A k \in 1..Cardinality(S) : \E a \in S : Cardinality(Below(S, R, a)) = k
  <1> DEFINE upTo(a) == Below(S, R, a)
             place == [a \in S |-> Cardinality(upTo(a))]
  <1>1. PICK n \in Nat : n = Cardinality(S)
    BY FS_CardinalityType
  <1>2. \A a \in S : upTo(a) \subseteq S /\ a \in upTo(a)
    BY DEF Below
  <1>3. ASSUME NEW a \in S, NEW b \in S, <<a, b>> \in R, a # b
        PROVE  upTo(a) \subseteq upTo(b) \ {b}
    BY <1>3 DEF Below
  <1>4. \A a \in S : place[a] = Cardinality(upTo(a))
    OBVIOUS
  <1> HIDE DEF upTo, place
  <1>5. ASSUME NEW a \in S
        PROVE  IsFiniteSet(upTo(a)) /\ place[a] \in 1..n
    <2>1. IsFiniteSet(upTo(a)) /\ Cardinality(upTo(a)) <= n
      BY <1>1, <1>2, FS_Subset
    <2>2. Cardinality(upTo(a)) \in Nat /\ Cardinality(upTo(a)) # 0
      BY <1>2, <2>1, FS_CardinalityType, FS_EmptySet
    <2> QED
      BY <1>4, <2>1, <2>2
  <1>6. ASSUME NEW a \in S, NEW b \in S, <<a, b>> \in R, a # b
        PROVE  place[a] < place[b]
    <2>1. upTo(a) \subseteq upTo(b) \ {b}
      BY <1>6, <1>3
    <2>2. b \in upTo(b) /\ IsFiniteSet(upTo(b))
      BY <1>2, <1>5
    <2>3. IsFiniteSet(upTo(b) \ {b}) /\ Cardinality(upTo(b) \ {b}) = Cardinality(upTo(b)) - 1
      BY <2>2, FS_RemoveElement
    <2>4. Cardinality(upTo(a)) <= Cardinality(upTo(b) \ {b})
      BY <2>1, <2>3, FS_Subset
    <2> QED
      BY <1>4, <1>5, <2>3, <2>4
  <1>7. place \in [S -> 1..n]
    BY <1>5 DEF place
  <1>8. \A a, b \in S : <<a, b>> \in R <=> place[a] <= place[b]
    <2> SUFFICES ASSUME NEW a \in S, NEW b \in S PROVE <<a, b>> \in R <=> place[a] <= place[b]
      OBVIOUS
    <2>0. place[a] \in Int /\ place[b] \in Int
      BY <1>5
    <2>1. CASE a = b
      BY <2>0, <2>1
    <2>2. CASE a # b /\ <<a, b>> \in R
      BY <1>6, <2>0, <2>2
    <2>3. CASE a # b /\ <<a, b>> \notin R
      <3>1. place[b] < place[a]
        BY <1>6, <2>3
      <3> QED
        BY <2>0, <2>3, <3>1
    <2> QED
      BY <2>1, <2>2, <2>3
  <1>9. \A a, b \in S : place[a] = place[b] => a = b
    <2> SUFFICES ASSUME NEW a \in S, NEW b \in S, place[a] = place[b] PROVE a = b
      OBVIOUS
    <2>1. place[a] <= place[b] /\ place[b] <= place[a]
      BY <1>5
    <2> QED
      BY <1>8, <2>1
  <1>10. place \in Surjection(S, 1..n)
    <2>1. place \in Injection(S, 1..n)
      BY <1>7, <1>9 DEF Injection, IsInjective
    <2>2. IsFiniteSet(1..n) /\ Cardinality(1..n) = n
      BY FS_Interval
    <2> QED
      BY <1>1, <2>1, <2>2, FS_Injection
  <1>11. \A k \in 1..n : \E a \in S : place[a] = k
    BY <1>10 DEF Surjection
  <1> QED
    BY <1>1, <1>4, <1>5, <1>8, <1>11 DEF upTo

\* Order: a row is preceded by the earlier ones, and by those of its time listed before it.
UpTo(g, r) == {a \in DOMAIN g : g[a] < g[r] \/ (g[a] = g[r] /\ a <= r)}
Place(g, r) == Cardinality(UpTo(g, r))

\* Order lists the rows by their places.
LEMMA OrderIsSorted ==
  ASSUME NEW g \in Seq(Int)
  PROVE  /\ Len(g) \in Nat /\ DOMAIN g = 1..Len(g) /\ IsFiniteSet(DOMAIN g)
         /\ \A r \in 1..Len(g) : g[r] \in Int /\ Place(g, r) \in 1..Len(g)
         /\ \A a, b \in 1..Len(g) : Place(g, a) <= Place(g, b) <=> g[a] < g[b] \/ (g[a] = g[b] /\ a <= b)
         /\ Order(g) \in Seq(1..Len(g)) /\ Len(Order(g)) = Len(g)
         /\ \A k \in 1..Len(g) : Order(g)[k] \in 1..Len(g) /\ Place(g, Order(g)[k]) = k
         /\ \A r \in 1..Len(g) : Order(g)[Place(g, r)] = r
  <1> DEFINE S == 1..Len(g)
             R == {p \in S \X S : g[p[1]] < g[p[2]] \/ (g[p[1]] = g[p[2]] /\ p[1] <= p[2])}
  <1>1. /\ Len(g) \in Nat /\ DOMAIN g = S /\ IsFiniteSet(S) /\ Cardinality(S) = Len(g)
        /\ \A r \in S : g[r] \in Int /\ r \in Int
    <2>1. Len(g) \in Nat /\ DOMAIN g = S /\ \A r \in S : g[r] \in Int /\ r \in Int
      OBVIOUS
    <2>2. IsFiniteSet(1..Len(g)) /\ Cardinality(1..Len(g)) = IF 1 <= Len(g) THEN Len(g) - 1 + 1 ELSE 0
      BY <2>1, FS_Interval
    <2> QED
      BY <2>1, <2>2
  <1>2. \A r \in S : Place(g, r) = Cardinality(Below(S, R, r))
    <2> SUFFICES ASSUME NEW r \in S PROVE Place(g, r) = Cardinality(Below(S, R, r))
      OBVIOUS
    <2>1. UpTo(g, r) = Below(S, R, r)
      BY <1>1 DEF UpTo, Below
    <2> QED
      BY <2>1 DEF Place
  <1>3. /\ \A a \in S : <<a, a>> \in R
        /\ \A a, b \in S : <<a, b>> \in R /\ <<b, a>> \in R => a = b
        /\ \A a, b, c \in S : <<a, b>> \in R /\ <<b, c>> \in R => <<a, c>> \in R
        /\ \A a, b \in S : <<a, b>> \in R \/ <<b, a>> \in R
    BY <1>1
  <1>11. \A a, b \in S : <<a, b>> \in R <=> g[a] < g[b] \/ (g[a] = g[b] /\ a <= b)
    BY <1>1
  <1>12. IsFiniteSet(S)
    BY <1>1
  <1> HIDE DEF R, S
  <1>4. /\ \A a \in S : Cardinality(Below(S, R, a)) \in 1..Cardinality(S)
        /\ \A a, b \in S :
              <<a, b>> \in R <=> Cardinality(Below(S, R, a)) <= Cardinality(Below(S, R, b))
        /\ \A k \in 1..Cardinality(S) : \E a \in S : Cardinality(Below(S, R, a)) = k
    BY <1>3, <1>12, PlacesAreTaken
  <1>5. /\ \A r \in S : Place(g, r) \in 1..Len(g)
        /\ \A a, b \in S : Place(g, a) <= Place(g, b) <=> g[a] < g[b] \/ (g[a] = g[b] /\ a <= b)
        /\ \A k \in 1..Len(g) : \E a \in S : Place(g, a) = k
    <2>1. \A r \in S : Place(g, r) \in 1..Len(g)
      BY <1>1, <1>2, <1>4
    <2>2. \A k \in 1..Len(g) : \E a \in S : Place(g, a) = k
      BY <1>1, <1>2, <1>4
    <2>3. \A a, b \in S : Place(g, a) <= Place(g, b) <=> g[a] < g[b] \/ (g[a] = g[b] /\ a <= b)
      <3> SUFFICES ASSUME NEW a \in S, NEW b \in S
                   PROVE  Place(g, a) <= Place(g, b) <=> g[a] < g[b] \/ (g[a] = g[b] /\ a <= b)
        OBVIOUS
      <3>1. <<a, b>> \in R <=> Cardinality(Below(S, R, a)) <= Cardinality(Below(S, R, b))
        BY <1>4
      <3>2. Place(g, a) = Cardinality(Below(S, R, a)) /\ Place(g, b) = Cardinality(Below(S, R, b))
        BY <1>2
      <3>3. <<a, b>> \in R <=> g[a] < g[b] \/ (g[a] = g[b] /\ a <= b)
        BY <1>11
      <3> QED
        BY <3>1, <3>2, <3>3
    <2> QED
      BY <2>1, <2>2, <2>3
  <1>6. \A k \in S : /\ Order(g)[k] \in S
                     /\ Place(g, Order(g)[k]) = k
    <2> SUFFICES ASSUME NEW k \in S PROVE Order(g)[k] \in S /\ Place(g, Order(g)[k]) = k
      OBVIOUS
    <2>1. Order(g)[k] = CHOOSE r \in S : Place(g, r) = k
      BY <1>1 DEF Order, Place, UpTo
    <2>2. \E r \in S : Place(g, r) = k
      BY <1>5 DEF S
    <2> QED
      BY <2>1, <2>2
  <1>7. DOMAIN Order(g) = S
    BY <1>1 DEF Order
  <1>8. \A a, b \in S : Place(g, a) = Place(g, b) => a = b
    <2> SUFFICES ASSUME NEW a \in S, NEW b \in S, Place(g, a) = Place(g, b) PROVE a = b
      OBVIOUS
    <2>1. Place(g, a) \in Int /\ Place(g, b) \in Int
      BY <1>5
    <2>2. Place(g, a) <= Place(g, b) /\ Place(g, b) <= Place(g, a)
      BY <2>1
    <2>3. (g[a] < g[b] \/ (g[a] = g[b] /\ a <= b)) /\ (g[b] < g[a] \/ (g[b] = g[a] /\ b <= a))
      BY <1>5, <2>2
    <2> QED
      BY <1>1, <2>3
  <1>9. ASSUME NEW r \in S PROVE Order(g)[Place(g, r)] = r
    <2>1. Place(g, r) \in S
      BY <1>5 DEF S
    <2> QED
      BY <1>6, <1>8, <2>1
  <1>10. Order(g) \in Seq(1..Len(g)) /\ Len(Order(g)) = Len(g)
    <2>1. \E F : Order(g) = [k \in S |-> F[k]]
      <3>1. Order(g) = [k \in S |-> CHOOSE r \in S : Place(g, r) = k]
        BY <1>1 DEF Order, Place, UpTo
      <3> QED
        BY <3>1
    <2>2. Order(g) \in [1..Len(g) -> 1..Len(g)]
      BY <1>6, <2>1 DEF S
    <2> QED
      BY <1>1, <2>2
  <1> QED
    BY <1>1, <1>5, <1>6, <1>9, <1>10 DEF S

-----------------------------------------------------------------------------
(* The conformal quantile.                                                 *)

\* The least and the greatest of two numbers.
LEMMA LesserOfTwo ==
  ASSUME NEW a \in Int, NEW b \in Int
  PROVE  Min({a, b}) \in {a, b} /\ Min({a, b}) <= a /\ Min({a, b}) <= b
  <1>1. \E x \in {a, b} : \A y \in {a, b} : x <= y
    BY a <= b \/ b <= a
  <1>2. Min({a, b}) \in {a, b} /\ \A y \in {a, b} : Min({a, b}) <= y
    <2>1. PICK T : T = {a, b}
      OBVIOUS
    <2>2. (CHOOSE x \in T : \A y \in T : x =< y) \in T
          /\ \A y \in T : (CHOOSE x \in T : \A z \in T : x =< z) <= y
      BY <1>1, <2>1
    <2> QED
      BY <2>1, <2>2 DEF Min
  <1> QED
    BY <1>2

\* A ceiling of a positive share is positive.
LEMMA CeilingIsPositive ==
  ASSUME NEW a \in Nat \ {0}, NEW b \in Nat \ {0}
  PROVE  Ceiling(a, b) \in Nat /\ Ceiling(a, b) >= 1
  BY DEF Ceiling

\* The scores that remain when one is left out.
LEMMA TheOthers ==
  ASSUME NEW all \in Seq(Int), NEW n \in Nat, Len(all) = n + 1, NEW i \in 1..n + 1
  PROVE  /\ RemoveAt(all, i) \in Seq(Int) /\ Len(RemoveAt(all, i)) = n
         /\ \A a \in 1..n : RemoveAt(all, i)[a] = all[IF a < i THEN a ELSE a + 1]
  <1>1. PICK lo, hi : lo = i - 1 /\ hi = n + 1
    OBVIOUS
  <1>2. /\ lo \in 0..Len(all) /\ i \in 0..Len(all) /\ hi \in i..Len(all) /\ hi = Len(all)
        /\ hi - i \in Nat /\ lo \in Nat /\ lo + (hi - i) = n
    BY <1>1
  <1>3. PICK p : p = SubSeq(all, 1, lo)
    OBVIOUS
  <1>4. PICK q : q = SubSeq(all, i + 1, hi)
    OBVIOUS
  <1>5. p \in Seq(Int) /\ Len(p) = lo /\ \A m \in 1..lo : m \in 1..Len(all) /\ p[m] = all[m]
    <2>1. lo \in 0..Len(all)
      BY <1>2
    <2> QED
      BY <1>3, <2>1, FirstSlices
  <1>6. /\ q \in Seq(Int) /\ Len(q) = hi - i
        /\ \A m \in 1..hi - i : i + m \in 1..Len(all) /\ q[m] = all[i + m]
    <2>1. i \in 0..Len(all) /\ hi \in i..Len(all)
      BY <1>2
    <2>2. /\ SubSeq(all, i + 1, hi) \in Seq(Int) /\ Len(SubSeq(all, i + 1, hi)) = hi - i
          /\ \A m \in 1..hi - i : i + m \in 1..Len(all) /\ SubSeq(all, i + 1, hi)[m] = all[i + m]
      BY <2>1, Slices
    <2> QED
      BY <1>4, <2>2
  <1>7. PICK o : o = p \o q
    OBVIOUS
  <1>8. o = RemoveAt(all, i)
    BY <1>1, <1>2, <1>3, <1>4, <1>7 DEF RemoveAt
  <1>9. /\ o \in Seq(Int) /\ Len(o) = Len(p) + Len(q)
        /\ \A a \in 1..Len(p) : o[a] = p[a]
        /\ \A a \in 1..Len(q) : o[Len(p) + a] = q[a]
    <2>1. p \in Seq(Int) /\ q \in Seq(Int)
      BY <1>5, <1>6
    <2>2. /\ p \o q \in Seq(Int) /\ Len(p \o q) = Len(p) + Len(q)
          /\ \A a \in 1..Len(p) : (p \o q)[a] = p[a]
          /\ \A a \in 1..Len(q) : (p \o q)[Len(p) + a] = q[a]
      BY <2>1, Joins
    <2> QED
      BY <1>7, <2>2
  <1>10. Len(o) = n
    BY <1>2, <1>5, <1>6, <1>9
  <1>11. ASSUME NEW a \in 1..n, a < i PROVE o[a] = all[a]
    <2>1. a \in 1..lo
      BY <1>1, <1>11
    <2> QED
      BY <1>5, <1>9, <2>1
  <1>12. ASSUME NEW a \in 1..n, ~(a < i) PROVE o[a] = all[a + 1]
    <2>1. PICK m : m = a - lo
      OBVIOUS
    <2>2. m \in 1..hi - i /\ lo + m = a /\ i + m = a + 1
      BY <1>1, <1>12, <2>1
    <2> QED
      BY <1>5, <1>6, <1>9, <2>2
  <1> QED
    BY <1>8, <1>9, <1>10, <1>11, <1>12

\* A score that is among the k least of all is at most the k-th of the others.
LEMMA KthOfTheOthers ==
  ASSUME NEW all \in Seq(Int), NEW n \in Nat, Len(all) = n + 1,
         NEW i \in 1..n + 1, NEW k \in 1..n, Place(all, i) <= k
  PROVE  all[i] <= RemoveAt(all, i)[Order(RemoveAt(all, i))[k]]
  <1>1. PICK o : o = RemoveAt(all, i)
    OBVIOUS
  <1> DEFINE h(a) == IF a < i THEN a ELSE a + 1
  <1>2. o \in Seq(Int) /\ Len(o) = n /\ \A a \in 1..n : o[a] = all[h(a)] /\ h(a) \in 1..n + 1
    <2>1. o \in Seq(Int) /\ Len(o) = n /\ \A a \in 1..n : o[a] = all[h(a)]
      BY <1>1, TheOthers
    <2>2. \A a \in 1..n : h(a) \in 1..n + 1
      OBVIOUS
    <2> QED
      BY <2>1, <2>2
  <1>3. PICK r \in 1..n : r = Order(o)[k] /\ Place(o, r) = k /\ o[r] \in Int
    BY <1>2, OrderIsSorted
  <1>4. SUFFICES ASSUME o[r] < all[i] PROVE FALSE
    BY <1>1, <1>3, SMTT(30)
  <1>5. PICK low : low = UpTo(o, r)
    OBVIOUS
  <1>6. PICK high : high = UpTo(all, i) \ {i}
    OBVIOUS
  <1>7. \A a \in low : a \in 1..n /\ h(a) \in high
    <2> SUFFICES ASSUME NEW a \in low PROVE a \in 1..n /\ h(a) \in high
      BY Zenon
    <2>1. a \in 1..n /\ o[a] <= o[r]
      <3>1. a \in DOMAIN o /\ (o[a] < o[r] \/ (o[a] = o[r] /\ a <= r))
        BY <1>5 DEF UpTo
      <3>2. a \in 1..n /\ o[a] \in Int
        BY <1>2, <3>1
      <3> QED
        BY <1>3, <3>1, <3>2, SMTT(30)
    <2>2. h(a) \in 1..n + 1 /\ h(a) # i
      <3>1. h(a) \in 1..n + 1
        BY <1>2, <2>1
      <3>2. h(a) # i
        BY <2>1
      <3> QED
        BY <3>1, <3>2
    <2>3. all[h(a)] < all[i]
      <3>1. o[a] = all[h(a)] /\ o[a] \in Int /\ all[i] \in Int
        BY <1>2, <2>1
      <3>2. PICK x \in Int, y \in Int, z \in Int : x = o[a] /\ y = all[i] /\ z = o[r]
        BY <1>3, <3>1
      <3>3. x <= z /\ z < y
        BY <1>4, <2>1, <3>2
      <3>4. x < y
        BY <3>3
      <3> QED
        BY <3>1, <3>2, <3>4
    <2> QED
      BY <1>6, <2>1, <2>2, <2>3 DEF UpTo
  <1>8. IsFiniteSet(high) /\ Cardinality(high) = Place(all, i) - 1
    <2>1. IsFiniteSet(UpTo(all, i))
      <3>1. IsFiniteSet(DOMAIN all) /\ UpTo(all, i) \subseteq DOMAIN all
        BY OrderIsSorted DEF UpTo
      <3> QED
        BY <3>1, FS_Subset
    <2>2. i \in UpTo(all, i)
      BY DEF UpTo
    <2> QED
      BY <1>6, <2>1, <2>2, FS_RemoveElement DEF Place
  <1>9. [a \in low |-> h(a)] \in Injection(low, high)
    <2>1. [a \in low |-> h(a)] \in [low -> high]
      BY <1>7
    <2>2. \A a, b \in low : h(a) = h(b) => a = b
      <3>1. \A a, b \in 1..n : h(a) = h(b) => a = b
        OBVIOUS
      <3> HIDE DEF h
      <3> QED
        BY <1>7, <3>1
    <2> HIDE DEF h
    <2> QED
      BY <2>1, <2>2 DEF Injection, IsInjective
  <1>10. Cardinality(low) <= Cardinality(high)
    BY <1>8, <1>9, FS_Injection
  <1>11. Cardinality(low) = k
    BY <1>3, <1>5 DEF Place
  <1>12. Place(all, i) \in Int
    BY OrderIsSorted
  <1> QED
    BY <1>8, <1>10, <1>11, <1>12

\* Of n + 1 exchangeable scores, enough are at most the bound the others set.
THEOREM CoversByQuantile == DecisionSpec => []QuantileCovers
  <1>1. AnswerOf => QuantileCovers
    <2> SUFFICES ASSUME AnswerOf, Answered("quantile") PROVE QuantileCovers
      BY DEF QuantileCovers
    <2>1. PICK c \in Asked : call = c
      BY DEF AnswerOf
    <2>2. c \in Asks("quantile")
      BY <2>1 DEF Answered, Asked, Asks
    <2>3. PICK n \in Nat \ {0} : c.scores \in Seq(Nat) /\ Len(c.scores) = n /\ c.fresh \in Nat
      <3>1. c.scores \in Seq(Nat) /\ c.scores # <<>> /\ c.fresh \in Nat
        BY <2>2, QuantilesAreOfScores
      <3>2. Len(c.scores) \in Nat \ {0}
        BY <3>1
      <3> QED
        BY <3>1, <3>2
    <2>4. PICK num, den \in Nat \ {0} : num = c.num /\ den = c.den /\ den - num \in Nat \ {0}
      <3>1. c.num \in Nat /\ c.den \in Nat /\ 0 < c.num /\ c.num < c.den
        BY <2>2, QuantilesAreOfScores
      <3> QED
        BY <3>1
    <2>5. PICK all : all = Append(c.scores, c.fresh)
      OBVIOUS
    <2>6. all \in Seq(Int) /\ Len(all) = n + 1 /\ DOMAIN all = 1..n + 1
      BY <2>3, <2>5
    <2>7. PICK k : k = Min({Ceiling((n + 1) * (den - num), den), n})
      OBVIOUS
    <2>8. k \in 1..n
      <3>1. (n + 1) * (den - num) \in Nat \ {0}
        <4>1. PICK u \in Nat \ {0}, v \in Nat \ {0} : u = n + 1 /\ v = den - num
          <5>1. n + 1 \in Nat \ {0}
            OBVIOUS
          <5> QED
            BY <2>4, <5>1, Zenon
        <4>2. u * v \in Nat \ {0}
          OBVIOUS
        <4> QED
          BY <4>1, <4>2
      <3>2. PICK q : q = Ceiling((n + 1) * (den - num), den)
        OBVIOUS
      <3>3. q \in Nat /\ q >= 1
        BY <2>4, <3>1, <3>2, CeilingIsPositive
      <3>4. Min({q, n}) \in {q, n} /\ Min({q, n}) <= n
        <4>1. q \in Int /\ n \in Int
          BY <2>3, <3>3
        <4> QED
          BY <4>1, LesserOfTwo
      <3>5. k = Min({q, n})
        BY <2>7, <3>2
      <3> QED
        BY <2>3, <3>3, <3>4, <3>5
    <2> DEFINE covered == {i \in 1..n + 1 : all[i] <= QHat(RemoveAt(all, i), num, den)}
    <2>9. \A i \in 1..n + 1 : Place(all, i) <= k => i \in covered
      <3> SUFFICES ASSUME NEW i \in 1..n + 1, Place(all, i) <= k
                   PROVE  all[i] <= QHat(RemoveAt(all, i), num, den)
        OBVIOUS
      <3>1. Len(RemoveAt(all, i)) = n
        BY <2>6 DEF RemoveAt
      <3>2. QHat(RemoveAt(all, i), num, den) = RemoveAt(all, i)[Order(RemoveAt(all, i))[k]]
        BY <2>7, <3>1 DEF QHat, QuantileRank
      <3> QED
        BY <2>6, <2>8, <3>2, KthOfTheOthers
    <2>10. IsFiniteSet(covered)
      <3>1. IsFiniteSet(1..n + 1) /\ covered \subseteq 1..n + 1
        BY <2>3, FS_Interval
      <3> QED
        BY <3>1, FS_Subset
    <2> HIDE DEF covered
    <2>11. k <= Cardinality(covered)
      <3>1. PICK f : f = [j \in 1..k |-> Order(all)[j]]
        OBVIOUS
      <3>2. \A j \in 1..k : f[j] \in covered /\ Place(all, f[j]) = j
        <4> SUFFICES ASSUME NEW j \in 1..k PROVE f[j] \in covered /\ Place(all, f[j]) = j
          OBVIOUS
        <4>1. j \in 1..n + 1 /\ j <= k /\ f[j] = Order(all)[j]
          BY <2>8, <3>1
        <4>2. f[j] \in 1..n + 1 /\ Place(all, f[j]) = j
          BY <2>6, <4>1, OrderIsSorted
        <4> QED
          BY <2>9, <4>1, <4>2
      <3>3. f \in Injection(1..k, covered)
        <4>1. f \in [1..k -> covered]
          BY <3>1, <3>2
        <4>2. \A a, b \in 1..k : f[a] = f[b] => a = b
          BY <3>2
        <4> QED
          BY <4>1, <4>2 DEF Injection, IsInjective
      <3>4. Cardinality(1..k) = k
        <4>1. k \in Nat /\ k >= 1
          BY <2>8
        <4>2. Cardinality(1..k) = IF 1 > k THEN 0 ELSE k - 1 + 1
          BY <4>1, FS_Interval
        <4> QED
          BY <4>1, <4>2
      <3> QED
        BY <2>10, <3>3, <3>4, FS_Injection
    <2>12. Cardinality(covered) \in Nat
      BY <2>10, FS_CardinalityType
    <2>13. Min({Ceiling(Len(all) * (den - num), den), Len(all) - 1}) = k
      BY <2>3, <2>6, <2>7
    <2> QED
      BY <2>1, <2>4, <2>5, <2>6, <2>8, <2>11, <2>12, <2>13 DEF QuantileCovers, covered
  <1> QED
    BY <1>1, Answering, PTL

-----------------------------------------------------------------------------
(* The blocks of expanding_splits.                                         *)

\* f starts at a and follows next up to n.
Follows(f, n, D, a, next) ==
  f \in [0..n -> D] /\ f[0] = a /\ \A k \in 1..n : f[k] = next[<<k, f[k - 1]>>]

\* A recursion over the first natural numbers has a solution.
LEMMA RecursionExists ==
  ASSUME NEW n \in Nat, NEW D, NEW a \in D, NEW next \in [(1..n) \X D -> D]
  PROVE  \E f : Follows(f, n, D, a, next)
  <1> DEFINE Solves(f, m) == /\ f \in [0..m -> D] /\ f[0] = a
                             /\ \A k \in 1..m : f[k] = next[<<k, f[k - 1]>>]
             Failing == {m \in 0..n : ~\E f : Solves(f, m)}
  <1>1. SUFFICES Failing = {}
    <2>1. n \in 0..n
      OBVIOUS
    <2>2. \E f : Solves(f, n)
      BY <1>1, <2>1
    <2> QED
      BY <2>2 DEF Follows
  <1>2. SUFFICES ASSUME Failing # {} PROVE FALSE
    OBVIOUS
  <1>3. PICK m \in Failing : \A k \in Failing : m <= k
    <2>1. Failing \in SUBSET Nat
      OBVIOUS
    <2> HIDE DEF Failing
    <2> QED
      BY <1>2, <2>1, LeastNatural
  <1>4. CASE m = 0
    <2>1. PICK f : f = [k \in 0..0 |-> a]
      OBVIOUS
    <2>2. f \in [0..0 -> D] /\ f[0] = a /\ 1..0 = {}
      BY <2>1
    <2>3. Solves(f, 0)
      BY <2>2
    <2> QED
      BY <1>3, <1>4, <2>3
  <1>5. CASE m # 0
    <2>1. m \in 1..n /\ m - 1 \in 0..n /\ m - 1 < m
      BY <1>3, <1>5
    <2>2. PICK f : Solves(f, m - 1)
      <3>1. m - 1 \notin Failing
        BY <1>3, <2>1
      <3> QED
        BY <2>1, <3>1
    <2>3. PICK h : h = [k \in 0..m |-> IF k = m THEN next[<<m, f[m - 1]>>] ELSE f[k]]
      OBVIOUS
    <2>4. f[m - 1] \in D /\ next[<<m, f[m - 1]>>] \in D
      <3>1. m - 1 \in 0..m - 1
        BY <2>1
      <3>2. f[m - 1] \in D
        BY <2>2, <3>1
      <3> QED
        BY <2>1, <3>2
    <2>5. \A k \in 0..m - 1 : h[k] = f[k] /\ k \in 0..m /\ k # m
      BY <2>1, <2>3
    <2>6. h[m] = next[<<m, h[m - 1]>>]
      <3>1. m \in 0..m /\ m - 1 \in 0..m - 1
        BY <2>1
      <3>2. h[m] = next[<<m, f[m - 1]>>]
        BY <2>3, <3>1
      <3> QED
        BY <2>5, <3>1, <3>2
    <2>7. h \in [0..m -> D]
      <3>1. \A k \in 0..m : k = m \/ k \in 0..m - 1
        BY <2>1
      <3> QED
        BY <2>2, <2>3, <2>4, <3>1
    <2>8. ASSUME NEW k \in 1..m PROVE h[k] = next[<<k, h[k - 1]>>]
      <3>1. CASE k = m
        BY <2>6, <3>1
      <3>2. CASE k # m
        <4>1. k \in 1..m - 1 /\ k \in 0..m - 1 /\ k - 1 \in 0..m - 1
          BY <2>1, <3>2
        <4> QED
          BY <2>2, <2>5, <4>1
      <3> QED
        BY <3>1, <3>2
    <2>9. h[0] = a
      <3>1. 0 \in 0..m - 1
        BY <2>1
      <3> QED
        BY <2>2, <2>5, <3>1
    <2>10. Solves(h, m)
      BY <2>7, <2>8, <2>9
    <2> QED
      BY <1>3, <2>10
  <1> QED
    BY <1>4, <1>5

\* The member of a set of cuts that is nearest to a size.
LEMMA NearestIsClosest ==
  ASSUME NEW S \in SUBSET Nat, S # {}, NEW target \in Int
  PROVE  /\ Nearest(S, target) \in S
         /\ \A d \in S : Distance(Nearest(S, target), target) <= Distance(d, target)
  <1>1. PICK off \in [S -> Nat] : \A c \in S : off[c] = Distance(c, target)
    <2>1. \A c \in S : Distance(c, target) \in Nat
      BY DEF Distance
    <2>2. [c \in S |-> Distance(c, target)] \in [S -> Nat]
      BY <2>1
    <2> QED
      BY <2>2
  <1>2. PICK m \in {off[c] : c \in S} : \A d \in {off[c] : c \in S} : m <= d
    <2>1. {off[c] : c \in S} \in SUBSET Nat /\ {off[c] : c \in S} # {}
      BY <1>1
    <2> QED
      BY <2>1, LeastNatural
  <1>3. PICK T : T = {c \in S : off[c] = m}
    OBVIOUS
  <1>4. PICK c \in T : \A d \in T : c <= d
    <2>1. T \in SUBSET Nat /\ T # {}
      BY <1>2, <1>3
    <2> QED
      BY <2>1, LeastNatural
  <1>5. c \in S /\ \A d \in S : off[c] < off[d] \/ (off[c] = off[d] /\ c <= d)
    BY <1>1, <1>2, <1>3, <1>4
  <1>6. \E x \in S : \A d \in S : \/ Distance(x, target) < Distance(d, target)
                                  \/ Distance(x, target) = Distance(d, target) /\ x <= d
    BY <1>1, <1>5
  <1>7. PICK x : x = Nearest(S, target)
    OBVIOUS
  <1>8. x \in S /\ \A d \in S : \/ Distance(x, target) < Distance(d, target)
                                \/ Distance(x, target) = Distance(d, target) /\ x <= d
    BY <1>6, <1>7 DEF Nearest
  <1>9. \A d \in S : off[x] <= off[d]
    BY <1>1, <1>8
  <1> QED
    BY <1>1, <1>7, <1>8, <1>9

\* The largest member of a bounded set.
LEMMA LargestFeasible ==
  ASSUME NEW n \in Nat, NEW S \in SUBSET (1..n), S # {}
  PROVE  Max(S) \in S
  <1>1. PICK m \in {n - k : k \in S} : \A d \in {n - k : k \in S} : m <= d
    <2>1. {n - k : k \in S} \in SUBSET Nat
      <3>1. \A k \in S : n - k \in Nat
        OBVIOUS
      <3> QED
        BY <3>1
    <2>2. {n - k : k \in S} # {}
      BY Zenon
    <2> QED
      BY <2>1, <2>2, LeastNatural
  <1>2. PICK k \in S : m = n - k
    OBVIOUS
  <1>3. \A j \in S : k >= j
    <2> SUFFICES ASSUME NEW j \in S PROVE k >= j
      OBVIOUS
    <2>1. n - k <= n - j
      BY <1>1, <1>2
    <2> QED
      BY <2>1
  <1> QED
    BY <1>3 DEF Max

\* A rounded share is a number.
LEMMA RoundedIsNumber ==
  ASSUME NEW a \in Int, NEW b \in Nat \ {0}
  PROVE  Rounded(a, b) \in Int
  BY DEF Rounded

\* The ends of the blocks: each is a change with room behind the one before it, or there
\* is none from there on.
AreBlockEnds(g, ends, first, folds, minValid) ==
  /\ ends \in [1..folds -> Nat] /\ ends[1] = first
  /\ \A i \in 2..folds :
        \/ ends[i] = Infeasible
        \/ /\ ends[i - 1] # Infeasible
           /\ ends[i] \in Room(g, ends[i - 1], folds - (i - 1), minValid)
  /\ \A i \in 2..folds : ends[i - 1] = Infeasible => ends[i] = Infeasible

\* Each block ends where the recursion says, from the end of the block before it.
LEMMA BlocksEnd ==
  ASSUME NEW g \in Seq(Int), NEW first \in Nat, NEW folds \in Nat \ {0}, NEW minValid \in Nat,
         NEW ends, ends = BlockEnds(g, first, folds, minValid)
  PROVE  AreBlockEnds(g, ends, first, folds, minValid)
  <1> DEFINE Target(k) == first + Rounded((Len(g) - first) * k, folds)
             Step(k, d) == IF d = Infeasible \/ Room(g, d, folds - k, minValid) = {} THEN Infeasible
                           ELSE Nearest(Room(g, d, folds - k, minValid), Target(k))
             Solves(f) == f = [step \in 0..folds - 1 |->
                                  IF step = 0 THEN first ELSE Step(step, f[step - 1])]
  <1>1. folds - 1 \in Nat
    OBVIOUS
  <1>2. ASSUME NEW k \in 1..folds - 1, NEW d \in Nat
        PROVE  /\ Step(k, d) \in Nat
               /\ Step(k, d) = Infeasible \/ (d # Infeasible /\ Step(k, d) \in Room(g, d, folds - k, minValid))
               /\ d = Infeasible => Step(k, d) = Infeasible
    <2>1. Target(k) \in Int
      <3>1. (Len(g) - first) * k \in Int
        OBVIOUS
      <3> QED
        BY <3>1, RoundedIsNumber
    <2>2. Room(g, d, folds - k, minValid) \in SUBSET Nat
      BY DEF Room, Changes
    <2>3. Infeasible \in Nat
      BY DEF Infeasible
    <2> HIDE DEF Target
    <2>4. Room(g, d, folds - k, minValid) # {} =>
             Nearest(Room(g, d, folds - k, minValid), Target(k)) \in Room(g, d, folds - k, minValid)
      BY <2>1, <2>2, NearestIsClosest
    <2> QED
      BY <2>2, <2>3, <2>4
  <1>3. \E f : Solves(f)
    <2>0. PICK Pairs : Pairs = (1..folds - 1) \X Nat
      OBVIOUS
    <2>1. PICK next : next = [p \in Pairs |-> Step(p[1], p[2])]
      OBVIOUS
    <2> HIDE DEF Step
    <2>2. next \in [(1..folds - 1) \X Nat -> Nat]
      <3>1. \A p \in (1..folds - 1) \X Nat : Step(p[1], p[2]) \in Nat
        <4> SUFFICES ASSUME NEW p \in (1..folds - 1) \X Nat PROVE Step(p[1], p[2]) \in Nat
          OBVIOUS
        <4>1. p[1] \in 1..folds - 1 /\ p[2] \in Nat
          OBVIOUS
        <4> QED
          BY <1>2, <4>1
      <3>2. \A p \in Pairs : Step(p[1], p[2]) \in Nat
        BY <2>0, <3>1, Zenon
      <3>3. next \in [Pairs -> Nat]
        BY <2>1, <3>2, Zenon
      <3> QED
        BY <2>0, <3>3
    <2>3. PICK f \in [0..folds - 1 -> Nat] :
             f[0] = first /\ \A k \in 1..folds - 1 : f[k] = next[<<k, f[k - 1]>>]
      <3>1. PICK n \in Nat : n = folds - 1
        BY <1>1
      <3>2. next \in [(1..n) \X Nat -> Nat]
        BY <2>2, <3>1
      <3>3. \E f : Follows(f, n, Nat, first, next)
        BY <3>2, RecursionExists
      <3> QED
        BY <3>1, <3>3 DEF Follows
    <2>4. \A k \in 1..folds - 1 : f[k] = Step(k, f[k - 1])
      <3> SUFFICES ASSUME NEW k \in 1..folds - 1 PROVE f[k] = Step(k, f[k - 1])
        OBVIOUS
      <3>1. k - 1 \in 0..folds - 1
        OBVIOUS
      <3>2. <<k, f[k - 1]>> \in (1..folds - 1) \X Nat
        BY <2>3, <3>1
      <3> QED
        <4>1. PICK p : p = <<k, f[k - 1]>>
          OBVIOUS
        <4>2. p \in Pairs /\ p[1] = k /\ p[2] = f[k - 1]
          BY <2>0, <3>2, <4>1
        <4>3. f[k] = next[p]
          BY <2>3, <4>1
        <4> QED
          BY <2>1, <4>2, <4>3
    <2>5. \A k \in 0..folds - 1 : k = 0 \/ k \in 1..folds - 1
      OBVIOUS
    <2>6. \A k \in 0..folds - 1 : f[k] = IF k = 0 THEN first ELSE Step(k, f[k - 1])
      BY <2>3, <2>4, <2>5
    <2> QED
      BY <2>3, <2>6
  <1>4. PICK end : Solves(end) /\ ends = [i \in 1..folds |-> end[i - 1]]
    <2>1. PICK end : end = CHOOSE f : Solves(f)
      OBVIOUS
    <2>2. Solves(end)
      BY <1>3, <2>1
    <2>3. ends = [i \in 1..folds |-> end[i - 1]]
      BY <2>1 DEF BlockEnds
    <2> QED
      BY <2>2, <2>3
  <1>5. end \in [0..folds - 1 -> Nat]
    <2> DEFINE Bad == {k \in 0..folds - 1 : end[k] \notin Nat}
    <2>1. SUFFICES ASSUME Bad # {} PROVE FALSE
      <3> SUFFICES ASSUME Bad = {} PROVE end \in [0..folds - 1 -> Nat]
        OBVIOUS
      <3>1. DOMAIN end = 0..folds - 1 /\ \E F : end = [k \in 0..folds - 1 |-> F[k]]
        <4> HIDE DEF Step
        <4>1. PICK F : F = [step \in 0..folds - 1 |-> IF step = 0 THEN first ELSE Step(step, end[step - 1])]
          OBVIOUS
        <4>2. end = F
          BY <1>4, <4>1
        <4> QED
          BY <4>1, <4>2
      <3> QED
        BY <3>1
    <2>2. PICK k \in Bad : \A j \in Bad : k <= j
      <3>1. Bad \in SUBSET Nat
        OBVIOUS
      <3> HIDE DEF Bad
      <3> QED
        BY <2>1, <3>1, LeastNatural
    <2> HIDE DEF Step
    <2>3. end[k] = IF k = 0 THEN first ELSE Step(k, end[k - 1])
      BY <1>4, <2>2
    <2>4. k # 0
      BY <2>2, <2>3
    <2>5. k \in 1..folds - 1 /\ k - 1 \in 0..folds - 1 /\ ~(k <= k - 1)
      BY <2>2, <2>4
    <2>6. end[k - 1] \in Nat
      BY <2>2, <2>5
    <2> QED
      BY <1>2, <2>2, <2>3, <2>4, <2>5, <2>6
  <1>6. ASSUME NEW i \in 2..folds
        PROVE  ends[i] = Step(i - 1, ends[i - 1]) /\ ends[i - 1] \in Nat /\ i - 1 \in 1..folds - 1
    <2> HIDE DEF Step
    <2>1. /\ i - 1 \in 1..folds - 1 /\ i - 1 \in 0..folds - 1 /\ i - 1 \in 1..folds /\ i \in 1..folds
          /\ i - 1 - 1 \in 0..folds - 1 /\ i - 1 # 0
      OBVIOUS
    <2>2. ends[i] = end[i - 1] /\ ends[i - 1] = end[i - 1 - 1]
      BY <1>4, <2>1
    <2>3. end[i - 1] = Step(i - 1, end[i - 1 - 1])
      BY <1>4, <2>1
    <2> QED
      BY <1>5, <2>1, <2>2, <2>3
  <1>7. ends \in [1..folds -> Nat] /\ ends[1] = first
    <2> HIDE DEF Step
    <2>1. \A i \in 1..folds : i - 1 \in 0..folds - 1
      OBVIOUS
    <2>2. end[0] = first /\ 1 \in 1..folds /\ 1 - 1 = 0
      BY <1>1, <1>4
    <2> QED
      BY <1>4, <1>5, <2>1, <2>2
  <1>8. ASSUME NEW i \in 2..folds
        PROVE  /\ \/ ends[i] = Infeasible
                  \/ /\ ends[i - 1] # Infeasible
                     /\ ends[i] \in Room(g, ends[i - 1], folds - (i - 1), minValid)
               /\ ends[i - 1] = Infeasible => ends[i] = Infeasible
    <2> HIDE DEF Step
    <2> QED
      BY <1>2, <1>6
  <1> QED
    BY <1>7, <1>8 DEF AreBlockEnds

\* Rows are listed by time, so a cut between two times leaves the earlier ones behind.
LEMMA CutsAreStrict ==
  ASSUME NEW g \in Seq(Int), NEW k \in Changes(g)
  PROVE  /\ k \in 1..Len(g) - 1
         /\ \A a \in 1..k, b \in k + 1..Len(g) : g[Order(g)[a]] < g[Order(g)[b]]
  <1>1. PICK n \in Nat : n = Len(g)
    BY OrderIsSorted
  <1>2. PICK at : at = Order(g)
    OBVIOUS
  <1>3. k \in 1..n - 1 /\ g[at[k]] # g[at[k + 1]]
    BY <1>1, <1>2 DEF Changes
  <1>4. \A a \in 1..n : at[a] \in 1..n /\ Place(g, at[a]) = a /\ g[at[a]] \in Int
    BY <1>1, <1>2, OrderIsSorted
  <1>5. ASSUME NEW a \in 1..n, NEW b \in 1..n, a <= b PROVE g[at[a]] <= g[at[b]]
    <2>1. Place(g, at[a]) <= Place(g, at[b])
      BY <1>4, <1>5
    <2>2. g[at[a]] < g[at[b]] \/ g[at[a]] = g[at[b]]
      BY <1>1, <1>4, <2>1, OrderIsSorted
    <2> QED
      BY <1>4, <2>2
  <1>6. ASSUME NEW a \in 1..k, NEW b \in k + 1..n PROVE g[at[a]] < g[at[b]]
    <2>1. a \in 1..n /\ b \in 1..n /\ k \in 1..n /\ k + 1 \in 1..n /\ a <= k /\ k <= k + 1 /\ k + 1 <= b
      BY <1>3
    <2>2. g[at[a]] <= g[at[k]] /\ g[at[k]] <= g[at[k + 1]] /\ g[at[k + 1]] <= g[at[b]]
      BY <1>5, <2>1
    <2>3. PICK u \in Int, v \in Int, w \in Int, x \in Int :
             u = g[at[a]] /\ v = g[at[k]] /\ w = g[at[k + 1]] /\ x = g[at[b]]
      BY <1>4, <2>1
    <2>4. u <= v /\ v <= w /\ w <= x /\ v # w
      BY <1>3, <2>2, <2>3
    <2>5. u < x
      BY <2>4
    <2> QED
      BY <2>3, <2>5
  <1> QED
    BY <1>1, <1>2, <1>3, <1>6

\* The cuts between the blocks of a table: changes of time, each with the rows it needs
\* behind the one before.
AreBlockCuts(g, cuts, folds, p) ==
  /\ cuts \in [1..folds + 1 -> Nat] /\ cuts[folds + 1] = Len(g)
  /\ \A i \in 1..folds : cuts[i] \in Changes(g) /\ cuts[i] + p.minValid <= cuts[i + 1]
  /\ \A i \in 1..folds : p.minTrain <= cuts[i] /\ cuts[i] <= Len(g)
  /\ cuts[1] \in Changes(g)

IsCutInto(g, y, p, splits, folds, cuts) ==
  /\ AreBlockCuts(g, cuts, folds, p)
  /\ p.coverage => Values(y, Past(g, cuts[1])) = Range(y)
  /\ Len(splits) = folds /\ DOMAIN splits = 1..folds
  /\ \A i \in 1..folds : /\ splits[i].past = Past(g, cuts[i])
                         /\ splits[i].future = SubSeq(Order(g), cuts[i] + 1, cuts[i + 1])

\* The blocks of expanding_splits lie between cuts, and the first past is as asked for.
LEMMA ExpandingIsCut ==
  ASSUME NEW g \in Seq(Int), NEW y, NEW p,
         p.folds \in Nat, p.minValid \in Nat, p.minTrain \in Nat,
         p.warmNum \in Int, p.warmDen \in Nat \ {0},
         NEW splits, splits = ExpandingSplits(g, y, p), splits # <<>>
  PROVE  \E folds \in Nat \ {0} : \E cuts : IsCutInto(g, y, p, splits, folds, cuts)
  <1>1. PICK feasible : feasible = {f \in 1..p.folds : Starts(g, y, p, f) # {}}
    OBVIOUS
  <1>2. feasible # {} /\ splits = SplitsOf(g, y, p, Max(feasible))
    BY <1>1 DEF ExpandingSplits
  <1>3. PICK folds \in Nat \ {0} : folds = Max(feasible) /\ Starts(g, y, p, folds) # {}
    <2>1. feasible \in SUBSET (1..p.folds)
      BY <1>1
    <2>2. PICK f : f = Max(feasible)
      OBVIOUS
    <2>3. f \in feasible
      BY <1>2, <2>1, <2>2, LargestFeasible
    <2>4. f \in 1..p.folds /\ Starts(g, y, p, f) # {}
      BY <1>1, <2>3
    <2>5. f \in Nat \ {0}
      BY <2>4
    <2> QED
      BY <2>2, <2>4, <2>5
  <1>4. PICK n \in Nat : n = Len(g)
    BY OrderIsSorted
  <1>5. PICK first : first = Nearest(Starts(g, y, p, folds), Rounded(p.warmNum * n, p.warmDen))
    OBVIOUS
  <1>6. first \in Starts(g, y, p, folds)
    <2>1. Starts(g, y, p, folds) \in SUBSET Nat
      BY <1>4 DEF Starts, Changes
    <2>2. Rounded(p.warmNum * n, p.warmDen) \in Int
      <3>1. p.warmNum * n \in Int
        BY <1>4
      <3> QED
        BY <3>1, RoundedIsNumber
    <2> QED
      BY <1>3, <1>5, <2>1, <2>2, NearestIsClosest
  <1>7. PICK ends : ends = BlockEnds(g, first, folds, p.minValid)
    OBVIOUS
  <1>8. /\ first \in Changes(g) /\ first \in Nat /\ first >= p.minTrain
        /\ p.coverage => Values(y, Past(g, first)) = Range(y)
        /\ LeavesLast(g, ends, p.minValid)
    BY <1>4, <1>6, <1>7 DEF Starts, Changes
  <1>9. /\ ends \in [1..folds -> Nat] /\ ends[1] = first
        /\ \A i \in 2..folds :
              \/ ends[i] = Infeasible
              \/ /\ ends[i - 1] # Infeasible
                 /\ ends[i] \in Room(g, ends[i - 1], folds - (i - 1), p.minValid)
        /\ \A i \in 2..folds : ends[i - 1] = Infeasible => ends[i] = Infeasible
    <2>1. first \in Nat
      BY <1>8
    <2>2. PICK minValid \in Nat : minValid = p.minValid
      OBVIOUS
    <2>3. AreBlockEnds(g, ends, first, folds, minValid)
      BY <1>7, <2>1, <2>2, BlocksEnd
    <2> QED
      BY <2>2, <2>3 DEF AreBlockEnds
  <1>10. Len(ends) = folds /\ ends[folds] # Infeasible /\ n - ends[folds] >= p.minValid
    <2>1. Len(ends) = folds
      BY <1>9
    <2> QED
      BY <1>4, <1>8, <2>1 DEF LeavesLast, Last
  <1>11. \A i \in 1..folds : ends[i] # Infeasible
    <2> DEFINE Bad == {d \in 0..folds - 1 : ends[folds - d] = Infeasible}
    <2>1. SUFFICES ASSUME Bad # {} PROVE FALSE
      <3> SUFFICES ASSUME Bad = {}, NEW i \in 1..folds, ends[i] = Infeasible PROVE FALSE
        OBVIOUS
      <3>1. folds - i \in 0..folds - 1 /\ folds - (folds - i) = i
        OBVIOUS
      <3> QED
        BY <3>1
    <2>2. PICK d \in Bad : \A c \in Bad : d <= c
      <3>1. Bad \in SUBSET Nat
        OBVIOUS
      <3> HIDE DEF Bad
      <3> QED
        BY <2>1, <3>1, LeastNatural
    <2>3. d # 0
      <3>1. folds - 0 = folds
        OBVIOUS
      <3> QED
        BY <1>10, <2>2, <3>1
    <2>4. PICK i : i = folds - (d - 1)
      OBVIOUS
    <2>5. d \in Nat /\ i \in 2..folds /\ i - 1 = folds - d /\ d - 1 \in 0..folds - 1 /\ ~(d <= d - 1)
      BY <2>2, <2>3, <2>4
    <2>6. ends[i - 1] = Infeasible
      BY <2>2, <2>5
    <2>7. ends[i] = Infeasible
      BY <1>9, <2>5, <2>6
    <2>8. d - 1 \in Bad
      BY <2>4, <2>5, <2>7
    <2> QED
      BY <2>2, <2>5, <2>8
  <1>12. \A i \in 2..folds : ends[i] \in Changes(g) /\ ends[i] >= ends[i - 1] + p.minValid
    <2> SUFFICES ASSUME NEW i \in 2..folds
                 PROVE  ends[i] \in Changes(g) /\ ends[i] >= ends[i - 1] + p.minValid
      OBVIOUS
    <2>1. i \in 1..folds
      OBVIOUS
    <2>2. ends[i] \in Room(g, ends[i - 1], folds - (i - 1), p.minValid)
      BY <1>9, <1>11, <2>1
    <2> QED
      BY <2>2 DEF Room
  <1>13. PICK cuts : cuts = Append(ends, n)
    OBVIOUS
  <1>14. /\ cuts \in [1..folds + 1 -> Nat] /\ cuts[folds + 1] = n /\ Len(cuts) = folds + 1
         /\ \A i \in 1..folds : cuts[i] = ends[i]
    <2>1. ends \in Seq(Nat) /\ Len(ends) = folds
      BY <1>9, <1>10, SMTT(30)
    <2>2. /\ cuts \in Seq(Nat) /\ Len(cuts) = Len(ends) + 1
          /\ \A i \in 1..Len(ends) : cuts[i] = ends[i]
          /\ cuts[Len(ends) + 1] = n
      BY <1>13, <2>1, AppendProperties
    <2>3. Len(cuts) = folds + 1 /\ cuts[folds + 1] = n /\ \A i \in 1..folds : cuts[i] = ends[i]
      BY <2>1, <2>2
    <2>4. cuts \in [1..folds + 1 -> Nat]
      BY <2>2, <2>3
    <2> QED
      BY <2>3, <2>4
  <1>15. \A i \in 1..folds : cuts[i] \in Changes(g) /\ cuts[i] + p.minValid <= cuts[i + 1]
    <2> SUFFICES ASSUME NEW i \in 1..folds
                 PROVE  cuts[i] \in Changes(g) /\ cuts[i] + p.minValid <= cuts[i + 1]
      OBVIOUS
    <2>1. cuts[i] \in Changes(g)
      <3>1. CASE i = 1
        BY <1>8, <1>9, <1>14, <3>1
      <3>2. CASE i # 1
        <4>1. i \in 2..folds
          BY <3>2
        <4> QED
          BY <1>12, <1>14, <4>1
      <3> QED
        BY <3>1, <3>2
    <2>2. cuts[i] + p.minValid <= cuts[i + 1]
      <3>1. CASE i = folds
        <4>1. cuts[i] = ends[folds] /\ cuts[i + 1] = n /\ ends[folds] \in Nat
          BY <1>9, <1>14, <3>1
        <4> QED
          BY <1>10, <4>1
      <3>2. CASE i # folds
        <4>1. i + 1 \in 2..folds /\ i + 1 \in 1..folds /\ (i + 1) - 1 = i
          BY <3>2
        <4>2. cuts[i] = ends[i] /\ cuts[i + 1] = ends[i + 1] /\ ends[i + 1] >= ends[i] + p.minValid
          BY <1>12, <1>14, <4>1
        <4>3. ends[i] \in Nat /\ ends[i + 1] \in Nat
          BY <1>9, <4>1
        <4> QED
          BY <4>2, <4>3
      <3> QED
        BY <3>1, <3>2
    <2> QED
      BY <2>1, <2>2
  <1>16. \A i \in 1..folds : p.minTrain <= cuts[i] /\ cuts[i] <= n
    <2>1. \A i \in 1..folds : cuts[i] <= n /\ cuts[i] \in Nat
      <3>1. \A k \in Changes(g) : k \in Nat /\ k <= n
        BY <1>4 DEF Changes
      <3> QED
        BY <1>15, <3>1
    <2> DEFINE Bad == {i \in 1..folds : ~(p.minTrain <= cuts[i])}
    <2>2. SUFFICES ASSUME Bad # {} PROVE FALSE
      BY <2>1
    <2>3. PICK i \in Bad : \A j \in Bad : i <= j
      <3>1. Bad \in SUBSET Nat
        OBVIOUS
      <3> HIDE DEF Bad
      <3> QED
        BY <2>2, <3>1, LeastNatural
    <2>4. i # 1
      <3>1. 1 \in 1..folds
        OBVIOUS
      <3> QED
        BY <1>8, <1>9, <1>14, <2>3, <3>1
    <2>5. i \in 1..folds /\ i - 1 \in 1..folds /\ ~(i <= i - 1) /\ (i - 1) + 1 = i
      BY <2>3, <2>4
    <2>6. p.minTrain <= cuts[i - 1]
      BY <2>3, <2>5
    <2>7. cuts[i - 1] + p.minValid <= cuts[i]
      BY <1>15, <2>5
    <2>8. p.minTrain <= cuts[i]
      BY <2>1, <2>5, <2>6, <2>7
    <2> QED
      BY <2>3, <2>8
  <1>17. AreBlockCuts(g, cuts, folds, p)
    <2>1. 1 \in 1..folds
      OBVIOUS
    <2> QED
      BY <1>4, <1>14, <1>15, <1>16, <2>1 DEF AreBlockCuts
  <1>18. cuts[1] = first
    <2>1. 1 \in 1..folds
      OBVIOUS
    <2> QED
      BY <1>9, <1>14, <2>1
  <1>19. splits = [i \in 1..folds |-> [past |-> Past(g, cuts[i]),
                                       future |-> SubSeq(Order(g), cuts[i] + 1, cuts[i + 1])]]
    <2>1. splits = SplitsAt(g, cuts)
      BY <1>2, <1>3, <1>4, <1>5, <1>7, <1>13 DEF SplitsOf
    <2>2. Len(cuts) - 1 = folds
      BY <1>14
    <2> QED
      BY <2>1, <2>2 DEF SplitsAt
  <1>20. Len(splits) = folds /\ DOMAIN splits = 1..folds
    BY <1>19
  <1>21. \A i \in 1..folds : /\ splits[i].past = Past(g, cuts[i])
                             /\ splits[i].future = SubSeq(Order(g), cuts[i] + 1, cuts[i + 1])
    BY <1>19
  <1>22. p.coverage => Values(y, Past(g, cuts[1])) = Range(y)
    BY <1>8, <1>18
  <1>23. IsCutInto(g, y, p, splits, folds, cuts)
    BY <1>17, <1>20, <1>21, <1>22 DEF IsCutInto
  <1> QED
    BY <1>23

\* The rows of a slice of the table, oldest first.
LEMMA RowsOfASlice ==
  ASSUME NEW g \in Seq(Int), NEW a \in 0..Len(g), NEW b \in a..Len(g)
  PROVE  /\ Range(SubSeq(Order(g), a + 1, b)) = {Order(g)[k] : k \in a + 1..b}
         /\ Len(SubSeq(Order(g), a + 1, b)) = b - a
         /\ Range(SubSeq(Order(g), a + 1, b)) \subseteq 1..Len(g)
  <1>1. PICK n \in Nat : n = Len(g)
    BY OrderIsSorted
  <1>2. PICK at : at = Order(g) /\ at \in Seq(1..n) /\ Len(at) = n
    BY <1>1, OrderIsSorted
  <1>3. PICK q : q = SubSeq(at, a + 1, b)
    OBVIOUS
  <1>4. a \in 0..n /\ b \in a..n
    BY <1>1
  <1>5. q \in Seq(1..n) /\ Len(q) = b - a /\ \A i \in 1..b - a : a + i \in 1..n /\ q[i] = at[a + i]
    <2>1. a \in 0..Len(at) /\ b \in a..Len(at)
      BY <1>2, <1>4
    <2> QED
      <3>1. /\ SubSeq(at, a + 1, b) \in Seq(1..n) /\ Len(SubSeq(at, a + 1, b)) = b - a
            /\ \A i \in 1..b - a : a + i \in 1..Len(at) /\ SubSeq(at, a + 1, b)[i] = at[a + i]
        BY <1>2, <2>1, Slices, SMTT(30)
      <3> QED
        BY <1>2, <1>3, <3>1
  <1>6. DOMAIN q = 1..b - a
    BY <1>5
  <1>7. \A i \in 1..b - a : a + i \in a + 1..b
    BY <1>4
  <1>8. \A k \in a + 1..b : k - a \in 1..b - a /\ a + (k - a) = k
    BY <1>4
  <1>9. Range(q) = {at[k] : k \in a + 1..b}
    <2>1. Range(q) = {q[i] : i \in 1..b - a}
      BY <1>6 DEF Range
    <2>2. ASSUME NEW i \in 1..b - a PROVE q[i] \in {at[k] : k \in a + 1..b}
      BY <1>5, <1>7
    <2>3. ASSUME NEW k \in a + 1..b PROVE at[k] \in {q[i] : i \in 1..b - a}
      <3>1. k - a \in 1..b - a /\ q[k - a] = at[k]
        BY <1>5, <1>8
      <3> QED
        BY <3>1
    <2> QED
      BY <2>1, <2>2, <2>3
  <1>10. Range(q) \subseteq 1..n
    <2>1. \A i \in DOMAIN q : q[i] \in 1..n
      BY <1>5, ElementOfSeq, SMTT(30)
    <2> QED
      BY <2>1 DEF Range
  <1>11. SubSeq(Order(g), a + 1, b) = q
    BY <1>2, <1>3
  <1>12. Range(q) = {Order(g)[k] : k \in a + 1..b}
    BY <1>2, <1>9
  <1> QED
    BY <1>1, <1>5, <1>10, <1>11, <1>12

\* The rows before a cut are the first ones in time order.
LEMMA RowsOfThePast ==
  ASSUME NEW g \in Seq(Int), NEW k \in 0..Len(g)
  PROVE  /\ Range(Past(g, k)) = {Order(g)[j] : j \in 1..k}
         /\ Len(Past(g, k)) = k
         /\ Range(Past(g, k)) \subseteq 1..Len(g)
  <1>1. 0 \in 0..Len(g) /\ k \in 0..Len(g) /\ 0 + 1 = 1 /\ k - 0 = k
    BY OrderIsSorted
  <1>2. /\ Range(SubSeq(Order(g), 0 + 1, k)) = {Order(g)[j] : j \in 0 + 1..k}
        /\ Len(SubSeq(Order(g), 0 + 1, k)) = k - 0
        /\ Range(SubSeq(Order(g), 0 + 1, k)) \subseteq 1..Len(g)
    BY <1>1, RowsOfASlice
  <1> QED
    BY <1>1, <1>2 DEF Past

\* The rows before a block and those of it.
AreBeforeAndAfter(g, cuts, i, past, future) ==
  /\ past \subseteq 1..Len(g) /\ future \subseteq 1..Len(g)
  /\ \A a \in past, b \in future : g[a] < g[b]
  /\ past = {Order(g)[j] : j \in 1..cuts[i]}
  /\ future = {Order(g)[j] : j \in cuts[i] + 1..cuts[i + 1]}
  /\ Len(Past(g, cuts[i])) = cuts[i]
  /\ Len(SubSeq(Order(g), cuts[i] + 1, cuts[i + 1])) = cuts[i + 1] - cuts[i]
  /\ cuts[i] \in Nat /\ cuts[i + 1] \in cuts[i]..Len(g)

\* What may be fitted before a block is measured is strictly earlier than the block.
LEMMA BlocksAreLater ==
  ASSUME NEW g \in Seq(Int), NEW p, p.minValid \in Nat, NEW folds \in Nat, NEW cuts,
         AreBlockCuts(g, cuts, folds, p), NEW i \in 1..folds,
         NEW past, past = Range(Past(g, cuts[i])),
         NEW future, future = Range(SubSeq(Order(g), cuts[i] + 1, cuts[i + 1]))
  PROVE  AreBeforeAndAfter(g, cuts, i, past, future)
  <1>1. PICK k, m : k = cuts[i] /\ m = cuts[i + 1]
    OBVIOUS
  <1>2. PICK n \in Nat : n = Len(g)
    BY OrderIsSorted
  <1>3. k \in Changes(g) /\ k \in Nat /\ m \in Nat /\ k + p.minValid <= m /\ k <= n /\ m <= n
    <2>1. i + 1 \in 1..folds + 1 /\ i \in 1..folds + 1
      OBVIOUS
    <2>2. k \in Changes(g) /\ k \in Nat /\ m \in Nat /\ k + p.minValid <= m /\ k <= n
      BY <1>1, <1>2, <2>1 DEF AreBlockCuts
    <2>3. m <= n
      <3>1. CASE i = folds
        BY <1>1, <1>2, <3>1 DEF AreBlockCuts
      <3>2. CASE i # folds
        <4>1. i + 1 \in 1..folds
          BY <3>2
        <4> QED
          BY <1>1, <1>2, <4>1 DEF AreBlockCuts
      <3> QED
        BY <3>1, <3>2
    <2> QED
      BY <2>2, <2>3
  <1>4. k \in 0..n /\ m \in k..n
    BY <1>3
  <1>5. past = {Order(g)[j] : j \in 1..k} /\ past \subseteq 1..n /\ Len(Past(g, k)) = k
    BY <1>1, <1>2, <1>4, RowsOfThePast
  <1>6. /\ future = {Order(g)[j] : j \in k + 1..m} /\ future \subseteq 1..n
        /\ Len(SubSeq(Order(g), k + 1, m)) = m - k
    BY <1>1, <1>2, <1>4, RowsOfASlice
  <1>7. \A a \in 1..k, b \in k + 1..n : g[Order(g)[a]] < g[Order(g)[b]]
    BY <1>2, <1>3, CutsAreStrict
  <1>8. \A b \in k + 1..m : b \in k + 1..n
    BY <1>4
  <1>9. \A a \in past, b \in future : g[a] < g[b]
    BY <1>5, <1>6, <1>7, <1>8
  <1> QED
    BY <1>1, <1>2, <1>3, <1>4, <1>5, <1>6, <1>9 DEF AreBeforeAndAfter

-----------------------------------------------------------------------------
(* The operating points.                                                   *)

\* A threshold depends on the labels of the rows it is selected on and of no other.
LEMMA ChoosesByItsRows ==
  ASSUME NEW e, NEW f, f.p = e.p, NEW rows, \A r \in rows : f.y[r] = e.y[r]
  PROVE  /\ SelectBalanced(f, rows) = SelectBalanced(e, rows)
         /\ SelectRareInTime(f, rows) = SelectRareInTime(e, rows)
  <1>1. Positives(f, rows) = Positives(e, rows)
    BY DEF Positives
  <1>2. Negatives(f, rows) = Negatives(e, rows)
    BY <1>1 DEF Negatives
  <1>3. \A some, t : AtLeast(f, some, t) = AtLeast(e, some, t)
    BY DEF AtLeast
  <1>4. \A predicted : BalancedScore(f, predicted, rows) = BalancedScore(e, predicted, rows)
    BY <1>1, <1>2 DEF BalancedScore
  <1>5. Grid(f, rows) = Grid(e, rows)
    BY DEF Grid
  <1>6. SelectBalanced(f, rows) = SelectBalanced(e, rows)
    BY <1>3, <1>4, <1>5 DEF SelectBalanced
  <1>7. Prior(f, rows, FALSE) = Prior(e, rows, FALSE)
    BY <1>1, <1>2 DEF Prior
  <1>8. \A predicted, prior : RareScore(f, predicted, rows, prior) = RareScore(e, predicted, rows, prior)
    BY <1>1, <1>2 DEF RareScore
  <1>9. SelectRareInTime(f, rows) = SelectRareInTime(e, rows)
    <2> DEFINE Rated(g, t) == RareScore(g, AtLeast(g, rows, t), rows, Prior(g, rows, FALSE))
               Best(g) == {t \in {g.p[r] : r \in rows} : \A u \in {g.p[r] : r \in rows} : Rated(g, u) <= Rated(g, t)}
    <2>1. \A t : Rated(f, t) = Rated(e, t)
      BY <1>3, <1>7, <1>8
    <2>2. Best(f) = Best(e)
      <3> HIDE DEF Rated
      <3> QED
        BY <2>1
    <2>3. SelectRareInTime(f, rows) = Max(Best(f)) /\ SelectRareInTime(e, rows) = Max(Best(e))
      BY DEF SelectRareInTime, SelectRare
    <2> HIDE DEF Best
    <2> QED
      BY <2>2, <2>3
  <1> QED
    BY <1>6, <1>9

\* The classes of some rows of a table, and those of them that are predicted, are finite.
LEMMA ClassesAreCounted ==
  ASSUME NEW e, NEW n \in Nat, NEW rows \in SUBSET (1..n), NEW predicted
  PROVE  /\ Cardinality(Positives(e, rows)) \in 0..n
         /\ Cardinality(Negatives(e, rows)) \in 0..n
         /\ Cardinality(Positives(e, rows) \cap predicted) \in 0..n
         /\ Cardinality(Negatives(e, rows) \cap predicted) \in 0..n
         /\ Cardinality(Negatives(e, rows) \ predicted) \in 0..n
  <1>1. IsFiniteSet(1..n) /\ Cardinality(1..n) = n
    <2>1. Cardinality(1..n) = IF 1 > n THEN 0 ELSE n - 1 + 1
      BY FS_Interval
    <2>2. IsFiniteSet(1..n)
      BY FS_Interval
    <2> QED
      BY <2>1, <2>2
  <1>2. ASSUME NEW S \in SUBSET (1..n) PROVE Cardinality(S) \in 0..n
    <2>1. IsFiniteSet(S) /\ Cardinality(S) <= Cardinality(1..n)
      BY <1>1, FS_Subset
    <2>2. Cardinality(S) \in Nat
      BY <2>1, FS_CardinalityType
    <2> QED
      BY <1>1, <2>1, <2>2
  <1>3. Positives(e, rows) \subseteq 1..n /\ Negatives(e, rows) \subseteq 1..n
    BY DEF Positives, Negatives
  <1> QED
    BY <1>2, <1>3

\* Predictions that count as a gain score higher than those of the default.
LEMMA GainsAreHigher ==
  ASSUME NEW e, NEW n \in 0..MaxRows, NEW rows \in SUBSET (1..n), NEW predicted
  PROVE  /\ BeatsHalf(e, predicted, rows) =>
              BalancedScore(e, predicted, rows) > BalancedScore(e, AtLeast(e, rows, Half), rows)
         /\ RareBeatsHalf(e, predicted, rows) =>
              RareScore(e, predicted, rows, Prior(e, rows, FALSE))
                > RareScore(e, AtLeast(e, rows, Half), rows, Prior(e, rows, FALSE))
  <1>0. n \in Nat /\ MaxRows \in Nat /\ 0..n \subseteq 0..MaxRows
    BY PointSplitsHaveFloors
  <1>1. PICK P \in 0..n, N \in 0..n :
           P = Cardinality(Positives(e, rows)) /\ N = Cardinality(Negatives(e, rows))
    BY <1>0, ClassesAreCounted
  <1>2. ASSUME NEW some PROVE BalancedScore(e, some, rows) \in Int
    <2>1. PICK a \in 0..n, b \in 0..n : /\ a = Cardinality(Positives(e, rows) \cap some)
                                       /\ b = Cardinality(Negatives(e, rows) \ some)
      BY <1>0, ClassesAreCounted
    <2>2. BalancedScore(e, some, rows) = IF P = 0 \/ N = 0 THEN -1 ELSE N * a + P * b
      BY <1>1, <2>1 DEF BalancedScore
    <2>3. N * a \in Int /\ P * b \in Int
      BY <1>0
    <2> QED
      BY <2>2, <2>3
  <1>3. ASSUME NEW some PROVE RareScore(e, some, rows, Prior(e, rows, FALSE)) \in Int
    <2>1. PICK a \in 0..n, b \in 0..n : /\ a = Cardinality(Positives(e, rows) \cap some)
                                       /\ b = Cardinality(Negatives(e, rows) \cap some)
      BY <1>0, ClassesAreCounted
    <2>2. Prior(e, rows, FALSE) = <<P, N>>
      BY <1>1 DEF Prior
    <2>3. RareScore(e, some, rows, Prior(e, rows, FALSE)) = Conservative(a, b, P, N, <<P, N>>)
      BY <1>1, <2>1, <2>2 DEF RareScore
    <2>4. P \in 0..MaxRows /\ N \in 0..MaxRows /\ a \in 0..MaxRows /\ b \in 0..MaxRows
      BY <1>0
    <2>5. <<P, N>> \in (0..MaxRows) \X (0..MaxRows)
      BY <2>4
    <2>6. Conservative(a, b, P, N, <<P, N>>) \in Int
      BY <2>4, <2>5, ScoresAreNumbers
    <2> QED
      BY <2>3, <2>6
  <1>4. ASSUME BeatsHalf(e, predicted, rows)
        PROVE  BalancedScore(e, predicted, rows) > BalancedScore(e, AtLeast(e, rows, Half), rows)
    <2>1. PICK x \in Int, z \in Int : /\ x = BalancedScore(e, predicted, rows)
                                      /\ z = BalancedScore(e, AtLeast(e, rows, Half), rows)
      BY <1>2
    <2>2. P * N \in Nat
      BY <1>0
    <2>3. 100 * (x - z) > P * N
      BY <1>1, <1>4, <2>1 DEF BeatsHalf
    <2>4. x > z
      <3>1. PICK m \in Nat : m = P * N
        BY <2>2
      <3>2. 100 * (x - z) > m
        BY <2>3, <3>1
      <3> QED
        BY <3>2
    <2> QED
      BY <2>1, <2>4
  <1>5. ASSUME RareBeatsHalf(e, predicted, rows)
        PROVE  RareScore(e, predicted, rows, Prior(e, rows, FALSE))
                 > RareScore(e, AtLeast(e, rows, Half), rows, Prior(e, rows, FALSE))
    <2>1. PICK x \in Int, z \in Int :
             /\ x = RareScore(e, predicted, rows, Prior(e, rows, FALSE))
             /\ z = RareScore(e, AtLeast(e, rows, Half), rows, Prior(e, rows, FALSE))
      BY <1>3
    <2>2. x > z + 2
      BY <1>5, <2>1 DEF RareBeatsHalf
    <2>3. x > z
      BY <2>2
    <2> QED
      BY <2>1, <2>3
  <1> QED
    BY <1>4, <1>5

\* The blocks of a dated table: held out rows are later than those they are judged from.
LEMMA PointBlocks ==
  ASSUME NEW c \in Asks("point"), c.e.g # <<>>, NEW i \in DOMAIN Splits(c.e)
  PROVE  /\ Range(Splits(c.e)[i].past) \subseteq DOMAIN c.e.p
         /\ Range(Splits(c.e)[i].future) \subseteq DOMAIN c.e.p
         /\ \A a \in Range(Splits(c.e)[i].past), b \in Range(Splits(c.e)[i].future) : c.e.g[a] < c.e.g[b]
  <1>1. PICK g : g = c.e.g
    OBVIOUS
  <1>2. g \in Seq(Int) /\ DOMAIN c.e.p = 1..Len(g)
    <2>1. g \in Seq(Nat) /\ c.e.p \in Seq(Nat) /\ Len(g) = Len(c.e.p)
      BY <1>1, PointsAreTables
    <2>2. g \in Seq(Int)
      BY <2>1
    <2> QED
      BY <2>1, <2>2
  <1>3. PICK splits : splits = ExpandingSplits(g, c.e.y, PointSplits)
    OBVIOUS
  <1>4. splits = Splits(c.e) /\ splits # <<>>
    BY <1>1, <1>3 DEF Splits
  <1>5. /\ PointSplits.folds \in Nat /\ PointSplits.minValid \in Nat /\ PointSplits.minTrain \in Nat
        /\ PointSplits.warmNum \in Int /\ PointSplits.warmDen \in Nat \ {0}
    BY PointSplitsHaveFloors
  <1>11. PICK folds \in Nat \ {0} : \E cuts : IsCutInto(g, c.e.y, PointSplits, splits, folds, cuts)
    BY <1>2, <1>3, <1>4, <1>5, ExpandingIsCut
  <1>12. PICK cuts : IsCutInto(g, c.e.y, PointSplits, splits, folds, cuts)
    BY <1>11
  <1>6. /\ AreBlockCuts(g, cuts, folds, PointSplits) /\ DOMAIN splits = 1..folds
        /\ \A j \in 1..folds : /\ splits[j].past = Past(g, cuts[j])
                               /\ splits[j].future = SubSeq(Order(g), cuts[j] + 1, cuts[j + 1])
    BY <1>12 DEF IsCutInto
  <1>7. PICK past, future : past = Range(splits[i].past) /\ future = Range(splits[i].future)
    OBVIOUS
  <1>8. i \in 1..folds
    BY <1>4, <1>6
  <1>9. past = Range(Past(g, cuts[i])) /\ future = Range(SubSeq(Order(g), cuts[i] + 1, cuts[i + 1]))
    BY <1>6, <1>7, <1>8
  <1>10. /\ past \subseteq 1..Len(g) /\ future \subseteq 1..Len(g)
         /\ \A a \in past, b \in future : g[a] < g[b]
    <2>1. folds \in Nat /\ g \in Seq(Int) /\ PointSplits.minValid \in Nat
      BY <1>2, <1>5
    <2>2. AreBeforeAndAfter(g, cuts, i, past, future)
      BY <1>6, <1>8, <1>9, <2>1, BlocksAreLater
    <2> QED
      BY <2>2 DEF AreBeforeAndAfter
  <1> QED
    BY <1>1, <1>2, <1>4, <1>7, <1>10

\* The labels of a block decide nothing in it.
LEMMA RelabelledAlike ==
  ASSUME NEW c \in Asks("point"), c.e.g # <<>>
  PROVE  RelabellingChangesNothing(c.e, Splits(c.e))
  <1>1. PICK e, splits : e = c.e /\ splits = Splits(c.e)
    OBVIOUS
  <1> SUFFICES ASSUME NEW i \in DOMAIN splits, NEW f \in
                        SameTill(e, {r \in RowsOf(e) : \A s \in Range(splits[i].future) : e.g[r] < e.g[s]})
               PROVE  /\ CalledAt(f, splits, i) = CalledAt(e, splits, i)
                      /\ Flagged(f, splits, i) = Flagged(e, splits, i)
    BY <1>1 DEF RelabellingChangesNothing
  <1>2. PICK past, future : past = Range(splits[i].past) /\ future = Range(splits[i].future)
    OBVIOUS
  <1>3. past \subseteq {r \in RowsOf(e) : \A s \in future : e.g[r] < e.g[s]}
    BY <1>1, <1>2, PointBlocks DEF RowsOf
  <1>4. PICK z : f = [e EXCEPT !.y = z] /\ \A r \in past : z[r] = e.y[r]
    BY <1>2, <1>3 DEF SameTill
  <1>5. f.p = e.p /\ \A r \in past : f.y[r] = e.y[r]
    <2>1. DOMAIN e = {"p", "y", "g"}
      BY <1>1, PointsAreTables
    <2> QED
      BY <1>4, <2>1
  <1>6. SelectBalanced(f, past) = SelectBalanced(e, past) /\ SelectRareInTime(f, past) = SelectRareInTime(e, past)
    BY <1>5, ChoosesByItsRows
  <1>7. \A some, t : AtLeast(f, some, t) = AtLeast(e, some, t)
    BY <1>5 DEF AtLeast
  <1> QED
    BY <1>2, <1>6, <1>7 DEF CalledAt, Flagged

\* Operating points of event data are prospective: labels from a block on change nothing
\* in it, and a threshold is deployed only for what such predictions gain.
THEOREM DeploysProspectiveThresholds == DecisionSpec => []ThresholdsAreProspective
  <1>1. AnswerOf => ThresholdsAreProspective
    <2> SUFFICES ASSUME AnswerOf, Answered("point"), call.e.g # <<>>
                 PROVE  ProspectiveOn(call.e, Splits(call.e))
      BY DEF ThresholdsAreProspective
    <2>1. PICK c \in Asked : /\ call = c
                             /\ answer = Pending \/ answer = [is |-> DecisionAnswer(c)]
      BY DEF AnswerOf
    <2>2. c \in Asks("point") /\ answer.is = PointOf(c.e, Splits(c.e))
      BY <2>1 DEF Answered, Asked, Asks, DecisionAnswer
    <2>3. PICK e, splits, rows : e = c.e /\ splits = Splits(c.e) /\ rows = Evaluated(splits)
      OBVIOUS
    <2>4. PICK n \in 0..MaxRows : DOMAIN e.p = 1..n /\ e.g # <<>>
      <3>1. e.p \in Seq(Nat) /\ Len(e.p) \in 1..MaxRows /\ e.g # <<>>
        BY <2>1, <2>2, <2>3, PointsAreTables
      <3>2. DOMAIN e.p = 1..Len(e.p) /\ Len(e.p) \in 0..MaxRows
        <4>1. MaxRows \in Nat
          BY PointSplitsHaveFloors
        <4> QED
          BY <3>1, <4>1
      <3> QED
        BY <3>1, <3>2
    <2>5. rows \subseteq 1..n
      <3>1. \A i \in DOMAIN splits : Range(splits[i].future) \subseteq DOMAIN e.p
        BY <2>1, <2>2, <2>3, PointBlocks
      <3> QED
        BY <2>3, <2>4, <3>1 DEF Evaluated
    <2>6. RelabellingChangesNothing(e, splits)
      BY <2>1, <2>2, <2>3, RelabelledAlike
    <2>7. ASSUME answer.is.balanced # NoThreshold PROVE BalancedGains(e, splits, rows)
      <3>4. BalancedThreshold(e, splits) # NoThreshold
        BY <2>2, <2>3, <2>7 DEF PointOf
      <3>1. BeatsHalf(e, Prospective(e, splits, SelectBalanced), rows)
        BY <2>3, <2>4, <3>4 DEF BalancedThreshold
      <3>2. Prospective(e, splits, SelectBalanced) = UNION {CalledAt(e, splits, i) : i \in DOMAIN splits}
        BY DEF Prospective, CalledAt
      <3>3. BeatsHalf(e, UNION {CalledAt(e, splits, i) : i \in DOMAIN splits}, rows)
        BY <3>1, <3>2
      <3> QED
        BY <2>4, <2>5, <3>3, GainsAreHigher DEF BalancedGains
    <2>8. ASSUME answer.is.rare # NoThreshold PROVE RareGains(e, splits, rows)
      <3>4. TemporalRare(e, splits) # NoThreshold
        BY <2>2, <2>3, <2>4, <2>8 DEF PointOf
      <3>1. RareBeatsHalf(e, Prospective(e, splits, SelectRareInTime), rows)
        BY <2>3, <3>4 DEF TemporalRare
      <3>2. Prospective(e, splits, SelectRareInTime) = UNION {Flagged(e, splits, i) : i \in DOMAIN splits}
        BY DEF Prospective, Flagged
      <3>3. RareBeatsHalf(e, UNION {Flagged(e, splits, i) : i \in DOMAIN splits}, rows)
        BY <3>1, <3>2
      <3> QED
        BY <2>4, <2>5, <3>3, GainsAreHigher DEF RareGains
    <2> QED
      BY <2>1, <2>3, <2>6, <2>7, <2>8 DEF ProspectiveOn
  <1> QED
    BY <1>1, Answering, PTL

-----------------------------------------------------------------------------
(* Rows in time order, and where they may be cut.                          *)

\* Rows of a table, oldest first, each once.
InTimeOrder(g, rows) ==
  /\ rows \in Seq(1..Len(g))
  /\ \A i, j \in 1..Len(rows) : i < j => rows[i] # rows[j] /\ g[rows[i]] <= g[rows[j]]

\* The first k rows are earlier than the others.
IsEdge(g, rows, k) ==
  /\ k \in 0..Len(rows)
  /\ \A a \in 1..k, b \in k + 1..Len(rows) : g[rows[a]] < g[rows[b]]

AllBefore(g, A, B) == \A a \in A, b \in B : g[a] < g[b]

\* The rows of a table in time order are sorted.
LEMMA OrderSorts ==
  ASSUME NEW g \in Seq(Int)
  PROVE  InTimeOrder(g, Order(g))
  <1>1. PICK o : o = Order(g)
    OBVIOUS
  <1>2. PICK n \in Nat : n = Len(g)
    OBVIOUS
  <1>3. /\ \A a, b \in 1..n : Place(g, a) <= Place(g, b) <=> g[a] < g[b] \/ (g[a] = g[b] /\ a <= b)
        /\ \A r \in 1..n : g[r] \in Int
        /\ o \in Seq(1..n) /\ Len(o) = n
        /\ \A k \in 1..n : o[k] \in 1..n /\ Place(g, o[k]) = k
    BY <1>1, <1>2, OrderIsSorted
  <1>4. ASSUME NEW i \in 1..n, NEW j \in 1..n, i < j
        PROVE  o[i] # o[j] /\ g[o[i]] <= g[o[j]]
    <2>1. PICK a \in 1..n, b \in 1..n : a = o[i] /\ b = o[j] /\ Place(g, a) = i /\ Place(g, b) = j
      BY <1>3, <1>4
    <2>2. g[a] < g[b] \/ (g[a] = g[b] /\ a <= b)
      BY <1>3, <1>4, <2>1
    <2>3. g[a] \in Int /\ g[b] \in Int
      BY <1>3
    <2> QED
      <3>1. a # b /\ g[a] <= g[b]
        <4>1. PICK x \in Int, y \in Int : x = g[a] /\ y = g[b]
          BY <2>3
        <4>2. x < y \/ (x = y /\ a <= b)
          BY <2>2, <4>1
        <4>3. x <= y
          BY <4>2, SMTT(30)
        <4>4. Place(g, a) # Place(g, b)
          BY <1>4, <2>1
        <4> QED
          BY <4>1, <4>3, <4>4
      <3> QED
        BY <2>1, <3>1
  <1> QED
    BY <1>1, <1>2, <1>3, <1>4 DEF InTimeOrder

\* What a slice of sorted rows is.
IsSlice(g, rows, a, b, slice) ==
  /\ InTimeOrder(g, slice) /\ Len(slice) = b - a + 1
  /\ \A i \in 1..b - a + 1 : a + i - 1 \in 1..Len(rows) /\ slice[i] = rows[a + i - 1]
  /\ Range(slice) = {rows[k] : k \in a..b}

\* A slice of sorted rows is sorted, and no row of it is outside them.
LEMMA SlicesAreSorted ==
  ASSUME NEW g \in Seq(Int), NEW rows, InTimeOrder(g, rows),
         NEW a \in 1..Len(rows) + 1, NEW b \in a - 1..Len(rows),
         NEW slice, slice = SubSeq(rows, a, b)
  PROVE  IsSlice(g, rows, a, b, slice)
  <1>1. rows \in Seq(1..Len(g))
    BY DEF InTimeOrder
  <1>2. PICK n \in Nat, c \in Nat : n = Len(rows) /\ c = a - 1 /\ c \in 0..n /\ b \in c..n /\ c + 1 = a
    <2>1. Len(rows) \in Nat
      BY <1>1
    <2> QED
      BY <2>1
  <1>3. /\ slice \in Seq(1..Len(g)) /\ Len(slice) = b - c
        /\ \A i \in 1..b - c : c + i \in 1..n /\ slice[i] = rows[c + i]
    <2>1. c \in 0..Len(rows) /\ b \in c..Len(rows) /\ slice = SubSeq(rows, c + 1, b)
      BY <1>2
    <2>2. /\ SubSeq(rows, c + 1, b) \in Seq(1..Len(g)) /\ Len(SubSeq(rows, c + 1, b)) = b - c
          /\ \A i \in 1..b - c : c + i \in 1..Len(rows) /\ SubSeq(rows, c + 1, b)[i] = rows[c + i]
      BY <1>1, <2>1, Slices, ZenonT(60)
    <2> QED
      BY <1>2, <2>1, <2>2
  <1>4. \A i, j \in 1..b - c : i < j => slice[i] # slice[j] /\ g[slice[i]] <= g[slice[j]]
    <2> TAKE i, j \in 1..b - c
    <2> HAVE i < j
    <2>1. c + i < c + j /\ c + i \in 1..n /\ c + j \in 1..n
      BY <1>2, <1>3
    <2>2. rows[c + i] # rows[c + j] /\ g[rows[c + i]] <= g[rows[c + j]]
      BY <1>2, <2>1 DEF InTimeOrder
    <2> QED
      BY <1>3, <2>2
  <1>5. Range(slice) = {rows[k] : k \in a..b}
    <2>1. DOMAIN slice = 1..b - c
      BY <1>3
    <2>2. \A k \in a..b : k - c \in 1..b - c /\ c + (k - c) = k
      BY <1>2
    <2>3. \A i \in 1..b - c : c + i \in a..b
      BY <1>2
    <2>4. \A k \in a..b : rows[k] = slice[k - c]
      BY <1>3, <2>2
    <2>5. Range(slice) = {slice[i] : i \in 1..b - c}
      BY <2>1 DEF Range
    <2>6. ASSUME NEW i \in 1..b - c PROVE slice[i] \in {rows[k] : k \in a..b}
      BY <1>3, <2>3
    <2>7. ASSUME NEW k \in a..b PROVE rows[k] \in {slice[i] : i \in 1..b - c}
      BY <2>2, <2>4
    <2> QED
      BY <2>5, <2>6, <2>7
  <1>6. /\ b - c = b - a + 1
        /\ \A i \in 1..b - a + 1 : c + i = a + i - 1 /\ i \in 1..b - c
    BY <1>2
  <1>7. \A i \in 1..b - a + 1 : a + i - 1 \in 1..Len(rows) /\ slice[i] = rows[a + i - 1]
    BY <1>2, <1>3, <1>6
  <1>8. InTimeOrder(g, slice)
    BY <1>3, <1>4 DEF InTimeOrder
  <1> QED
    BY <1>3, <1>5, <1>6, <1>7, <1>8 DEF IsSlice

\* What an edge parts.
Parts(g, rows, k) ==
  /\ InTimeOrder(g, SubSeq(rows, 1, k)) /\ InTimeOrder(g, SubSeq(rows, k + 1, Len(rows)))
  /\ Len(SubSeq(rows, 1, k)) = k /\ Len(SubSeq(rows, k + 1, Len(rows))) = Len(rows) - k
  /\ Range(SubSeq(rows, 1, k)) \cup Range(SubSeq(rows, k + 1, Len(rows))) = Range(rows)
  /\ AllBefore(g, Range(SubSeq(rows, 1, k)), Range(SubSeq(rows, k + 1, Len(rows))))

\* Rows cut at an edge are two parts in time order, the first before the second.
LEMMA EdgesPart ==
  ASSUME NEW g \in Seq(Int), NEW rows, InTimeOrder(g, rows), NEW k, IsEdge(g, rows, k)
  PROVE  Parts(g, rows, k)
  <1>1. rows \in Seq(1..Len(g))
    BY DEF InTimeOrder
  <1>2. /\ Len(rows) \in Nat /\ k \in 0..Len(rows) /\ DOMAIN rows = 1..Len(rows)
        /\ k \in 1 - 1..Len(rows) /\ 1 \in 1..Len(rows) + 1
        /\ k + 1 \in 1..Len(rows) + 1 /\ Len(rows) \in (k + 1) - 1..Len(rows)
        /\ k - 1 + 1 = k /\ Len(rows) - (k + 1) + 1 = Len(rows) - k
    BY <1>1 DEF IsEdge
  <1>3. PICK p, f : p = SubSeq(rows, 1, k) /\ f = SubSeq(rows, k + 1, Len(rows))
    OBVIOUS
  <1>4. InTimeOrder(g, p) /\ Len(p) = k - 1 + 1 /\ Range(p) = {rows[i] : i \in 1..k}
    <2>1. IsSlice(g, rows, 1, k, p)
      BY <1>2, <1>3, SlicesAreSorted
    <2> QED
      BY <2>1 DEF IsSlice
  <1>5. /\ InTimeOrder(g, f) /\ Len(f) = Len(rows) - (k + 1) + 1
        /\ Range(f) = {rows[i] : i \in k + 1..Len(rows)}
    <2>1. IsSlice(g, rows, k + 1, Len(rows), f)
      BY <1>2, <1>3, SlicesAreSorted
    <2> QED
      BY <2>1 DEF IsSlice
  <1>6. Range(p) \cup Range(f) = Range(rows)
    <2>1. 1..Len(rows) = (1..k) \cup (k + 1..Len(rows))
      BY <1>2
    <2> QED
      BY <1>2, <1>4, <1>5, <2>1 DEF Range
  <1>7. AllBefore(g, Range(p), Range(f))
    BY <1>4, <1>5 DEF AllBefore, IsEdge
  <1> QED
    BY <1>2, <1>3, <1>4, <1>5, <1>6, <1>7 DEF Parts

\* The first k of the rows are those earlier than t.
AreEarlier(g, rows, t, k) ==
  IsEdge(g, rows, k) /\ \A i \in 1..Len(rows) : i <= k <=> g[rows[i]] < t

\* The rows earlier than an instant come first, and they are counted by a search.
LEMMA EarlierRowsFirst ==
  ASSUME NEW g \in Seq(Int), NEW rows, InTimeOrder(g, rows), NEW t \in Int,
         NEW k, k = Before(TimesOf(g, rows), t)
  PROVE  AreEarlier(g, rows, t, k)
  <1>1. PICK n \in Nat : n = Len(rows) /\ DOMAIN rows = 1..n
    BY DEF InTimeOrder
  <1>2. \A i \in 1..n : g[rows[i]] \in Int
    BY <1>1 DEF InTimeOrder
  <1>3. \A i, j \in 1..n : i < j => g[rows[i]] <= g[rows[j]]
    BY <1>1 DEF InTimeOrder
  <1>4. PICK S : S = {i \in 1..n : g[rows[i]] < t}
    OBVIOUS
  <1>5. k = Cardinality(S)
    <2>1. DOMAIN TimesOf(g, rows) = 1..n /\ \A i \in 1..n : TimesOf(g, rows)[i] = g[rows[i]]
      BY <1>1 DEF TimesOf
    <2>2. {i \in DOMAIN TimesOf(g, rows) : TimesOf(g, rows)[i] < t} = S
      BY <1>4, <2>1
    <2> QED
      BY <2>2 DEF Before
  <1>6. PICK T : T = {i \in 1..n + 1 : i = n + 1 \/ ~(g[rows[i]] < t)}
    OBVIOUS
  <1>7. PICK m \in T : \A i \in T : m <= i
    <2>1. T \in SUBSET Nat /\ n + 1 \in T
      BY <1>1, <1>6
    <2> QED
      BY <2>1, LeastNatural
  <1>8. m \in 1..n + 1
    BY <1>6, <1>7
  <1>9. \A i \in 1..n : i < m <=> g[rows[i]] < t
    <2>1. ASSUME NEW i \in 1..n, i < m PROVE g[rows[i]] < t
      <3>1. i \notin T /\ i \in 1..n + 1
        BY <1>1, <1>7, <1>8, <2>1
      <3> QED
        BY <1>6, <3>1
    <2>2. ASSUME NEW i \in 1..n, m <= i PROVE ~(g[rows[i]] < t)
      <3>1. m \in 1..n /\ m # n + 1
        BY <1>1, <1>8, <2>2
      <3>2. ~(g[rows[m]] < t)
        BY <1>6, <1>7, <3>1
      <3>3. g[rows[m]] <= g[rows[i]]
        <4>1. CASE m = i
          BY <1>2, <2>2, <4>1
        <4>2. CASE m < i
          BY <1>3, <2>2, <3>1, <4>2
        <4> QED
          BY <1>8, <2>2, <4>1, <4>2
      <3> QED
        BY <1>2, <2>2, <3>1, <3>2, <3>3
    <2> QED
      BY <1>1, <1>8, <2>1, <2>2
  <1>10. S = 1..m - 1
    BY <1>1, <1>4, <1>8, <1>9
  <1>11. k = m - 1 /\ k \in 0..n
    <2>1. PICK l \in Nat : l = m - 1 /\ l \in 0..n
      BY <1>1, <1>8
    <2>2. Cardinality(1..l) = l
      BY <2>1, FS_Interval
    <2> QED
      BY <1>5, <1>10, <2>1, <2>2
  <1>12. \A i \in 1..n : i <= k <=> g[rows[i]] < t
    BY <1>1, <1>8, <1>9, <1>11
  <1>13. ASSUME NEW a \in 1..k, NEW b \in k + 1..n PROVE g[rows[a]] < g[rows[b]]
    <2>1. a \in 1..n /\ b \in 1..n /\ a <= k /\ ~(b <= k)
      BY <1>1, <1>11, <1>13
    <2>2. g[rows[a]] < t /\ ~(g[rows[b]] < t)
      BY <1>12, <2>1
    <2> QED
      BY <1>2, <2>1, <2>2
  <1> QED
    BY <1>1, <1>11, <1>12, <1>13 DEF AreEarlier, IsEdge

\* Where the most recent rows start: the least edge behind which at most `cap` rows lie.
StartsAtEdge(g, rows, cap, s) ==
  /\ IsEdge(g, rows, s) /\ Len(rows) - s <= cap
  /\ \A k \in 0..Len(rows) : IsEdge(g, rows, k) /\ Len(rows) - k <= cap => s <= k

\* recent_rows finds the least edge behind which the cap is kept.
LEMMA RecentStartsAtEdge ==
  ASSUME NEW g \in Seq(Int), NEW rows, InTimeOrder(g, rows), NEW cap \in Nat \ {0}, Len(rows) > cap,
         NEW s, s = RecentStart(TimesOf(g, rows), cap)
  PROVE  StartsAtEdge(g, rows, cap, s)
  <1>1. PICK n \in Nat : n = Len(rows) /\ DOMAIN rows = 1..n
    BY DEF InTimeOrder
  <1>2. \A i \in 1..n : g[rows[i]] \in Int
    BY <1>1 DEF InTimeOrder
  <1>3. PICK times : times = TimesOf(g, rows)
    OBVIOUS
  <1>4. DOMAIN times = 1..n /\ Len(times) = n /\ \A i \in 1..n : times[i] = g[rows[i]]
    <2>1. times = [i \in 1..n |-> g[rows[i]]]
      BY <1>1, <1>3 DEF TimesOf
    <2> QED
      BY <1>1, <2>1
  <1>5. PICK e \in 1..n : e = n - cap + 1
    <2>1. n > cap
      BY <1>1
    <2>2. n - cap + 1 \in 1..n
      BY <2>1
    <2> QED
      BY <2>2
  <1>6. PICK t \in Int : t = g[rows[e]]
    BY <1>2
  <1>7. PICK left, right : left = Before(times, t) /\ right = Before(times, t + 1)
    OBVIOUS
  <1>8. s = IF n - left <= cap THEN left ELSE right
    <2>1. times[Len(times) - cap + 1] = t
      BY <1>4, <1>5, <1>6
    <2>2. {i \in DOMAIN times : times[i] <= t} = {i \in DOMAIN times : times[i] < t + 1}
      <3>1. \A x \in Int : x <= t <=> x < t + 1
        BY <1>6
      <3>2. \A i \in DOMAIN times : times[i] \in Int
        BY <1>2, <1>4
      <3> HIDE <1>6
      <3> QED
        BY <3>1, <3>2
    <2> QED
      BY <1>3, <1>4, <1>7, <2>1, <2>2 DEF RecentStart, Before
  <1>9. /\ AreEarlier(g, rows, t, left)
        /\ AreEarlier(g, rows, t + 1, right)
    <2>1. t + 1 \in Int
      BY <1>6
    <2> QED
      BY <1>3, <1>6, <1>7, <2>1, EarlierRowsFirst
  <1>10. /\ left \in 0..n /\ \A i \in 1..n : i <= left <=> g[rows[i]] < t
         /\ right \in 0..n /\ \A i \in 1..n : i <= right <=> g[rows[i]] < t + 1
    BY <1>1, <1>9 DEF AreEarlier, IsEdge
  <1>11. ~(e <= left) /\ e <= right
    BY <1>5, <1>6, <1>10
  <1>12. IsEdge(g, rows, s) /\ n - s <= cap
    BY <1>1, <1>5, <1>8, <1>9, <1>10, <1>11 DEF AreEarlier
  <1>13. ASSUME NEW k \in 0..n, IsEdge(g, rows, k), n - k <= cap PROVE s <= k
    <2>1. CASE n - left <= cap
      BY <1>1, <1>5, <1>8, <1>10, <1>11, <1>13, <2>1
    <2>2. CASE ~(n - left <= cap)
      <3>1. SUFFICES ASSUME k < right PROVE FALSE
        BY <1>8, <1>10, <1>13, <2>2
      <3>2. k \in 1..n /\ k + 1 \in 1..n /\ ~(k <= left) /\ ~(k + 1 <= left) /\ k + 1 <= right
        BY <1>1, <1>5, <1>10, <1>13, <2>2, <3>1
      <3>3. ~(g[rows[k]] < t) /\ g[rows[k + 1]] < t + 1
        BY <1>10, <3>2
      <3>5. PICK a, b : a = g[rows[k]] /\ b = g[rows[k + 1]]
        OBVIOUS
      <3>6. a \in Int /\ b \in Int
        BY <1>2, <3>2, <3>5
      <3>4. a < b
        <4>1. k \in 1..k /\ k + 1 \in k + 1..Len(rows)
          BY <1>1, <3>2
        <4> QED
          BY <1>13, <3>5, <4>1 DEF IsEdge
      <3>7. ~(a < t) /\ b < t + 1
        BY <3>3, <3>5
      <3> QED
        BY <3>4, <3>6, <3>7
    <2> QED
      BY <2>1, <2>2
  <1> QED
    BY <1>1, <1>12, <1>13 DEF StartsAtEdge

EarlierRows(g, t) == {r \in DOMAIN g : g[r] < t}
LaterRows(g, t)   == DOMAIN g \ EarlierRows(g, t)

\* A sequence that lists no row twice has as many members as elements.
LEMMA RowsAreCounted ==
  ASSUME NEW g \in Seq(Int), NEW rows, InTimeOrder(g, rows)
  PROVE  IsFiniteSet(Range(rows)) /\ Cardinality(Range(rows)) = Len(rows) /\ Range(rows) \subseteq 1..Len(g)
  <1>1. PICK n \in Nat : n = Len(rows) /\ DOMAIN rows = 1..n /\ rows \in [1..n -> 1..Len(g)]
    BY DEF InTimeOrder
  <1>2. \A i, j \in 1..n : i # j => rows[i] # rows[j]
    <2>1. \A i, j \in 1..n : i < j => rows[i] # rows[j]
      BY <1>1 DEF InTimeOrder
    <2>2. \A i, j \in 1..n : i # j => i < j \/ j < i
      BY <1>1
    <2> QED
      BY <2>1, <2>2
  <1>3. rows \in Bijection(1..n, Range(rows))
    <2>1. rows \in [1..n -> Range(rows)]
      BY <1>1 DEF Range
    <2>2. rows \in Injection(1..n, Range(rows))
      BY <1>1, <1>2, <2>1 DEF Injection, IsInjective
    <2>3. rows \in Surjection(1..n, Range(rows))
      BY <1>1, <2>1 DEF Surjection, Range
    <2> QED
      BY <2>2, <2>3 DEF Bijection
  <1>4. IsFiniteSet(1..n) /\ Cardinality(1..n) = n
    <2>1. n \in Int /\ 1 \in Int /\ (1 > n => n = 0) /\ n - 1 + 1 = n
      BY <1>1
    <2> QED
      BY <2>1, FS_Interval
  <1>5. Range(rows) \subseteq 1..Len(g)
    BY <1>1 DEF Range
  <1> QED
    <2>1. ExistsBijection(1..n, Range(rows))
      BY <1>3 DEF ExistsBijection
    <2>2. IsFiniteSet(Range(rows)) /\ Cardinality(Range(rows)) = Cardinality(1..n)
      BY <1>4, <2>1, FS_Bijection
    <2> QED
      BY <1>1, <1>4, <1>5, <2>2

\* What a cut at an instant leaves on either side.
IsCutAt(g, t, k) ==
  /\ IsEdge(g, Order(g), k) /\ k \in 0..Len(g)
  /\ Range(Past(g, k)) = EarlierRows(g, t) /\ Range(Future(g, k)) = LaterRows(g, t)
  /\ Len(Past(g, k)) = k /\ Len(Future(g, k)) = Len(g) - k
  /\ Cardinality(EarlierRows(g, t)) = k /\ Cardinality(LaterRows(g, t)) = Len(g) - k

\* A cut behind the rows that are earlier than an instant.
LEMMA CutsAtInstants ==
  ASSUME NEW g \in Seq(Int), NEW t \in Int, NEW k, AreEarlier(g, Order(g), t, k)
  PROVE  IsCutAt(g, t, k)
  <1>1. PICK o : o = Order(g)
    OBVIOUS
  <1>2. PICK n \in Nat : n = Len(g) /\ DOMAIN g = 1..n
    OBVIOUS
  <1>3. /\ InTimeOrder(g, o) /\ Len(o) = n /\ DOMAIN o = 1..n
        /\ \A i \in 1..n : o[i] \in 1..n
        /\ \A r \in 1..n : Place(g, r) \in 1..n /\ o[Place(g, r)] = r
        /\ \A r \in 1..n : g[r] \in Int
    BY <1>1, <1>2, OrderIsSorted, OrderSorts
  <1>4. k \in 0..n /\ IsEdge(g, o, k) /\ \A i \in 1..n : i <= k <=> g[o[i]] < t
    BY <1>1, <1>3 DEF AreEarlier, IsEdge
  <1>5. Parts(g, o, k)
    BY <1>3, <1>4, EdgesPart
  <1>6. PICK p, f : p = Past(g, k) /\ f = Future(g, k)
    OBVIOUS
  <1>7. /\ InTimeOrder(g, p) /\ InTimeOrder(g, f) /\ Len(p) = k /\ Len(f) = n - k
        /\ Range(p) \cup Range(f) = Range(o) /\ AllBefore(g, Range(p), Range(f))
    BY <1>1, <1>2, <1>3, <1>5, <1>6 DEF Parts, Past, Future
  <1>8. Range(o) = 1..n
    BY <1>3 DEF Range
  <1>9. Range(p) \subseteq EarlierRows(g, t)
    <2>1. 1 \in 1..Len(o) + 1 /\ k \in 1 - 1..Len(o) /\ InTimeOrder(g, o) /\ p = SubSeq(o, 1, k)
      BY <1>1, <1>3, <1>4, <1>6 DEF Past
    <2>2. IsSlice(g, o, 1, k, p)
      BY <2>1, SlicesAreSorted
    <2>3. Range(p) = {o[i] : i \in 1..k}
      BY <2>2 DEF IsSlice
    <2>4. \A i \in 1..k : i \in 1..n /\ i <= k
      BY <1>4
    <2> QED
      BY <1>2, <1>3, <1>4, <2>3, <2>4 DEF EarlierRows
  <1>10. Range(f) \cap EarlierRows(g, t) = {}
    <2>1. /\ k + 1 \in 1..Len(o) + 1 /\ Len(o) \in (k + 1) - 1..Len(o) /\ InTimeOrder(g, o)
          /\ f = SubSeq(o, k + 1, Len(o))
      BY <1>1, <1>2, <1>3, <1>4, <1>6 DEF Future
    <2>2. IsSlice(g, o, k + 1, Len(o), f)
      BY <2>1, SlicesAreSorted
    <2>3. Range(f) = {o[i] : i \in k + 1..Len(o)}
      BY <2>2 DEF IsSlice
    <2>4. \A i \in k + 1..Len(o) : i \in 1..n /\ ~(i <= k)
      BY <1>3, <1>4
    <2> QED
      BY <1>3, <1>4, <2>3, <2>4 DEF EarlierRows
  <1>11. Range(p) = EarlierRows(g, t) /\ Range(f) = LaterRows(g, t)
    BY <1>2, <1>7, <1>8, <1>9, <1>10 DEF EarlierRows, LaterRows
  <1>12. Cardinality(Range(p)) = k /\ Cardinality(Range(f)) = n - k
    BY <1>7, RowsAreCounted
  <1> QED
    BY <1>1, <1>2, <1>4, <1>6, <1>7, <1>11, <1>12 DEF IsCutAt

\* A cut between two times is a cut at the later one.
LEMMA EdgesAreInstants ==
  ASSUME NEW g \in Seq(Int), NEW k \in 0..Len(g), k < Len(g), IsEdge(g, Order(g), k)
  PROVE  IsCutAt(g, g[Order(g)[k + 1]], k)
  <1>1. PICK o : o = Order(g)
    OBVIOUS
  <1>2. PICK n \in Nat : n = Len(g) /\ k \in 0..n /\ k < n
    OBVIOUS
  <1>3. /\ InTimeOrder(g, o) /\ Len(o) = n
        /\ \A i \in 1..n : o[i] \in 1..n
        /\ \A r \in 1..n : g[r] \in Int
    BY <1>1, <1>2, OrderIsSorted, OrderSorts
  <1>4. k + 1 \in 1..n
    BY <1>2
  <1>5. PICK t \in Int : t = g[o[k + 1]]
    BY <1>3, <1>4
  <1>6. ASSUME NEW i \in 1..n, i <= k PROVE g[o[i]] < t
    <2>1. i \in 1..k /\ k + 1 \in k + 1..n
      BY <1>2, <1>6
    <2> QED
      BY <1>1, <1>3, <1>5, <2>1 DEF IsEdge
  <1>7. ASSUME NEW i \in 1..n, ~(i <= k) PROVE ~(g[o[i]] < t)
    <2>1. k + 1 < i \/ k + 1 = i
      BY <1>2, <1>7
    <2>2. t <= g[o[i]]
      <3>1. CASE k + 1 < i
        BY <1>3, <1>4, <1>5, <3>1 DEF InTimeOrder
      <3>2. CASE k + 1 = i
        BY <1>5, <3>2
      <3> QED
        BY <2>1, <3>1, <3>2
    <2>3. PICK u \in Int : u = g[o[i]]
      BY <1>3
    <2> QED
      BY <1>5, <2>2, <2>3
  <1>8. AreEarlier(g, o, t, k)
    BY <1>1, <1>3, <1>6, <1>7 DEF AreEarlier
  <1> QED
    BY <1>1, <1>5, <1>8, CutsAtInstants

-----------------------------------------------------------------------------
(* One cut between past and future.                                        *)

Times(g) == {g[r] : r \in DOMAIN g}
Classes(y, rows) == {y[r] : r \in rows}

\* An instant at which the floors of the call let the table be cut.
MaySplit(g, y, p, t) ==
  /\ Cardinality(EarlierRows(g, t)) >= p.minTrain
  /\ Cardinality(LaterRows(g, t)) >= p.minValid
  /\ p.coverage => /\ Classes(y, EarlierRows(g, t)) = Classes(y, DOMAIN g)
                   /\ Classes(y, LaterRows(g, t)) = Classes(y, DOMAIN g)
  /\ \A label \in DOMAIN p.floors :
        Cardinality({r \in LaterRows(g, t) : y[r] = label}) >= p.floors[label]

\* A cut that split admits.
MayCut(g, y, p, k) ==
  /\ k >= p.minTrain /\ k <= Len(g) - p.minValid
  /\ p.coverage => /\ Values(y, Past(g, k)) = Range(y)
                   /\ Values(y, Future(g, k)) = Range(y)
  /\ \A label \in DOMAIN p.floors :
        Cardinality({r \in Range(Future(g, k)) : y[r] = label}) >= p.floors[label]

\* A change of time is a cut at the instant after it.
LEMMA ChangesAreInstants ==
  ASSUME NEW g \in Seq(Int), NEW k \in Changes(g)
  PROVE  /\ k \in 1..Len(g) - 1
         /\ g[Order(g)[k + 1]] \in Times(g)
         /\ IsCutAt(g, g[Order(g)[k + 1]], k)
  <1>1. PICK n \in Nat : n = Len(g) /\ DOMAIN g = 1..n
    OBVIOUS
  <1>2. k \in 1..n - 1 /\ \A a \in 1..k, b \in k + 1..n : g[Order(g)[a]] < g[Order(g)[b]]
    BY <1>1, CutsAreStrict
  <1>3. Len(Order(g)) = n /\ \A i \in 1..n : Order(g)[i] \in 1..n
    BY <1>1, OrderIsSorted
  <1>4. k \in 0..Len(g) /\ k < Len(g) /\ k + 1 \in 1..n
    BY <1>1, <1>2
  <1>5. IsEdge(g, Order(g), k)
    BY <1>1, <1>2, <1>3, <1>4 DEF IsEdge
  <1> QED
    BY <1>1, <1>2, <1>3, <1>4, <1>5, EdgesAreInstants DEF Times

\* An instant with rows before it is a change of time.
LEMMA InstantsAreChanges ==
  ASSUME NEW g \in Seq(Int), NEW t \in Times(g), EarlierRows(g, t) # {}
  PROVE  \E k \in Changes(g) : IsCutAt(g, t, k)
  <1>1. PICK n \in Nat : n = Len(g) /\ DOMAIN g = 1..n
    OBVIOUS
  <1>2. PICK o : o = Order(g)
    OBVIOUS
  <1>3. /\ InTimeOrder(g, o) /\ Len(o) = n
        /\ \A i \in 1..n : o[i] \in 1..n /\ g[o[i]] \in Int
        /\ \A r \in 1..n : Place(g, r) \in 1..n /\ o[Place(g, r)] = r
        /\ \A r \in 1..n : g[r] \in Int
    BY <1>1, <1>2, OrderIsSorted, OrderSorts
  <1>4. t \in Int
    BY <1>1, <1>3 DEF Times
  <1>5. PICK k : k = Before(TimesOf(g, o), t)
    OBVIOUS
  <1>6. AreEarlier(g, o, t, k)
    BY <1>3, <1>4, <1>5, EarlierRowsFirst
  <1>7. k \in 0..n /\ \A i \in 1..n : i <= k <=> g[o[i]] < t
    BY <1>3, <1>6 DEF AreEarlier, IsEdge
  <1>8. k >= 1
    <2>1. PICK r \in 1..n : g[r] < t
      BY <1>1 DEF EarlierRows
    <2>2. PICK i \in 1..n : o[i] = r
      BY <1>3
    <2>3. i <= k
      BY <1>7, <2>1, <2>2
    <2> QED
      BY <1>7, <2>3
  <1>9. k < n
    <2>1. PICK r \in 1..n : g[r] = t
      BY <1>1 DEF Times
    <2>2. PICK i \in 1..n : o[i] = r
      BY <1>3
    <2>3. ~(g[o[i]] < t)
      BY <1>4, <2>1, <2>2
    <2>4. ~(i <= k)
      BY <1>7, <2>3
    <2> QED
      BY <1>7, <2>4
  <1>10. k \in 1..n - 1 /\ k \in 1..n /\ k + 1 \in 1..n
    BY <1>7, <1>8, <1>9
  <1>11. g[o[k]] # g[o[k + 1]]
    <2>1. k <= k /\ ~(k + 1 <= k)
      BY <1>10
    <2>2. g[o[k]] < t /\ ~(g[o[k + 1]] < t)
      BY <1>7, <1>10, <2>1
    <2> QED
      BY <2>2
  <1>12. k \in Changes(g)
    BY <1>1, <1>2, <1>10, <1>11 DEF Changes
  <1> QED
    BY <1>2, <1>4, <1>6, <1>12, CutsAtInstants

\* A cut is admitted when its instant is.
LEMMA CutsAreAdmitted ==
  ASSUME NEW g \in Seq(Int), NEW y, DOMAIN y = DOMAIN g, NEW p,
         p.minTrain \in Nat, p.minValid \in Nat, NEW t, NEW k, IsCutAt(g, t, k)
  PROVE  MayCut(g, y, p, k) <=> MaySplit(g, y, p, t)
  <1>1. /\ k \in 0..Len(g) /\ Len(g) \in Nat
        /\ Range(Past(g, k)) = EarlierRows(g, t) /\ Range(Future(g, k)) = LaterRows(g, t)
        /\ Cardinality(EarlierRows(g, t)) = k /\ Cardinality(LaterRows(g, t)) = Len(g) - k
    BY DEF IsCutAt
  <1>2. /\ Values(y, Past(g, k)) = Classes(y, EarlierRows(g, t))
        /\ Values(y, Future(g, k)) = Classes(y, LaterRows(g, t))
        /\ Range(y) = Classes(y, DOMAIN g)
    BY <1>1 DEF Values, Classes, Range
  <1>3. k <= Len(g) - p.minValid <=> Len(g) - k >= p.minValid
    BY <1>1
  <1> QED
    BY <1>1, <1>2, <1>3 DEF MayCut, MaySplit

\* What split answers: the instant nearest to the share, or nothing when none will do.
Target(g, p) == Rounded((p.den - p.num) * Len(g), p.den)
Off(g, p, t) == Distance(Cardinality(EarlierRows(g, t)), Target(g, p))
Splittable(g, y, p) == {t \in Times(g) : MaySplit(g, y, p, t)}
SplitAtNearest(g, y, p, s) ==
  IF Splittable(g, y, p) = {} THEN s = NoSplit
  ELSE \E t \in Splittable(g, y, p) :
          /\ Range(s.past) = EarlierRows(g, t) /\ Range(s.future) = LaterRows(g, t)
          /\ \A u \in Splittable(g, y, p) : Off(g, p, t) <= Off(g, p, u)

\* The cut is at the admissible instant that is nearest to the share asked for.
LEMMA SplitsAtNearest ==
  ASSUME NEW g \in Seq(Int), NEW y, DOMAIN y = DOMAIN g, NEW p,
         p.minTrain \in Nat \ {0}, p.minValid \in Nat, p.num \in Nat, p.den \in Nat \ {0}
  PROVE  SplitAtNearest(g, y, p, Split(g, y, p))
  <1>1. PICK cuts : cuts = {k \in Changes(g) : MayCut(g, y, p, k)}
    OBVIOUS
  <1>2. PICK target : target = Target(g, p)
    OBVIOUS
  <1>3. Split(g, y, p) = IF cuts = {} THEN NoSplit
                         ELSE [past |-> Past(g, Nearest(cuts, target)), future |-> Future(g, Nearest(cuts, target))]
    <2>1. cuts = {k \in Changes(g) :
                    /\ (k >= p.minTrain /\ k <= Len(g) - p.minValid)
                    /\ (p.coverage => /\ Values(y, Past(g, k)) = Range(y)
                                      /\ Values(y, Future(g, k)) = Range(y))
                    /\ (\A label \in DOMAIN p.floors :
                          Cardinality({r \in Range(Future(g, k)) : y[r] = label}) >= p.floors[label])}
      BY <1>1 DEF MayCut
    <2> QED
      BY <1>2, <2>1 DEF Split, Target
  <1>4. target \in Int
    <2>1. (p.den - p.num) * Len(g) \in Int
      OBVIOUS
    <2> QED
      BY <1>2, <2>1, RoundedIsNumber DEF Target
  <1>5. cuts \in SUBSET Nat
    <2>1. \A k \in Changes(g) : k \in 1..Len(g) - 1
      BY ChangesAreInstants
    <2> QED
      BY <1>1, <2>1
  <1>6. ASSUME NEW u \in Splittable(g, y, p)
        PROVE  \E k \in cuts : IsCutAt(g, u, k)
    <2>1. u \in Times(g) /\ MaySplit(g, y, p, u)
      BY DEF Splittable
    <2>2. EarlierRows(g, u) # {}
      <3>1. Cardinality({}) = 0
        BY FS_EmptySet
      <3>2. Cardinality(EarlierRows(g, u)) >= p.minTrain
        BY <2>1 DEF MaySplit
      <3>3. ~(0 >= p.minTrain)
        OBVIOUS
      <3> QED
        BY <3>1, <3>2, <3>3
    <2>3. PICK k \in Changes(g) : IsCutAt(g, u, k)
      BY <2>1, <2>2, InstantsAreChanges
    <2>4. MayCut(g, y, p, k)
      BY <2>1, <2>3, CutsAreAdmitted
    <2> QED
      BY <1>1, <2>3, <2>4
  <1>7. ASSUME NEW k \in cuts
        PROVE  \E t \in Splittable(g, y, p) : IsCutAt(g, t, k)
    <2>1. k \in Changes(g) /\ MayCut(g, y, p, k)
      BY <1>1
    <2>2. PICK t : t = g[Order(g)[k + 1]]
      OBVIOUS
    <2>3. t \in Times(g) /\ IsCutAt(g, t, k)
      BY <2>1, <2>2, ChangesAreInstants
    <2>4. MaySplit(g, y, p, t)
      BY <2>1, <2>3, CutsAreAdmitted
    <2> QED
      BY <2>3, <2>4 DEF Splittable
  <1>8. CASE cuts = {}
    <2>1. Splittable(g, y, p) = {}
      BY <1>6, <1>8
    <2> QED
      BY <1>3, <1>8, <2>1 DEF SplitAtNearest
  <1>9. CASE cuts # {}
    <2>1. PICK k : k = Nearest(cuts, target)
      OBVIOUS
    <2>2. k \in cuts /\ \A d \in cuts : Distance(k, target) <= Distance(d, target)
      BY <1>4, <1>5, <1>9, <2>1, NearestIsClosest
    <2>3. PICK t \in Splittable(g, y, p) : IsCutAt(g, t, k)
      BY <1>7, <2>2
    <2>4. PICK s : s = Split(g, y, p)
      OBVIOUS
    <2>5. s.past = Past(g, k) /\ s.future = Future(g, k)
      BY <1>3, <1>9, <2>1, <2>4
    <2>6. Range(s.past) = EarlierRows(g, t) /\ Range(s.future) = LaterRows(g, t)
      BY <2>3, <2>5 DEF IsCutAt
    <2>7. ASSUME NEW u \in Splittable(g, y, p) PROVE Off(g, p, t) <= Off(g, p, u)
      <3>1. PICK d \in cuts : IsCutAt(g, u, d)
        BY <1>6
      <3>2. Off(g, p, t) = Distance(k, target) /\ Off(g, p, u) = Distance(d, target)
        BY <1>2, <2>3, <3>1 DEF Off, IsCutAt
      <3> QED
        BY <2>2, <3>2
    <2>8. Splittable(g, y, p) # {}
      BY <2>3
    <2> QED
      BY <2>4, <2>6, <2>7, <2>8 DEF SplitAtNearest
  <1> QED
    BY <1>8, <1>9

-----------------------------------------------------------------------------
(* Blocks that expand into the future.                                     *)

\* What never falls from one element to the next never falls.
LEMMA NeverFalls ==
  ASSUME NEW n \in Nat, NEW c \in [1..n -> Nat], \A i \in 1..n - 1 : c[i] <= c[i + 1],
         NEW i \in 1..n, NEW j \in i..n
  PROVE  c[i] <= c[j]
  <1>1. PICK S : S = {k \in i..n : ~(c[i] <= c[k])}
    OBVIOUS
  <1>2. SUFFICES ASSUME S # {} PROVE FALSE
    BY <1>1
  <1>3. PICK m \in S : \A k \in S : m <= k
    <2>1. S \in SUBSET Nat
      BY <1>1
    <2> QED
      BY <1>2, <2>1, LeastNatural
  <1>4. m \in i..n /\ ~(c[i] <= c[m])
    BY <1>1, <1>3
  <1>5. m # i
    BY <1>4
  <1>6. m - 1 \in i..n /\ m - 1 \in 1..n - 1 /\ (m - 1) + 1 = m /\ ~(m <= m - 1)
    BY <1>4, <1>5
  <1>7. c[i] <= c[m - 1]
    BY <1>1, <1>3, <1>6
  <1>8. c[m - 1] <= c[m]
    BY <1>6
  <1> QED
    BY <1>4, <1>6, <1>7, <1>8

\* What the blocks of expanding_splits are to one another.
AreHeldOut(g, y, p, folds) ==
  \A i \in DOMAIN folds :
     /\ AllBefore(g, Range(folds[i].past), Range(folds[i].future))
     /\ Len(folds[i].past) >= p.minTrain /\ Len(folds[i].future) >= p.minValid
     /\ p.coverage => Classes(y, Range(folds[i].past)) = Classes(y, DOMAIN g)
     /\ Range(folds[i].past) \cup Range(folds[i].future) =
          IF i = Len(folds) THEN DOMAIN g ELSE Range(folds[i + 1].past)

\* The first rows of a sequence, and those of a slice of it.
RowsTo(o, c)      == {o[k] : k \in 1..c}
RowsFrom(o, c, d) == {o[k] : k \in c + 1..d}

\* The first rows and those that follow them.
LEMMA RowsJoin ==
  ASSUME NEW o, NEW c \in Nat, NEW d \in Nat, c <= d
  PROVE  /\ RowsTo(o, c) \cup RowsFrom(o, c, d) = RowsTo(o, d)
         /\ RowsTo(o, c) \subseteq RowsTo(o, d)
  <1>1. PICK I, J, K : I = 1..c /\ J = c + 1..d /\ K = 1..d
    OBVIOUS
  <1>2. K = I \cup J
    BY <1>1
  <1>3. {o[k] : k \in K} = {o[k] : k \in I} \cup {o[k] : k \in J}
    BY <1>2
  <1> QED
    BY <1>1, <1>3 DEF RowsTo, RowsFrom

\* Each block is later than its past, and the next past is both of them.
LEMMA BlocksExpand ==
  ASSUME NEW g \in Seq(Int), NEW y, NEW p, p.coverage => DOMAIN y = DOMAIN g,
         p.folds \in Nat, p.minValid \in Nat, p.minTrain \in Nat,
         p.warmNum \in Int, p.warmDen \in Nat \ {0},
         NEW splits, splits = ExpandingSplits(g, y, p), splits # <<>>
  PROVE  AreHeldOut(g, y, p, splits)
  <1>1. PICK folds \in Nat \ {0} : \E cuts : IsCutInto(g, y, p, splits, folds, cuts)
    BY ExpandingIsCut
  <1>2. PICK cuts : IsCutInto(g, y, p, splits, folds, cuts)
    BY <1>1
  <1>3. /\ AreBlockCuts(g, cuts, folds, p) /\ Len(splits) = folds /\ DOMAIN splits = 1..folds
        /\ p.coverage => Values(y, Past(g, cuts[1])) = Range(y)
        /\ \A i \in 1..folds : /\ splits[i].past = Past(g, cuts[i])
                               /\ splits[i].future = SubSeq(Order(g), cuts[i] + 1, cuts[i + 1])
    BY <1>2 DEF IsCutInto
  <1>4. /\ cuts \in [1..folds + 1 -> Nat] /\ cuts[folds + 1] = Len(g)
        /\ \A i \in 1..folds : cuts[i] + p.minValid <= cuts[i + 1] /\ p.minTrain <= cuts[i]
    BY <1>3 DEF AreBlockCuts
  <1>5. PICK o : o = Order(g)
    OBVIOUS
  <1>6. PICK n \in Nat : n = Len(g) /\ DOMAIN g = 1..n
    OBVIOUS
  <1>7. {o[k] : k \in 1..n} = 1..n
    <2>1. /\ \A k \in 1..n : o[k] \in 1..n
          /\ \A r \in 1..n : Place(g, r) \in 1..n /\ o[Place(g, r)] = r
      BY <1>5, <1>6, OrderIsSorted
    <2> QED
      BY <2>1
  <1>8. ASSUME NEW i \in 1..folds
        PROVE  AreBeforeAndAfter(g, cuts, i, Range(splits[i].past), Range(splits[i].future))
    <2>1. /\ Range(splits[i].past) = Range(Past(g, cuts[i]))
          /\ Range(splits[i].future) = Range(SubSeq(Order(g), cuts[i] + 1, cuts[i + 1]))
      BY <1>3
    <2> QED
      BY <1>1, <1>3, <2>1, BlocksAreLater
  <1>9. ASSUME NEW i \in 1..folds
        PROVE  /\ AllBefore(g, Range(splits[i].past), Range(splits[i].future))
               /\ Range(splits[i].past) = RowsTo(o, cuts[i])
               /\ Range(splits[i].future) = RowsFrom(o, cuts[i], cuts[i + 1])
               /\ Len(splits[i].past) = cuts[i]
               /\ Len(splits[i].future) = cuts[i + 1] - cuts[i]
               /\ cuts[i] \in Nat /\ cuts[i + 1] \in cuts[i]..n
    <2>1. AreBeforeAndAfter(g, cuts, i, Range(splits[i].past), Range(splits[i].future))
      BY <1>8
    <2>2. /\ AllBefore(g, Range(splits[i].past), Range(splits[i].future))
          /\ Range(splits[i].past) = RowsTo(o, cuts[i])
          /\ Range(splits[i].future) = RowsFrom(o, cuts[i], cuts[i + 1])
      BY <1>5, <2>1 DEF AreBeforeAndAfter, AllBefore, RowsTo, RowsFrom
    <2>3. /\ Len(Past(g, cuts[i])) = cuts[i]
          /\ Len(SubSeq(Order(g), cuts[i] + 1, cuts[i + 1])) = cuts[i + 1] - cuts[i]
          /\ cuts[i] \in Nat /\ cuts[i + 1] \in cuts[i]..Len(g)
      BY <2>1 DEF AreBeforeAndAfter
    <2> QED
      BY <1>3, <1>6, <2>2, <2>3
  <1>10. ASSUME NEW i \in 1..folds
         PROVE  Range(splits[i].past) \cup Range(splits[i].future) = RowsTo(o, cuts[i + 1])
    <2>1. cuts[i] \in Nat /\ cuts[i + 1] \in Nat /\ cuts[i] <= cuts[i + 1]
      BY <1>6, <1>9
    <2> QED
      BY <1>9, <2>1, RowsJoin
  <1>11. ASSUME NEW i \in 1..folds, p.coverage
         PROVE  Classes(y, Range(splits[i].past)) = Classes(y, DOMAIN g)
    <2>1. cuts[1] <= cuts[i]
      <3>1. \A j \in 1..folds : cuts[j] <= cuts[j + 1]
        BY <1>6, <1>9
      <3>2. PICK m \in Nat : m = folds + 1 /\ m - 1 = folds /\ 1 \in 1..m /\ i \in 1..m
        BY <1>1
      <3>3. cuts \in [1..m -> Nat] /\ \A j \in 1..m - 1 : cuts[j] <= cuts[j + 1]
        BY <1>4, <3>1, <3>2
      <3> QED
        BY <3>2, <3>3, NeverFalls
    <2>2. Range(splits[1].past) \subseteq Range(splits[i].past)
      <3>1. 1 \in 1..folds
        BY <1>1
      <3>2. RowsTo(o, cuts[1]) \subseteq RowsTo(o, cuts[i])
        <4>1. cuts[1] \in Nat /\ cuts[i] \in Nat
          BY <1>9, <3>1
        <4> QED
          BY <2>1, <4>1, RowsJoin
      <3> QED
        BY <1>9, <3>1, <3>2
    <2>3. Classes(y, Range(splits[1].past)) = Classes(y, DOMAIN g)
      <3>1. 1 \in 1..folds
        BY <1>1
      <3>2. splits[1].past = Past(g, cuts[1])
        BY <1>3, <3>1
      <3>3. Values(y, Past(g, cuts[1])) = Range(y)
        BY <1>3, <1>11
      <3>4. Values(y, Past(g, cuts[1])) = Classes(y, Range(splits[1].past))
        BY <3>2 DEF Values, Classes
      <3>5. Range(y) = Classes(y, DOMAIN g)
        BY <1>11 DEF Classes, Range
      <3> QED
        BY <3>3, <3>4, <3>5
    <2>4. Range(splits[i].past) \subseteq DOMAIN g
      BY <1>6, <1>8 DEF AreBeforeAndAfter
    <2> QED
      BY <2>2, <2>3, <2>4 DEF Classes
  <1>12. ASSUME NEW i \in 1..folds
         PROVE  Range(splits[i].past) \cup Range(splits[i].future) =
                  IF i = Len(splits) THEN DOMAIN g ELSE Range(splits[i + 1].past)
    <2>1. CASE i = folds
      <3>1. RowsTo(o, n) = 1..n
        BY <1>7 DEF RowsTo
      <3>2. cuts[i + 1] = n
        BY <1>4, <1>6, <2>1
      <3> QED
        BY <1>3, <1>6, <1>10, <2>1, <3>1, <3>2
    <2>2. CASE i # folds
      <3>1. i + 1 \in 1..folds
        BY <1>1, <2>2
      <3> QED
        BY <1>3, <1>9, <1>10, <2>2, <3>1
    <2> QED
      BY <2>1, <2>2
  <1>13. ASSUME NEW i \in 1..folds
         PROVE  Len(splits[i].past) >= p.minTrain /\ Len(splits[i].future) >= p.minValid
    <2>1. PICK a, b, v : a = cuts[i] /\ b = cuts[i + 1] /\ v = p.minValid
      OBVIOUS
    <2>2. a \in Nat /\ b \in Nat /\ v \in Nat /\ a + v <= b /\ p.minTrain <= a
      BY <1>4, <1>9, <2>1
    <2>3. Len(splits[i].past) = a /\ Len(splits[i].future) = b - a
      BY <1>9, <2>1
    <2>4. a >= p.minTrain /\ b - a >= v
      BY <2>2
    <2> QED
      BY <2>1, <2>3, <2>4
  <1> QED
    BY <1>3, <1>9, <1>11, <1>12, <1>13 DEF AreHeldOut

-----------------------------------------------------------------------------
(* Windows.                                                                *)

\* A finite set of numbers, listed upwards.
IsListed(S, a) ==
  /\ a \in Seq(S) /\ Len(a) = Cardinality(S) /\ Range(a) = S
  /\ \A i, j \in 1..Len(a) : i < j => a[i] < a[j]

\* Ascending lists a set of numbers upwards.
LEMMA AscendingLists ==
  ASSUME NEW S \in SUBSET Int, IsFiniteSet(S)
  PROVE  IsListed(S, Ascending(S))
  <1>1. PICK R : R = {e \in S \X S : e[1] <= e[2]}
    OBVIOUS
  <1>2. \A a, b \in S : <<a, b>> \in R <=> a <= b
    BY <1>1
  <1>3. PICK n \in Nat : n = Cardinality(S)
    BY FS_CardinalityType
  <1>4. /\ \A a \in S : Cardinality(Below(S, R, a)) \in 1..n
        /\ \A a, b \in S :
              <<a, b>> \in R <=> Cardinality(Below(S, R, a)) <= Cardinality(Below(S, R, b))
        /\ \A k \in 1..n : \E a \in S : Cardinality(Below(S, R, a)) = k
    <2>1. /\ \A a \in S : <<a, a>> \in R
          /\ \A a, b \in S : <<a, b>> \in R /\ <<b, a>> \in R => a = b
          /\ \A a, b, c \in S : <<a, b>> \in R /\ <<b, c>> \in R => <<a, c>> \in R
          /\ \A a, b \in S : <<a, b>> \in R \/ <<b, a>> \in R
      BY <1>2
    <2> QED
      BY <1>3, <2>1, PlacesAreTaken
  <1>5. PICK place : place = [x \in S |-> Cardinality({z \in S : z <= x})]
    OBVIOUS
  <1>6. \A x \in S : Cardinality(Below(S, R, x)) = place[x]
    <2>1. \A x \in S : Below(S, R, x) = {z \in S : z <= x}
      BY <1>2 DEF Below
    <2> QED
      BY <1>5, <2>1
  <1>7. /\ \A x \in S : place[x] \in 1..n
        /\ \A x, z \in S : x <= z <=> place[x] <= place[z]
        /\ \A k \in 1..n : \E x \in S : place[x] = k
    <2>1. \A x \in S : place[x] \in 1..n
      BY <1>4, <1>6
    <2>2. \A k \in 1..n : \E x \in S : place[x] = k
      BY <1>4, <1>6
    <2>3. ASSUME NEW x \in S, NEW z \in S PROVE x <= z <=> place[x] <= place[z]
      <3>1. <<x, z>> \in R <=> Cardinality(Below(S, R, x)) <= Cardinality(Below(S, R, z))
        BY <1>4
      <3>2. <<x, z>> \in R <=> x <= z
        BY <1>2
      <3>3. Cardinality(Below(S, R, x)) = place[x] /\ Cardinality(Below(S, R, z)) = place[z]
        BY <1>6
      <3> QED
        BY <3>1, <3>2, <3>3
    <2> QED
      BY <2>1, <2>2, <2>3
  <1>8. PICK a : a = Ascending(S)
    OBVIOUS
  <1>9. a = [k \in 1..n |-> CHOOSE x \in S : place[x] = k]
    <2> DEFINE Listed(k) == CHOOSE x \in S : Cardinality({z \in S : z <= x}) = k
    <2> DEFINE Placed(k) == CHOOSE x \in S : place[x] = k
    <2>1. \A k \in 1..n : Listed(k) = Placed(k)
      BY <1>5
    <2>2. a = [k \in 1..n |-> Listed(k)]
      BY <1>3, <1>8 DEF Ascending
    <2>3. a = [k \in 1..n |-> Placed(k)]
      <3> HIDE DEF Listed, Placed
      <3> QED
        BY <2>1, <2>2
    <2> QED
      BY <2>3
  <1>10. \A k \in 1..n : a[k] \in S /\ place[a[k]] = k
    BY <1>7, <1>9
  <1>11. a \in Seq(S) /\ Len(a) = n /\ DOMAIN a = 1..n
    BY <1>9, <1>10
  <1>12. ASSUME NEW i \in 1..n, NEW j \in 1..n, i < j PROVE a[i] < a[j]
    <2>1. PICK x \in S, z \in S : x = a[i] /\ z = a[j] /\ place[x] = i /\ place[z] = j
      BY <1>10
    <2>2. ~(place[z] <= place[x])
      BY <1>12, <2>1
    <2>3. ~(z <= x)
      BY <1>7, <2>2
    <2> QED
      BY <2>1, <2>3
  <1>13. ASSUME NEW x \in S PROVE \E k \in 1..n : a[k] = x
    <2>1. PICK k \in 1..n : k = place[x]
      BY <1>7
    <2>2. PICK z \in S : z = a[k] /\ place[z] = place[x]
      BY <1>10, <2>1
    <2>3. place[z] \in Int /\ place[x] \in Int
      BY <1>7
    <2>4. z <= x /\ x <= z
      BY <1>7, <2>2, <2>3
    <2>5. z \in Int /\ x \in Int
      OBVIOUS
    <2> QED
      BY <2>2, <2>4, <2>5
  <1>14. Range(a) = S
    <2>1. Range(a) = {a[k] : k \in 1..n}
      BY <1>11 DEF Range
    <2>2. {a[k] : k \in 1..n} \subseteq S
      BY <1>10
    <2>3. S \subseteq {a[k] : k \in 1..n}
      BY <1>13
    <2> QED
      BY <2>1, <2>2, <2>3
  <1> QED
    BY <1>3, <1>8, <1>11, <1>12, <1>14 DEF IsListed

\* A function on 1..n is a sequence of its values.
LEMMA ListsAreSequences ==
  ASSUME NEW S, NEW n \in Nat, NEW f \in [1..n -> S]
  PROVE  f \in Seq(S) /\ Len(f) = n
  OBVIOUS

\* Bounds of adjacent parts of n rows.
AreBounds(b, n) ==
  /\ b \in Seq(Nat) /\ Len(b) >= 2 /\ b[1] = 0 /\ b[Len(b)] = n
  /\ \A i \in 1..Len(b) - 1 : b[i] <= b[i + 1]

\* The parts of some rows, each later than those before it.
ArePartsOf(g, rows, parts) ==
  /\ parts \in Seq(Seq(1..Len(g)))
  /\ \A i, j \in DOMAIN parts : i < j => AllBefore(g, Range(parts[i]), Range(parts[j]))
  /\ UNION {Range(parts[i]) : i \in DOMAIN parts} = Range(rows)

\* Rows cut at edges fall into parts that follow one another.
LEMMA BoundsPart ==
  ASSUME NEW g \in Seq(Int), NEW rows, InTimeOrder(g, rows), NEW b, AreBounds(b, Len(rows)),
         \A i \in 1..Len(b) : IsEdge(g, rows, b[i]),
         NEW parts, parts = [i \in 1..Len(b) - 1 |-> SubSeq(rows, b[i] + 1, b[i + 1])]
  PROVE  ArePartsOf(g, rows, parts)
  <1>1. PICK n \in Nat : n = Len(rows) /\ DOMAIN rows = 1..n
    BY DEF InTimeOrder
  <1>2. PICK m \in Nat : Len(b) = m /\ m >= 2 /\ b \in [1..m -> Nat] /\ b[1] = 0 /\ b[m] = n
    <2>1. b \in Seq(Nat) /\ Len(b) >= 2 /\ b[1] = 0 /\ b[Len(b)] = n
      BY <1>1 DEF AreBounds
    <2>2. Len(b) \in Nat /\ b \in [1..Len(b) -> Nat]
      BY <2>1
    <2> QED
      BY <2>1, <2>2
  <1>3. \A i \in 1..m - 1 : b[i] <= b[i + 1]
    BY <1>2 DEF AreBounds
  <1>4. \A i \in 1..m : \A j \in i..m : b[i] <= b[j]
    BY <1>2, <1>3, NeverFalls
  <1>5. \A i \in 1..m : b[i] \in 0..n
    BY <1>1, <1>2 DEF IsEdge
  <1>6. ASSUME NEW i \in 1..m - 1
        PROVE  Range(parts[i]) = {rows[k] : k \in b[i] + 1..b[i + 1]}
    <2>1. i \in 1..m /\ i + 1 \in 1..m
      BY <1>2
    <2>2. /\ b[i] + 1 \in 1..Len(rows) + 1 /\ b[i + 1] \in (b[i] + 1) - 1..Len(rows)
      BY <1>1, <1>3, <1>5, <2>1
    <2>3. parts[i] = SubSeq(rows, b[i] + 1, b[i + 1])
      BY <1>2
    <2>4. IsSlice(g, rows, b[i] + 1, b[i + 1], parts[i])
      BY <2>2, <2>3, SlicesAreSorted
    <2> QED
      BY <2>4 DEF IsSlice
  <1>7. DOMAIN parts = 1..m - 1
    BY <1>2
  <1>8. ASSUME NEW i \in 1..m - 1, NEW j \in 1..m - 1, i < j
        PROVE  AllBefore(g, Range(parts[i]), Range(parts[j]))
    <2>5. j \in 1..m /\ j \in 1..Len(b)
      BY <1>2
    <2>6. b[j] \in 0..n /\ IsEdge(g, rows, b[j])
      BY <1>5, <2>5
    <2>1. PICK c \in 0..n : c = b[j] /\ IsEdge(g, rows, c)
      BY <2>6
    <2>2. b[i + 1] <= c /\ b[i] \in Nat /\ b[i + 1] \in Nat /\ b[j + 1] \in 0..n
      <3>1. i + 1 \in 1..m /\ j \in i + 1..m /\ j + 1 \in 1..m /\ i \in 1..m
        BY <1>2, <1>8
      <3> QED
        BY <1>2, <1>4, <1>5, <2>1, <3>1
    <2>3. ASSUME NEW k \in b[i] + 1..b[i + 1], NEW l \in b[j] + 1..b[j + 1] PROVE g[rows[k]] < g[rows[l]]
      <3>2. PICK u \in Nat, v \in Nat, w \in 0..n : u = b[i] /\ v = b[i + 1] /\ w = b[j + 1] /\ v <= c
        BY <2>2
      <3>3. k \in u + 1..v /\ l \in c + 1..w
        BY <2>1, <2>3, <3>2
      <3>4. PICK q : q = k /\ q \in u + 1..v
        BY <3>3
      <3>5. q \in 1..c
        <4>1. c \in Nat /\ u <= q - 1 /\ q <= v /\ q \in Int
          BY <3>4
        <4> QED
          BY <3>2, <4>1, SMTT(30)
      <3>6. PICK z : z = l /\ z \in c + 1..w
        BY <3>3
      <3>7. z \in c + 1..n
        BY <3>2, <3>6
      <3>8. z \in c + 1..Len(rows)
        BY <1>1, <3>7
      <3>9. g[rows[q]] < g[rows[z]]
        BY <2>1, <3>5, <3>8 DEF IsEdge
      <3> QED
        BY <3>4, <3>6, <3>9
    <2>4. /\ Range(parts[i]) = {rows[k] : k \in b[i] + 1..b[i + 1]}
          /\ Range(parts[j]) = {rows[k] : k \in b[j] + 1..b[j + 1]}
      BY <1>6
    <2> QED
      BY <2>3, <2>4 DEF AllBefore
  <1>9. ASSUME NEW k \in 1..n PROVE \E i \in 1..m - 1 : k \in b[i] + 1..b[i + 1]
    <2>1. PICK S : S = {i \in 1..m : k <= b[i]}
      OBVIOUS
    <2>2. PICK j \in S : \A i \in S : j <= i
      <3>2. m \in 1..m /\ k <= b[m]
        <4>1. b[m] = n /\ k <= n /\ m >= 2 /\ m \in Nat
          BY <1>1, <1>2
        <4> QED
          BY <4>1
      <3>1. S \in SUBSET Nat /\ m \in S
        BY <2>1, <3>2
      <3> QED
        BY <3>1, LeastNatural
    <2>3. j \in 1..m /\ k <= b[j]
      BY <2>1, <2>2
    <2>4. j # 1
      BY <1>2, <2>3
    <2>5. PICK i \in 1..m - 1 : i + 1 = j /\ i \in 1..m /\ ~(j <= i)
      BY <2>3, <2>4
    <2>6. ~(k <= b[i])
      BY <2>1, <2>2, <2>5
    <2>7. k \in b[i] + 1..b[i + 1]
      BY <1>5, <2>3, <2>5, <2>6
    <2> QED
      BY <2>7
  <1>10. UNION {Range(parts[i]) : i \in DOMAIN parts} \subseteq Range(rows)
    <2>1. ASSUME NEW i \in 1..m - 1 PROVE Range(parts[i]) \subseteq Range(rows)
      <3>3. i \in 1..m /\ i + 1 \in 1..m
        BY <1>2
      <3>1. b[i] \in 0..n /\ b[i + 1] \in 0..n
        BY <1>5, <3>3
      <3>2. \A k \in b[i] + 1..b[i + 1] : k \in 1..n
        BY <3>1
      <3>4. Range(rows) = {rows[k] : k \in 1..n}
        BY <1>1 DEF Range
      <3>5. Range(parts[i]) = {rows[k] : k \in b[i] + 1..b[i + 1]}
        BY <1>6
      <3> QED
        BY <3>2, <3>4, <3>5
    <2> QED
      <3>1. \A i \in DOMAIN parts : Range(parts[i]) \subseteq Range(rows)
        BY <1>7, <2>1
      <3> QED
        BY <3>1
  <1>11. Range(rows) \subseteq UNION {Range(parts[i]) : i \in DOMAIN parts}
    <2>1. ASSUME NEW r \in Range(rows) PROVE \E i \in 1..m - 1 : r \in Range(parts[i])
      <3>1. PICK k \in 1..n : rows[k] = r
        BY <1>1 DEF Range
      <3>2. PICK i \in 1..m - 1 : k \in b[i] + 1..b[i + 1]
        BY <1>9
      <3> QED
        BY <1>6, <3>1, <3>2
    <2> QED
      BY <1>7, <2>1
  <1>12. parts \in Seq(Seq(1..Len(g)))
    <2>1. ASSUME NEW i \in 1..m - 1 PROVE parts[i] \in Seq(1..Len(g))
      <3>1. i \in 1..m /\ i + 1 \in 1..m
        BY <1>2
      <3>2. /\ b[i] + 1 \in 1..Len(rows) + 1 /\ b[i + 1] \in (b[i] + 1) - 1..Len(rows)
        BY <1>1, <1>3, <1>5, <3>1
      <3>3. parts[i] = SubSeq(rows, b[i] + 1, b[i + 1])
        BY <1>2
      <3>4. IsSlice(g, rows, b[i] + 1, b[i + 1], parts[i])
        BY <3>2, <3>3, SlicesAreSorted
      <3> QED
        BY <3>4 DEF IsSlice, InTimeOrder
    <2>2. m - 1 \in Nat /\ parts \in [1..m - 1 -> Seq(1..Len(g))]
      <3>1. m - 1 \in Nat
        BY <1>2
      <3>2. parts = [i \in 1..m - 1 |-> parts[i]]
        BY <1>2
      <3> QED
        BY <2>1, <3>1, <3>2
    <2> QED
      BY <2>2, ListsAreSequences
  <1> QED
    BY <1>7, <1>8, <1>10, <1>11, <1>12 DEF ArePartsOf

\* The bounds of a set of cuts.
LEMMA CutsBound ==
  ASSUME NEW n \in Nat \ {0}, NEW C \in SUBSET (1..n - 1), NEW b, b = << 0 >> \o Ascending(C) \o << n >>
  PROVE  AreBounds(b, n) /\ \A i \in 1..Len(b) : b[i] \in C \cup {0, n}
  <1>1. C \in SUBSET Int /\ C \subseteq Nat /\ IsFiniteSet(C)
    <2>1. IsFiniteSet(1..n - 1)
      <3>1. 1 \in Int /\ n - 1 \in Int
        OBVIOUS
      <3> QED
        BY <3>1, FS_Interval
    <2>2. IsFiniteSet(C)
      BY <2>1, FS_Subset
    <2>3. \A k \in 1..n - 1 : k \in Nat /\ k \in Int
      OBVIOUS
    <2> QED
      BY <2>2, <2>3
  <1>2. PICK c : c = Ascending(C) /\ IsListed(C, c)
    BY <1>1, AscendingLists
  <1>3. PICK m \in Nat : m = Len(c) /\ c \in Seq(C) /\ DOMAIN c = 1..m
    BY <1>2 DEF IsListed
  <1>4. \A i \in 1..m : c[i] \in C
    BY <1>3
  <1>5. c \in Seq(Nat)
    BY <1>1, <1>3, SeqMonotonic
  <1>6. PICK h : h = <<0>> \o c
    OBVIOUS
  <1>7. <<0>> \in Seq(Nat) /\ <<n>> \in Seq(Nat) /\ Len(<<0>>) = 1 /\ Len(<<n>>) = 1
        /\ <<0>>[1] = 0 /\ <<n>>[1] = n /\ 1 \in 1..1
    OBVIOUS
  <1>8. h \in Seq(Nat) /\ Len(h) = m + 1 /\ h[1] = 0 /\ \A i \in 1..m : h[1 + i] = c[i]
    <2>1. /\ h \in Seq(Nat) /\ Len(h) = Len(<<0>>) + Len(c)
          /\ \A i \in 1..Len(<<0>>) : h[i] = <<0>>[i]
          /\ \A i \in 1..Len(c) : h[Len(<<0>>) + i] = c[i]
      BY <1>5, <1>6, <1>7, Joins
    <2> QED
      BY <1>3, <1>7, <2>1
  <1>9. /\ b \in Seq(Nat) /\ Len(b) = m + 2 /\ b[m + 2] = n
        /\ \A i \in 1..m + 1 : b[i] = h[i]
    <2>1. /\ b \in Seq(Nat) /\ Len(b) = Len(h) + Len(<<n>>)
          /\ \A i \in 1..Len(h) : b[i] = h[i]
          /\ \A i \in 1..Len(<<n>>) : b[Len(h) + i] = <<n>>[i]
      BY <1>2, <1>6, <1>7, <1>8, Joins
    <2>2. b[m + 1 + 1] = n
      BY <1>7, <1>8, <2>1
    <2> QED
      BY <1>7, <1>8, <2>1, <2>2
  <1>10. b[1] = 0 /\ \A i \in 2..m + 1 : i - 1 \in 1..m /\ b[i] = c[i - 1]
    <2>1. b[1] = 0
      BY <1>8, <1>9
    <2>2. ASSUME NEW i \in 2..m + 1 PROVE i - 1 \in 1..m /\ b[i] = c[i - 1]
      <3>1. i - 1 \in 1..m /\ 1 + (i - 1) = i /\ i \in 1..m + 1
        OBVIOUS
      <3> QED
        BY <1>8, <1>9, <3>1
    <2> QED
      BY <2>1, <2>2
  <1>11. ASSUME NEW i \in 1..m + 2 PROVE b[i] \in C \cup {0, n}
    <2>1. i = 1 \/ i = m + 2 \/ i \in 2..m + 1
      OBVIOUS
    <2> QED
      BY <1>4, <1>9, <1>10, <2>1
  <1>12. ASSUME NEW i \in 1..m + 1 PROVE b[i] <= b[i + 1]
    <2>1. CASE i = 1
      <3>1. b[i] = 0 /\ i + 1 \in 1..m + 2
        BY <1>10, <2>1
      <3>2. b[i + 1] \in C \cup {0, n}
        BY <1>11, <3>1
      <3>3. \A x \in C \cup {0, n} : 0 <= x
        OBVIOUS
      <3> QED
        BY <3>1, <3>2, <3>3
    <2>2. CASE i = m + 1
      <3>1. b[i + 1] = n /\ i \in 1..m + 2
        BY <1>9, <2>2
      <3>2. b[i] \in C \cup {0, n}
        BY <1>11, <3>1
      <3>3. \A x \in C \cup {0, n} : x <= n
        OBVIOUS
      <3> QED
        BY <3>1, <3>2, <3>3
    <2>3. CASE i # 1 /\ i # m + 1
      <3>1. i \in 2..m + 1 /\ i + 1 \in 2..m + 1 /\ i - 1 \in 1..m /\ (i + 1) - 1 = i /\ i \in 1..m /\ i - 1 < i
        BY <2>3
      <3>2. b[i] = c[i - 1] /\ b[i + 1] = c[i]
        BY <1>10, <3>1
      <3>3. c[i - 1] < c[i]
        BY <1>2, <1>3, <3>1 DEF IsListed
      <3>4. c[i - 1] \in Nat /\ c[i] \in Nat
        BY <1>3, <1>5, <3>1
      <3>5. \A x, z \in Nat : x < z => x <= z
        OBVIOUS
      <3>6. c[i - 1] <= c[i]
        BY <3>3, <3>4, <3>5
      <3> QED
        BY <3>2, <3>6
    <2> QED
      BY <2>1, <2>2, <2>3
  <1>13. Len(b) >= 2 /\ b[Len(b)] = n /\ Len(b) - 1 = m + 1
    BY <1>9
  <1> QED
    BY <1>9, <1>10, <1>11, <1>12, <1>13 DEF AreBounds

\* The parts of rows in time order follow one another and leave none out.
LEMMA PartitionsFollow ==
  ASSUME NEW g \in Seq(Int), NEW rows, InTimeOrder(g, rows), rows # <<>>, NEW parts \in Nat \ {0}
  PROVE  ArePartsOf(g, rows, AtomicPartitions(g, rows, parts))
  <1>1. PICK n \in Nat \ {0} : n = Len(rows) /\ rows \in Seq(1..Len(g)) /\ DOMAIN rows = 1..n
    <2>1. rows \in Seq(1..Len(g))
      BY DEF InTimeOrder
    <2>2. Len(rows) \in Nat /\ Len(rows) # 0 /\ DOMAIN rows = 1..Len(rows)
      BY <2>1
    <2> QED
      BY <2>1, <2>2
  <1>2. PICK times : times = TimesOf(g, rows)
    OBVIOUS
  <1>3. PICK T : T = {Rounded(p * Len(rows), parts) : p \in 1..parts - 1} \cap (1..Len(rows) - 1)
    OBVIOUS
  <1>4. PICK C : C = {Before(times, times[t + 1]) : t \in T} \ {0}
    OBVIOUS
  <1>5. ASSUME NEW t \in T
        PROVE  IsEdge(g, rows, Before(times, times[t + 1])) /\ Before(times, times[t + 1]) \in 0..n - 1
    <2>1. t \in 1..n - 1 /\ t + 1 \in 1..n
      <3>1. t \in 1..Len(rows) - 1
        BY <1>3
      <3>2. t \in 1..n - 1
        BY <1>1, <3>1
      <3> QED
        BY <3>2
    <2>2. times[t + 1] = g[rows[t + 1]]
      BY <1>1, <1>2, <2>1 DEF TimesOf
    <2>3. g[rows[t + 1]] \in Int
      BY <1>1, <2>1
    <2>4. PICK x \in Int : x = times[t + 1]
      BY <2>2, <2>3
    <2>5. PICK k : k = Before(times, x)
      OBVIOUS
    <2>6. AreEarlier(g, rows, x, k)
      BY <1>2, <2>5, EarlierRowsFirst
    <2>7. k \in 0..n
      BY <1>1, <2>6 DEF AreEarlier, IsEdge
    <2>8. ~(t + 1 <= k)
      <3>1. t + 1 <= k <=> g[rows[t + 1]] < x
        BY <1>1, <2>1, <2>6 DEF AreEarlier
      <3> QED
        BY <2>2, <2>4, <3>1
    <2>9. k \in 0..n - 1
      BY <2>1, <2>7, <2>8
    <2> QED
      BY <2>4, <2>5, <2>6, <2>9 DEF AreEarlier
  <1>6. C \in SUBSET (1..n - 1) /\ \A k \in C : IsEdge(g, rows, k)
    <2>1. \A k \in C : k \in 0..n - 1 /\ k # 0 /\ IsEdge(g, rows, k)
      BY <1>4, <1>5
    <2>2. \A k \in C : k \in 1..n - 1
      BY <2>1
    <2> QED
      BY <2>1, <2>2
  <1>7. IsEdge(g, rows, 0) /\ IsEdge(g, rows, n)
    <2>1. 0 \in 0..Len(rows) /\ n \in 0..Len(rows) /\ 1..0 = {} /\ n + 1..Len(rows) = {}
      BY <1>1
    <2> QED
      BY <2>1 DEF IsEdge
  <1>8. PICK b : b = <<0>> \o Ascending(C) \o <<Len(rows)>>
    OBVIOUS
  <1>9. AreBounds(b, Len(rows)) /\ \A i \in 1..Len(b) : b[i] \in C \cup {0, n}
    BY <1>1, <1>6, <1>8, CutsBound
  <1>10. \A i \in 1..Len(b) : IsEdge(g, rows, b[i])
    BY <1>6, <1>7, <1>9
  <1>11. AtomicPartitions(g, rows, parts) = [i \in 1..Len(b) - 1 |-> SubSeq(rows, b[i] + 1, b[i + 1])]
    BY <1>2, <1>3, <1>4, <1>8 DEF AtomicPartitions
  <1> QED
    BY <1>9, <1>10, <1>11, BoundsPart

\* The newest rows up to a cap are those behind an edge.
IsRecent(g, rows, cap, recent, s) ==
  /\ IsEdge(g, rows, s) /\ Len(rows) - s <= cap
  /\ \A k \in 0..Len(rows) : IsEdge(g, rows, k) /\ Len(rows) - k <= cap => s <= k
  /\ recent = SubSeq(rows, s + 1, Len(rows))

\* Recent: the newest rows up to a cap are all of them, or those behind the least such edge.
LEMMA RecentIsBehindEdge ==
  ASSUME NEW g \in Seq(Int), NEW rows, InTimeOrder(g, rows), NEW cap \in Nat \ {0}
  PROVE  \E s : IsRecent(g, rows, cap, Recent(g, rows, cap), s)
  <1>1. rows \in Seq(1..Len(g))
    BY DEF InTimeOrder
  <1>2. CASE Len(rows) <= cap
    <2>1. Recent(g, rows, cap) = rows
      BY <1>2 DEF Recent
    <2>2. SubSeq(rows, 0 + 1, Len(rows)) = rows
      BY <1>1
    <2>3. 0 \in 0..Len(rows) /\ 1..0 = {} /\ Len(rows) - 0 <= cap
      BY <1>1, <1>2
    <2>4. IsEdge(g, rows, 0)
      BY <2>3 DEF IsEdge
    <2>5. \A k \in 0..Len(rows) : 0 <= k
      BY <1>1
    <2> QED
      BY <2>1, <2>2, <2>3, <2>4, <2>5 DEF IsRecent
  <1>3. CASE ~(Len(rows) <= cap)
    <2>1. PICK s : s = RecentStart(TimesOf(g, rows), cap)
      OBVIOUS
    <2>2. Len(rows) > cap
      BY <1>1, <1>3
    <2>3. StartsAtEdge(g, rows, cap, s)
      BY <2>1, <2>2, RecentStartsAtEdge
    <2>4. Recent(g, rows, cap) = SubSeq(rows, s + 1, Len(rows))
      BY <1>3, <2>1 DEF Recent
    <2> QED
      BY <2>3, <2>4 DEF StartsAtEdge, IsRecent
  <1> QED
    BY <1>2, <1>3

\* The rows of the windows: a context, the rows of the model behind it, and a cut in them.
AreWindowsOf(g, p, split, context, model, s, cut) ==
  LET rest == SubSeq(model, cut + 1, Len(model))
  IN  /\ model # <<>> /\ rest # <<>>
      /\ IsRecent(g, context, p.maxRows, model, s)
      /\ IsEdge(g, model, cut)
      /\ split = [warmup |-> SubSeq(context, 1, Len(context) - Len(model)),
                  past |-> SubSeq(model, 1, cut),
                  windows |-> AtomicPartitions(g, rest, p.windows)]

\* ContextWindows cuts the context at edges: warm-up, past, and what the windows share.
LEMMA ContextIsCut ==
  ASSUME NEW g \in Seq(Int), NEW context, InTimeOrder(g, context), NEW p,
         p.maxRows \in Nat \ {0}, p.trainDen \in Nat \ {0}, p.trainNum \in Nat,
         NEW split, split = ContextWindows(g, context, p), split # NoWindows
  PROVE  \E model, s, cut : AreWindowsOf(g, p, split, context, model, s, cut)
  <1>1. PICK model, s : model = Recent(g, context, p.maxRows) /\ IsRecent(g, context, p.maxRows, model, s)
    BY RecentIsBehindEdge
  <1>2. InTimeOrder(g, model)
    <2>1. Parts(g, context, s)
      BY <1>1, EdgesPart DEF IsRecent
    <2> QED
      BY <1>1, <2>1 DEF IsRecent, Parts
  <1>3. PICK r : r = (p.trainNum * Len(model)) \div p.trainDen
    OBVIOUS
  <1>4. PICK t, cut : t = g[model[r + 1]] /\ cut = Before(TimesOf(g, model), t)
    OBVIOUS
  <1>5. split = WindowsOf(g, context, model, p)
    BY <1>1 DEF ContextWindows
  <1>6. ~(r >= Len(model)) /\ split = CutAt(g, context, model, cut, p)
    BY <1>3, <1>4, <1>5 DEF WindowsOf
  <1>7. PICK rest, windows : /\ rest = SubSeq(model, cut + 1, Len(model))
                             /\ windows = AtomicPartitions(g, rest, p.windows)
    OBVIOUS
  <1>8. split = WindowsAt(context, model, cut, windows, p)
    BY <1>6, <1>7 DEF CutAt
  <1>9. /\ ~(Len(windows) < 2)
        /\ split = [warmup |-> SubSeq(context, 1, Len(context) - Len(model)),
                    past |-> SubSeq(model, 1, cut), windows |-> windows]
    BY <1>8 DEF WindowsAt
  <1>10. rest # <<>>
    <2>1. rest = <<>> => windows = <<>>
      BY <1>7 DEF AtomicPartitions
    <2>2. Len(<<>>) < 2
      OBVIOUS
    <2> QED
      BY <1>9, <2>1, <2>2
  <1>11. PICK n \in Nat : n = Len(model) /\ model \in Seq(1..Len(g)) /\ DOMAIN model = 1..n
    <2>1. model \in Seq(1..Len(g))
      BY <1>2 DEF InTimeOrder
    <2>2. Len(model) \in Nat /\ DOMAIN model = 1..Len(model)
      BY <2>1
    <2> QED
      BY <2>1, <2>2
  <1>12. r \in Nat /\ r + 1 \in 1..n
    <2>1. PICK a \in Nat, d \in Nat \ {0} : a = p.trainNum /\ d = p.trainDen
      OBVIOUS
    <2>2. a * n \in Nat
      OBVIOUS
    <2>3. \A x \in Nat : x \div d \in Nat
      OBVIOUS
    <2>4. r \in Nat
      BY <1>3, <1>11, <2>1, <2>2, <2>3
    <2> QED
      BY <1>6, <1>11, <2>4
  <1>13. t \in Int
    BY <1>4, <1>11, <1>12
  <1>14. IsEdge(g, model, cut)
    BY <1>2, <1>4, <1>13, EarlierRowsFirst DEF AreEarlier
  <1>15. model # <<>>
    BY <1>11, <1>12
  <1> QED
    BY <1>1, <1>7, <1>9, <1>10, <1>14, <1>15 DEF AreWindowsOf

\* What the blocks of the temporal gate are to one another and to the table.
BlocksOf(split) == <<split.warmup, split.past>> \o split.windows
KeptRows(split) == UNION {Range(BlocksOf(split)[i]) : i \in DOMAIN BlocksOf(split)}
AreFutureBlocks(g, p, split) ==
  /\ \A i, j \in DOMAIN BlocksOf(split) :
        i < j => AllBefore(g, Range(BlocksOf(split)[i]), Range(BlocksOf(split)[j]))
  /\ KeptRows(split) = LaterRows(g, Min({g[r] : r \in KeptRows(split)}))
  /\ Cardinality(KeptRows(split)) <= p.contextRows
  /\ Cardinality(KeptRows(split) \ Range(split.warmup)) <= p.maxRows

\* Two blocks and those behind them.
LEMMA TwoAndMore ==
  ASSUME NEW S, NEW a \in S, NEW b \in S, NEW w \in Seq(S), NEW o, o = <<a, b>> \o w
  PROVE  /\ DOMAIN o = 1..Len(w) + 2 /\ Len(w) \in Nat /\ o[1] = a /\ o[2] = b
         /\ \A i \in 1..Len(w) : o[i + 2] = w[i]
  <1>1. PICK n \in Nat : n = Len(w)
    OBVIOUS
  <1>2. <<a, b>> \in Seq(S) /\ Len(<<a, b>>) = 2 /\ <<a, b>>[1] = a /\ <<a, b>>[2] = b
    OBVIOUS
  <1>3. /\ o \in Seq(S) /\ Len(o) = Len(<<a, b>>) + Len(w)
        /\ \A i \in 1..Len(<<a, b>>) : o[i] = <<a, b>>[i]
        /\ \A i \in 1..Len(w) : o[Len(<<a, b>>) + i] = w[i]
    BY <1>2, Joins
  <1>4. Len(o) = 2 + n /\ DOMAIN o = 1..Len(o) /\ 1 \in 1..2 /\ 2 \in 1..2 /\ 2 + n = n + 2
    BY <1>1, <1>2, <1>3
  <1>5. o[1] = a /\ o[2] = b
    BY <1>2, <1>3, <1>4
  <1>6. ASSUME NEW i \in 1..n PROVE o[i + 2] = w[i]
    <2>1. i + 2 = 2 + i
      OBVIOUS
    <2> QED
      BY <1>1, <1>2, <1>3, <2>1
  <1> QED
    BY <1>1, <1>4, <1>5, <1>6

\* Blocks each of which is later than those before it; the rows of blocks.
AreRanked(g, w) == \A i, j \in DOMAIN w : i < j => AllBefore(g, Range(w[i]), Range(w[j]))
RowsOfAll(w)       == UNION {Range(w[i]) : i \in DOMAIN w}

\* Two blocks and those behind them, in that order.
AreInOrder(g, a, b, w) ==
  /\ AllBefore(g, Range(a), Range(b) \cup RowsOfAll(w)) /\ AllBefore(g, Range(b), RowsOfAll(w))
  /\ AreRanked(g, w)
AreJoined(g, a, b, w, o) ==
  AreRanked(g, o) /\ RowsOfAll(o) = Range(a) \cup Range(b) \cup RowsOfAll(w)

\* A table cut into a warmup, a past and windows: each of them follows those before it.
LEMMA BlocksFollow ==
  ASSUME NEW g, NEW S, NEW a \in S, NEW b \in S, NEW w \in Seq(S), NEW o, o = <<a, b>> \o w,
         AreInOrder(g, a, b, w)
  PROVE  AreJoined(g, a, b, w, o)
  <1> DEFINE rest  == RowsOfAll(w)
             model == Range(b) \cup rest
  <1>1. PICK n \in Nat : n = Len(w) /\ DOMAIN w = 1..n
    OBVIOUS
  <1>2. DOMAIN o = 1..n + 2 /\ o[1] = a /\ o[2] = b /\ \A i \in 1..n : o[i + 2] = w[i]
    BY <1>1, TwoAndMore
  <1>3. ASSUME NEW i \in 1..n + 2
        PROVE  i = 1 \/ i = 2 \/ (i - 2 \in 1..n /\ (i - 2) + 2 = i)
    OBVIOUS
  <1>4. \A i \in 3..n + 2 : i - 2 \in 1..n /\ o[i] = w[i - 2]
    <2> TAKE i \in 3..n + 2
    <2>1. i - 2 \in 1..n /\ (i - 2) + 2 = i
      OBVIOUS
    <2> QED
      BY <1>2, <2>1
  <1>5. \A i \in 1..n : Range(w[i]) \subseteq rest
    BY <1>1 DEF RowsOfAll
  <1>9. AllBefore(g, Range(a), model) /\ AllBefore(g, Range(b), rest) /\ rest \subseteq model
    BY DEF AreInOrder
  <1>6. ASSUME NEW i \in 1..n + 2, NEW j \in 1..n + 2, i < j
        PROVE  AllBefore(g, Range(o[i]), Range(o[j]))
    <2>1. \/ i = 1 /\ j = 2
          \/ i = 1 /\ j \in 3..n + 2
          \/ i = 2 /\ j \in 3..n + 2
          \/ i \in 3..n + 2 /\ j \in 3..n + 2 /\ i - 2 < j - 2
      BY <1>6
    <2>2. CASE i = 1 /\ j = 2
      BY <1>2, <1>9, <2>2 DEF AllBefore
    <2>3. CASE i = 1 /\ j \in 3..n + 2
      <3>1. o[i] = a /\ Range(o[j]) \subseteq model
        BY <1>2, <1>4, <1>5, <2>3
      <3> QED
        BY <1>9, <3>1 DEF AllBefore
    <2>4. CASE i = 2 /\ j \in 3..n + 2
      <3>1. o[i] = b /\ Range(o[j]) \subseteq rest
        BY <1>2, <1>4, <1>5, <2>4
      <3> QED
        BY <1>9, <3>1 DEF AllBefore
    <2>5. CASE i \in 3..n + 2 /\ j \in 3..n + 2 /\ i - 2 < j - 2
      BY <1>1, <1>4, <2>5 DEF AreRanked, AreInOrder
    <2> QED
      BY <2>1, <2>2, <2>3, <2>4, <2>5
  <1>7. UNION {Range(o[i]) : i \in DOMAIN o} \subseteq Range(a) \cup model
    <2>1. ASSUME NEW i \in 1..n + 2 PROVE Range(o[i]) \subseteq Range(a) \cup model
      <3>1. i = 1 \/ i = 2 \/ i \in 3..n + 2
        OBVIOUS
      <3> QED
        BY <1>2, <1>4, <1>5, <3>1
    <2> QED
      BY <1>2, <2>1
  <1>8. Range(a) \cup model \subseteq UNION {Range(o[i]) : i \in DOMAIN o}
    <2>1. 1 \in DOMAIN o /\ 2 \in DOMAIN o
      BY <1>2
    <2>2. Range(a) \subseteq UNION {Range(o[i]) : i \in DOMAIN o}
      BY <1>2, <2>1
    <2>3. Range(b) \subseteq UNION {Range(o[i]) : i \in DOMAIN o}
      BY <1>2, <2>1
    <2>4. ASSUME NEW r \in rest PROVE r \in UNION {Range(o[i]) : i \in DOMAIN o}
      <3>1. PICK i \in 1..n : r \in Range(w[i])
        BY <1>1 DEF RowsOfAll
      <3>2. i + 2 \in 1..n + 2
        OBVIOUS
      <3>3. i + 2 \in DOMAIN o /\ r \in Range(o[i + 2])
        BY <1>2, <3>1, <3>2
      <3> QED
        BY <3>3
    <2> QED
      BY <2>2, <2>3, <2>4
  <1> QED
    BY <1>2, <1>6, <1>7, <1>8 DEF AreRanked, RowsOfAll, AreJoined

\* The newest rows of a table are all those from an instant on.
LEMMA RecentIsLater ==
  ASSUME NEW g \in Seq(Int), NEW k, IsEdge(g, Order(g), k),
         NEW recent, recent = SubSeq(Order(g), k + 1, Len(Order(g))), recent # <<>>
  PROVE  /\ Range(recent) = LaterRows(g, Min({g[r] : r \in Range(recent)}))
         /\ Min({g[r] : r \in Range(recent)}) = g[Order(g)[k + 1]]
         /\ k \in 0..Len(g) /\ k < Len(g)
  <1>1. PICK o : o = Order(g)
    OBVIOUS
  <1>2. PICK n \in Nat : n = Len(g) /\ DOMAIN g = 1..n
    OBVIOUS
  <1>3. InTimeOrder(g, o) /\ Len(o) = n /\ \A i \in 1..n : o[i] \in 1..n
    BY <1>1, <1>2, OrderIsSorted, OrderSorts
  <1>4. k \in 0..n
    BY <1>1, <1>3 DEF IsEdge
  <1>5. Len(recent) = n - k /\ recent \in Seq(1..Len(g))
    <2>1. Parts(g, o, k)
      BY <1>1, <1>3, EdgesPart
    <2> QED
      BY <1>1, <1>3, <2>1 DEF Parts, InTimeOrder
  <1>6. k < n
    <2>1. Len(recent) # 0
      BY <1>5
    <2> QED
      BY <1>4, <1>5, <2>1
  <1>7. PICK t : t = g[o[k + 1]]
    OBVIOUS
  <1>8. IsCutAt(g, t, k)
    BY <1>1, <1>2, <1>4, <1>6, <1>7, EdgesAreInstants
  <1>9. recent = Future(g, k)
    BY <1>1, <1>2, <1>3 DEF Future
  <1>10. Range(recent) = LaterRows(g, t)
    BY <1>8, <1>9 DEF IsCutAt
  <1>11. t \in Int /\ \A r \in 1..n : g[r] \in Int
    <2>1. k + 1 \in 1..n
      BY <1>4, <1>6
    <2> QED
      BY <1>2, <1>3, <1>7, <2>1
  <1>12. \A r \in LaterRows(g, t) : t <= g[r]
    <2>1. \A r \in LaterRows(g, t) : r \in 1..n /\ ~(g[r] < t)
      BY <1>2 DEF LaterRows, EarlierRows
    <2>2. \A x \in Int : ~(x < t) => t <= x
      BY <1>11
    <2> QED
      BY <1>11, <2>1, <2>2
  <1>13. o[k + 1] \in LaterRows(g, t)
    <2>1. k + 1 \in 1..n
      BY <1>4, <1>6
    <2>2. ~(t < t)
      BY <1>11
    <2> QED
      BY <1>2, <1>3, <1>7, <2>1, <2>2 DEF LaterRows, EarlierRows
  <1>14. Min({g[r] : r \in Range(recent)}) = t
    <2>1. PICK T : T = {g[r] : r \in LaterRows(g, t)}
      OBVIOUS
    <2>2. t \in T /\ \A x \in T : t <= x
      BY <1>7, <1>12, <1>13, <2>1
    <2>3. T \in SUBSET Int
      <3>1. LaterRows(g, t) \subseteq 1..n
        BY <1>2 DEF LaterRows
      <3> QED
        BY <1>11, <2>1, <3>1
    <2>4. Min(T) = CHOOSE x \in T : \A z \in T : x <= z
      BY DEF Min
    <2>5. Min(T) \in T /\ \A z \in T : Min(T) <= z
      BY <2>2, <2>4
    <2>6. Min(T) <= t /\ t <= Min(T)
      BY <2>2, <2>5
    <2>7. Min(T) \in Int
      BY <2>3, <2>5
    <2>8. Min(T) = t
      BY <1>11, <2>6, <2>7
    <2> QED
      BY <1>10, <2>1, <2>8
  <1> QED
    BY <1>1, <1>2, <1>4, <1>6, <1>7, <1>10, <1>14

\* Windows held out of a context: they follow one another, and hold every row of it.
LEMMA ContextIsHeldOut ==
  ASSUME NEW g \in Seq(Int), NEW context, InTimeOrder(g, context), NEW p, p.windows \in Nat \ {0},
         NEW split, NEW model, NEW s, NEW cut, AreWindowsOf(g, p, split, context, model, s, cut)
  PROVE  /\ \A i, j \in DOMAIN BlocksOf(split) :
               i < j => AllBefore(g, Range(BlocksOf(split)[i]), Range(BlocksOf(split)[j]))
         /\ KeptRows(split) = Range(context)
         /\ Cardinality(KeptRows(split) \ Range(split.warmup)) <= p.maxRows
  <1>1. PICK rest, windows : /\ rest = SubSeq(model, cut + 1, Len(model))
                             /\ windows = AtomicPartitions(g, rest, p.windows)
    OBVIOUS
  <1>2. PICK a, b : a = SubSeq(context, 1, Len(context) - Len(model)) /\ b = SubSeq(model, 1, cut)
    OBVIOUS
  <1>3. /\ model # <<>> /\ rest # <<>> /\ IsRecent(g, context, p.maxRows, model, s)
        /\ IsEdge(g, model, cut) /\ split = [warmup |-> a, past |-> b, windows |-> windows]
    BY <1>1, <1>2 DEF AreWindowsOf
  <1>4. split.warmup = a /\ split.past = b /\ split.windows = windows
    BY <1>3
  <1>5. /\ IsEdge(g, context, s) /\ Len(context) - s <= p.maxRows
        /\ model = SubSeq(context, s + 1, Len(context))
    BY <1>3 DEF IsRecent
  <1>6. Parts(g, context, s)
    BY <1>5, EdgesPart
  <1>7. InTimeOrder(g, model) /\ Len(model) = Len(context) - s
    BY <1>5, <1>6 DEF Parts
  <1>8. Len(context) - Len(model) = s
    <2>1. Len(context) \in Nat /\ s \in Int
      BY <1>5 DEF InTimeOrder, IsEdge
    <2> QED
      BY <1>7, <2>1
  <1>9. /\ Range(a) \cup Range(model) = Range(context) /\ AllBefore(g, Range(a), Range(model))
        /\ InTimeOrder(g, a)
    BY <1>2, <1>5, <1>6, <1>8 DEF Parts
  <1>10. Parts(g, model, cut)
    BY <1>3, <1>7, EdgesPart
  <1>11. /\ Range(b) \cup Range(rest) = Range(model) /\ AllBefore(g, Range(b), Range(rest))
         /\ InTimeOrder(g, b) /\ InTimeOrder(g, rest)
    BY <1>1, <1>2, <1>10 DEF Parts
  <1>12. ArePartsOf(g, rest, windows)
    BY <1>1, <1>3, <1>11, PartitionsFollow
  <1>13. PICK o : o = BlocksOf(split) /\ o = <<a, b>> \o windows
    BY <1>4 DEF BlocksOf
  <1>14. a \in Seq(1..Len(g)) /\ b \in Seq(1..Len(g)) /\ windows \in Seq(Seq(1..Len(g)))
    BY <1>9, <1>11, <1>12 DEF InTimeOrder, ArePartsOf
  <1>15. AreRanked(g, o) /\ RowsOfAll(o) = Range(a) \cup Range(model)
    <2>1. PICK S, M, R : S = Seq(1..Len(g)) /\ M = Range(model) /\ R = Range(rest)
      OBVIOUS
    <2>2. AreRanked(g, windows) /\ RowsOfAll(windows) = R
      BY <1>12, <2>1 DEF ArePartsOf, AreRanked, RowsOfAll
    <2>3. Range(b) \cup RowsOfAll(windows) = M
      BY <1>11, <2>1, <2>2
    <2>4. /\ AllBefore(g, Range(a), Range(b) \cup RowsOfAll(windows))
          /\ AllBefore(g, Range(b), RowsOfAll(windows))
          /\ a \in S /\ b \in S /\ windows \in Seq(S)
      <3>1. AllBefore(g, Range(a), M) /\ AllBefore(g, Range(b), R)
        BY <1>9, <1>11, <2>1
      <3>2. a \in S /\ b \in S /\ windows \in Seq(S)
        BY <1>14, <2>1
      <3> QED
        BY <2>2, <2>3, <3>1, <3>2
    <2>5. AreInOrder(g, a, b, windows)
      BY <2>2, <2>4 DEF AreInOrder
    <2>6. AreJoined(g, a, b, windows, o)
      BY <1>13, <2>4, <2>5, BlocksFollow
    <2> QED
      BY <2>1, <2>3, <2>6 DEF AreJoined
  <1>16. KeptRows(split) = Range(context)
    BY <1>9, <1>13, <1>15 DEF KeptRows, RowsOfAll
  <1>17. Cardinality(KeptRows(split) \ Range(split.warmup)) <= p.maxRows
    <2>1. Range(a) \cap Range(model) = {}
      <3>1. \A r \in Range(a) : r \in 1..Len(g)
        BY <1>9, RowsAreCounted
      <3>2. \A r \in 1..Len(g) : g[r] \in Int
        OBVIOUS
      <3>3. \A r \in Range(a) : ~(g[r] < g[r])
        <4>1. \A x \in Int : ~(x < x)
          OBVIOUS
        <4> QED
          BY <3>1, <3>2, <4>1
      <3> QED
        BY <1>9, <3>3 DEF AllBefore
    <2>2. KeptRows(split) \ Range(split.warmup) = Range(model)
      BY <1>4, <1>9, <1>16, <2>1
    <2>3. Cardinality(Range(model)) = Len(model)
      BY <1>7, RowsAreCounted
    <2> QED
      BY <1>5, <1>7, <2>2, <2>3
  <1> QED
    BY <1>13, <1>15, <1>16, <1>17 DEF AreRanked

\* The windows of the temporal gate are later than all that is fitted before them, and
\* the rows they are cut from are the newest ones.
LEMMA WindowsAreHeldOut ==
  ASSUME NEW g \in Seq(Int), NEW p,
         p.contextRows \in Nat \ {0}, p.maxRows \in Nat \ {0}, p.windows \in Nat \ {0},
         p.trainDen \in Nat \ {0}, p.trainNum \in Nat,
         NEW split, split = PowerWindowSplit(g, p), split # NoWindows
  PROVE  AreFutureBlocks(g, p, split)
  <1>1. InTimeOrder(g, Order(g))
    BY OrderSorts
  <1>2. PICK context, k : context = Recent(g, Order(g), p.contextRows)
                          /\ IsRecent(g, Order(g), p.contextRows, context, k)
    BY <1>1, RecentIsBehindEdge
  <1>3. /\ IsEdge(g, Order(g), k) /\ Len(Order(g)) - k <= p.contextRows
        /\ context = SubSeq(Order(g), k + 1, Len(Order(g)))
    BY <1>2 DEF IsRecent
  <1>4. InTimeOrder(g, context) /\ Len(context) = Len(Order(g)) - k
    <2>1. PICK o : o = Order(g)
      OBVIOUS
    <2>2. Parts(g, o, k)
      BY <1>1, <1>3, <2>1, EdgesPart
    <2>3. context = SubSeq(o, k + 1, Len(o))
      BY <1>3, <2>1
    <2> QED
      BY <2>1, <2>2, <2>3 DEF Parts
  <1>5. split = ContextWindows(g, context, p)
    BY <1>2 DEF PowerWindowSplit
  <1>6. PICK model, s, cut : AreWindowsOf(g, p, split, context, model, s, cut)
    BY <1>4, <1>5, ContextIsCut
  <1>7. /\ \A i, j \in DOMAIN BlocksOf(split) :
              i < j => AllBefore(g, Range(BlocksOf(split)[i]), Range(BlocksOf(split)[j]))
        /\ KeptRows(split) = Range(context)
        /\ Cardinality(KeptRows(split) \ Range(split.warmup)) <= p.maxRows
    <2>1. p.windows \in Nat \ {0}
      OBVIOUS
    <2> QED
      BY <1>4, <1>6, <2>1, ContextIsHeldOut
  <1>8. context # <<>>
    <2>1. model # <<>> /\ IsRecent(g, context, p.maxRows, model, s)
      BY <1>6 DEF AreWindowsOf
    <2>2. /\ model = SubSeq(context, s + 1, Len(context)) /\ IsEdge(g, context, s)
      BY <2>1 DEF IsRecent
    <2>3. Parts(g, context, s)
      BY <1>4, <2>2, EdgesPart
    <2>4. PICK n \in Nat : n = Len(context) /\ s \in 0..n
      BY <1>4, <2>2 DEF InTimeOrder, IsEdge
    <2>5. Len(model) = n - s /\ model \in Seq(1..Len(g))
      BY <2>2, <2>3, <2>4 DEF Parts, InTimeOrder
    <2>6. Len(model) # 0
      BY <2>1, <2>5
    <2>7. n # 0
      BY <2>4, <2>5, <2>6
    <2>8. Len(<<>>) = 0
      OBVIOUS
    <2> QED
      BY <2>4, <2>7, <2>8
  <1>9. Range(context) = LaterRows(g, Min({g[r] : r \in Range(context)}))
    BY <1>3, <1>8, RecentIsLater
  <1>10. Cardinality(Range(context)) = Len(context)
    BY <1>4, RowsAreCounted
  <1> QED
    BY <1>3, <1>4, <1>7, <1>9, <1>10 DEF AreFutureBlocks

-----------------------------------------------------------------------------
(* The calls and their answers.                                            *)

Tabled == UNION {Table(op) : op \in ValidationOps}
LabelsOf(c) == IF Labelled(c) THEN [DOMAIN c.g -> ClassLabels] ELSE {<<>>}
AnswerOfTable ==
  \E c \in Tabled :
     /\ call = c
     /\ \/ answer = Pending
        \/ \E y \in LabelsOf(c) : answer = [y |-> y, is |-> ValidationAnswer(c, y)]

\* The answer of a validation call is the one that the code computes from its table.
THEOREM AnsweringTables == HeldOutSpec => []AnswerOfTable
  <1>1. HeldOutInit => AnswerOfTable
    BY DEF HeldOutInit, AnswerOfTable, Tabled
  <1>2. AnswerOfTable /\ [Validate]_<<call, answer>> => AnswerOfTable'
    <2> SUFFICES ASSUME AnswerOfTable, [Validate]_<<call, answer>> PROVE AnswerOfTable'
      OBVIOUS
    <2>1. CASE Validate
      <3>1. PICK c \in Tabled : call = c
        BY DEF AnswerOfTable
      <3>2. call' = c /\ answer' \in ValidationAnswers(c)
        BY <2>1, <3>1 DEF Validate
      <3>3. PICK y \in LabelsOf(c) : answer' = [y |-> y, is |-> ValidationAnswer(c, y)]
        BY <3>2 DEF ValidationAnswers, LabelsOf
      <3> QED
        BY <3>2, <3>3 DEF AnswerOfTable
    <2>2. CASE UNCHANGED <<call, answer>>
      BY <2>2 DEF AnswerOfTable
    <2> QED
      BY <2>1, <2>2
  <1> QED
    BY <1>1, <1>2, PTL DEF HeldOutSpec

\* What an answered call was asked, and what it was answered.
LEMMA AnsweredTables ==
  ASSUME AnswerOfTable, NEW op \in ValidationOps, Answered(op)
  PROVE  \E c \in Table(op) :
            /\ call = c /\ c.g \in Seq(Int)
            /\ \E y \in LabelsOf(c) : answer = [y |-> y, is |-> ValidationAnswer(c, y)]
  <1>1. answer # Pending /\ call.op = op
    BY DEF Answered
  <1>2. PICK c \in Tabled : /\ call = c
                            /\ \E y \in LabelsOf(c) : answer = [y |-> y, is |-> ValidationAnswer(c, y)]
    BY <1>1 DEF AnswerOfTable
  <1>3. c \in Table(op)
    BY <1>1, <1>2 DEF Tabled, Table
  <1>4. c.g \in Seq(Int)
    BY <1>3, CallsAreOfTables
  <1> QED
    BY <1>2, <1>3, <1>4

\* The split of a call is at the admissible instant nearest to the share it asks for.
LEMMA SplitIsHeldOut ==
  ASSUME AnswerOfTable, Answered("split")
  PROVE  IF Splitters = {} THEN answer.is = NoSplit
         ELSE \E t \in Splitters :
                 /\ Range(answer.is.past) = Earlier(t) /\ Range(answer.is.future) = Later(t)
                 /\ \A s \in Splitters : Off(call.g, call.p, t) <= Off(call.g, call.p, s)
  <1>1. PICK c \in Table("split") :
           /\ call = c /\ c.g \in Seq(Int)
           /\ \E y \in LabelsOf(c) : answer = [y |-> y, is |-> ValidationAnswer(c, y)]
    BY AnsweredTables DEF ValidationOps
  <1>2. PICK y \in LabelsOf(c) : answer = [y |-> y, is |-> ValidationAnswer(c, y)]
    BY <1>1
  <1>3. PICK g, p : g = c.g /\ p = c.p /\ call.g = g /\ call.p = p
    BY <1>1
  <1>4. c.op = "split"
    BY DEF Table
  <1>5. answer.y = y /\ answer.is = Split(g, y, p) /\ DOMAIN y = DOMAIN g
    <2>1. Labelled(c)
      BY <1>4 DEF Labelled
    <2>2. y \in [DOMAIN c.g -> ClassLabels]
      BY <2>1 DEF LabelsOf
    <2>3. ValidationAnswer(c, y) = Split(c.g, y, c.p)
      BY <1>4 DEF ValidationAnswer
    <2> QED
      BY <1>2, <1>3, <2>2, <2>3
  <1>6. SplitAtNearest(g, y, p, Split(g, y, p))
    <2>1. {p.den, p.minTrain, p.minValid} \subseteq Nat \ {0} /\ p.num \in Nat
      BY <1>1, <1>3, SplitsHaveFloors
    <2>2. p.minTrain \in Nat \ {0} /\ p.minValid \in Nat /\ p.num \in Nat /\ p.den \in Nat \ {0}
      BY <2>1
    <2>3. g \in Seq(Int)
      BY <1>1, <1>3
    <2> QED
      BY <1>5, <2>2, <2>3, SplitsAtNearest
  <1>7. \A t : Earlier(t) = EarlierRows(g, t) /\ Later(t) = LaterRows(g, t)
    BY <1>3 DEF Earlier, Later, EarlierRows, LaterRows
  <1>8. \A rows : ClassesOf(rows) = Classes(y, rows)
    BY <1>5 DEF ClassesOf, Classes
  <1>9. Splitters = Splittable(g, y, p)
    <2>1. Instants = Times(g)
      BY <1>3 DEF Instants, Times
    <2>2. ASSUME NEW t PROVE t \in Splitters <=> t \in Instants /\ MaySplit(g, y, p, t)
      BY <1>3, <1>5, <1>7, <1>8 DEF Splitters, MaySplit
    <2> QED
      BY <2>1, <2>2 DEF Splittable, Splitters
  <1> QED
    BY <1>3, <1>5, <1>6, <1>7, <1>9 DEF SplitAtNearest

\* The blocks of expanding_splits are held out of their past.
LEMMA BlocksAreHeldOut ==
  ASSUME AnswerOfTable, Answered("expanding"), answer.is # <<>>
  PROVE  AreHeldOut(call.g, answer.y, call.p, answer.is)
  <1>1. PICK c \in Table("expanding") :
           /\ call = c /\ c.g \in Seq(Int)
           /\ \E y \in LabelsOf(c) : answer = [y |-> y, is |-> ValidationAnswer(c, y)]
    BY AnsweredTables DEF ValidationOps
  <1>2. PICK y \in LabelsOf(c) : answer = [y |-> y, is |-> ValidationAnswer(c, y)]
    BY <1>1
  <1>3. PICK g, p : g = c.g /\ p = c.p /\ call.g = g /\ call.p = p
    BY <1>1
  <1>4. c.op = "expanding"
    BY DEF Table
  <1>5. answer.y = y /\ answer.is = ExpandingSplits(g, y, p) /\ (p.coverage => DOMAIN y = DOMAIN g)
    <2>1. ValidationAnswer(c, y) = ExpandingSplits(c.g, y, c.p)
      BY <1>4 DEF ValidationAnswer
    <2>2. ASSUME p.coverage PROVE DOMAIN y = DOMAIN g
      <3>1. Labelled(c)
        BY <1>3, <1>4, <2>2 DEF Labelled
      <3>2. y \in [DOMAIN c.g -> ClassLabels]
        BY <3>1 DEF LabelsOf
      <3> QED
        BY <1>3, <3>2
    <2> QED
      BY <1>2, <1>3, <2>1, <2>2
  <1>6. PICK splits : splits = answer.is
    OBVIOUS
  <1>7. AreHeldOut(g, y, p, splits)
    <2>1. {p.folds, p.warmDen, p.minTrain, p.minValid} \subseteq Nat \ {0} /\ p.warmNum \in Nat
      BY <1>1, <1>3, BlocksHaveFloors
    <2>2. /\ p.folds \in Nat /\ p.minValid \in Nat /\ p.minTrain \in Nat
          /\ p.warmNum \in Int /\ p.warmDen \in Nat \ {0}
      BY <2>1
    <2>3. g \in Seq(Int) /\ splits = ExpandingSplits(g, y, p) /\ splits # <<>>
      BY <1>1, <1>3, <1>5, <1>6
    <2>4. p.coverage => DOMAIN y = DOMAIN g
      BY <1>5
    <2> QED
      BY <2>2, <2>3, <2>4, BlocksExpand
  <1> QED
    BY <1>3, <1>5, <1>6, <1>7

\* The windows of a gate are held out of its past.
LEMMA GateIsHeldOut ==
  ASSUME AnswerOfTable, Answered("windows"), answer.is # NoWindows
  PROVE  AreFutureBlocks(call.g, call.p, answer.is)
  <1>1. PICK c \in Table("windows") :
           /\ call = c /\ c.g \in Seq(Int)
           /\ \E y \in LabelsOf(c) : answer = [y |-> y, is |-> ValidationAnswer(c, y)]
    BY AnsweredTables DEF ValidationOps
  <1>2. PICK y \in LabelsOf(c) : answer = [y |-> y, is |-> ValidationAnswer(c, y)]
    BY <1>1
  <1>3. PICK g, p, split : g = c.g /\ p = c.p /\ call.g = g /\ call.p = p /\ split = answer.is
    BY <1>1
  <1>4. c.op = "windows"
    BY DEF Table
  <1>5. split = PowerWindowSplit(g, p)
    <2>1. ValidationAnswer(c, y) = PowerWindowSplit(c.g, c.p)
      BY <1>4 DEF ValidationAnswer
    <2> QED
      BY <1>2, <1>3, <2>1
  <1>6. AreFutureBlocks(g, p, split)
    <2>1. /\ {p.contextRows, p.maxRows, p.minRows, p.trainDen, p.windows} \subseteq Nat \ {0}
          /\ {p.trainNum, p.minPast, p.minFuture, p.minWindow} \subseteq Nat
      BY <1>1, <1>3, WindowsHaveFloors
    <2>2. /\ p.contextRows \in Nat \ {0} /\ p.maxRows \in Nat \ {0} /\ p.windows \in Nat \ {0}
          /\ p.trainDen \in Nat \ {0} /\ p.trainNum \in Nat
      BY <2>1
    <2>3. g \in Seq(Int) /\ split # NoWindows
      BY <1>1, <1>3
    <2> QED
      BY <1>5, <2>2, <2>3, WindowsAreHeldOut
  <1> QED
    BY <1>3, <1>6

\* Whatever the table, its ties and its labels, what is measured lies behind all that may
\* be fitted before it.
THEOREM HoldsOutTheFuture == HeldOutSpec => []HeldOutIsTheFuture
  <1>1. AnswerOfTable => HeldOutIsTheFuture
    <2> SUFFICES ASSUME AnswerOfTable PROVE HeldOutIsTheFuture
      OBVIOUS
    <2>1. ASSUME Answered("split")
          PROVE  LET past == Range(answer.is.past)  future == Range(answer.is.future)
                     off(t) == Distance(Cardinality(Earlier(t)),
                                 Rounded((call.p.den - call.p.num) * Len(call.g), call.p.den))
                 IN  IF Splitters = {} THEN answer.is = NoSplit
                     ELSE \E t \in Splitters :
                             /\ past = Earlier(t) /\ future = Later(t)
                             /\ \A s \in Splitters : off(t) <= off(s)
      <3>1. \A t : Earlier(t) = EarlierRows(call.g, t)
        BY DEF Earlier, EarlierRows
      <3>2. \A t : Off(call.g, call.p, t) = Distance(Cardinality(Earlier(t)),
                                 Rounded((call.p.den - call.p.num) * Len(call.g), call.p.den))
        BY <3>1 DEF Off, Target
      <3> QED
        BY <2>1, <3>2, SplitIsHeldOut
    <2>2. ASSUME Answered("expanding"), NEW i \in DOMAIN answer.is
          PROVE  /\ StrictlyBefore(answer.is[i].past, answer.is[i].future)
                 /\ Len(answer.is[i].past) >= call.p.minTrain
                 /\ Len(answer.is[i].future) >= call.p.minValid
                 /\ call.p.coverage => ClassesOf(Range(answer.is[i].past)) = ClassesOf(DOMAIN call.g)
                 /\ Range(answer.is[i].past) \cup Range(answer.is[i].future) =
                       IF i = Len(answer.is) THEN DOMAIN call.g ELSE Range(answer.is[i + 1].past)
      <3>1. answer.is # <<>>
        BY <2>2
      <3>2. AreHeldOut(call.g, answer.y, call.p, answer.is)
        BY <2>2, <3>1, BlocksAreHeldOut
      <3>3. \A rows : ClassesOf(rows) = Classes(answer.y, rows)
        BY DEF ClassesOf, Classes
      <3> QED
        BY <2>2, <3>2, <3>3 DEF AreHeldOut, AllBefore, StrictlyBefore
    <2>3. ASSUME Answered("windows"), answer.is # NoWindows
          PROVE  LET blocks == <<answer.is.warmup, answer.is.past>> \o answer.is.windows
                     kept == UNION {Range(blocks[i]) : i \in DOMAIN blocks}
                 IN  /\ \A i, j \in DOMAIN blocks : i < j => StrictlyBefore(blocks[i], blocks[j])
                     /\ kept = Later(Min({call.g[r] : r \in kept}))
                     /\ Cardinality(kept) <= call.p.contextRows
                     /\ Cardinality(kept \ Range(answer.is.warmup)) <= call.p.maxRows
      <3>1. AreFutureBlocks(call.g, call.p, answer.is)
        BY <2>3, GateIsHeldOut
      <3>2. \A t : Later(t) = LaterRows(call.g, t)
        BY DEF Earlier, Later, EarlierRows, LaterRows
      <3>3. \A a, b : StrictlyBefore(a, b) <=> AllBefore(call.g, Range(a), Range(b))
        BY DEF StrictlyBefore, AllBefore
      <3> QED
        BY <3>1, <3>2, <3>3 DEF AreFutureBlocks, BlocksOf, KeptRows
    <2> QED
      BY <2>1, <2>2, <2>3 DEF HeldOutIsTheFuture
  <1> QED
    BY <1>1, AnsweringTables, PTL

-----------------------------------------------------------------------------
(* The rows that are kept of a table that is too large.                    *)

FittingTimes(g, cap) == {t \in Times(g) : Cardinality(LaterRows(g, t)) <= cap}

\* The newest rows up to a cap have every time whose rows and all later ones fit.
LEMMA RecentIsFitting ==
  ASSUME NEW g \in Seq(Int), NEW cap \in Nat, NEW recent, NEW s,
         IsRecent(g, Order(g), cap, recent, s)
  PROVE  FittingTimes(g, cap) = Groups(g, recent)
  <1>1. PICK o : o = Order(g)
    OBVIOUS
  <1>2. PICK n \in Nat : n = Len(g) /\ DOMAIN g = 1..n
    OBVIOUS
  <1>3. /\ InTimeOrder(g, o) /\ Len(o) = n
        /\ \A i \in 1..n : o[i] \in 1..n
        /\ \A r \in 1..n : g[r] \in Int
    BY <1>1, <1>2, OrderIsSorted, OrderSorts
  <1>4. /\ IsEdge(g, o, s) /\ s \in 0..n /\ n - s <= cap
        /\ \A k \in 0..n : IsEdge(g, o, k) /\ n - k <= cap => s <= k
        /\ recent = SubSeq(o, s + 1, n)
    BY <1>1, <1>3 DEF IsRecent, IsEdge
  <1>5. Range(recent) = {o[i] : i \in s + 1..n}
    <2>1. s + 1 \in 1..Len(o) + 1 /\ n \in (s + 1) - 1..Len(o)
      BY <1>3, <1>4
    <2>2. IsSlice(g, o, s + 1, n, recent)
      BY <1>3, <1>4, <2>1, SlicesAreSorted
    <2> QED
      BY <2>2 DEF IsSlice
  <1>6. ASSUME NEW r \in 1..n PROVE \E i \in 1..n : o[i] = r
    <2>1. Place(g, r) \in 1..n /\ o[Place(g, r)] = r
      BY <1>1, <1>2, OrderIsSorted
    <2> QED
      BY <2>1
  <1>7. ASSUME NEW i \in 1..n PROVE Cardinality(LaterRows(g, g[o[i]])) <= cap <=> i \in s + 1..n
    <2>1. PICK t \in Int : t = g[o[i]]
      BY <1>3
    <2>2. PICK k : k = Before(TimesOf(g, o), t)
      OBVIOUS
    <2>3. AreEarlier(g, o, t, k)
      BY <1>3, <2>2, EarlierRowsFirst
    <2>4. IsCutAt(g, t, k)
      BY <1>1, <2>3, CutsAtInstants
    <2>5. Cardinality(LaterRows(g, t)) = n - k /\ k \in 0..n /\ IsEdge(g, o, k)
      BY <1>1, <1>2, <2>4 DEF IsCutAt
    <2>6. ~(i <= k)
      <3>1. i <= k <=> g[o[i]] < t
        BY <1>3, <2>3 DEF AreEarlier
      <3> QED
        BY <2>1, <3>1
    <2>7. n - k <= cap => i \in s + 1..n
      <3>1. n - k <= cap => s <= k
        BY <1>4, <2>5
      <3> QED
        BY <1>4, <2>5, <2>6, <3>1
    <2>8. i \in s + 1..n => n - k <= cap
      <3>1. CASE i \in s + 1..n /\ k < s
        <4>1. k + 1 \in 1..s /\ k + 1 \in 1..n /\ ~(k + 1 <= k)
          BY <1>4, <2>5, <3>1
        <4>2. g[o[k + 1]] < g[o[i]]
          BY <1>3, <1>4, <3>1, <4>1 DEF IsEdge
        <4>3. k + 1 <= k
          BY <1>3, <2>1, <2>3, <4>1, <4>2 DEF AreEarlier
        <4> QED
          BY <4>1, <4>3
      <3>2. CASE ~(k < s)
        BY <1>4, <2>5, <3>2
      <3> QED
        BY <3>1, <3>2
    <2> QED
      BY <2>1, <2>5, <2>7, <2>8
  <1>8. ASSUME NEW t \in FittingTimes(g, cap) PROVE t \in Groups(g, recent)
    <2>1. PICK r \in 1..n : t = g[r]
      BY <1>2 DEF FittingTimes, Times
    <2>2. PICK i \in 1..n : o[i] = r
      BY <1>6
    <2>3. i \in s + 1..n
      BY <1>7, <2>1, <2>2 DEF FittingTimes
    <2> QED
      BY <1>5, <2>1, <2>2, <2>3 DEF Groups
  <1>9. ASSUME NEW t \in Groups(g, recent) PROVE t \in FittingTimes(g, cap)
    <2>1. PICK i \in s + 1..n : t = g[o[i]]
      BY <1>5 DEF Groups
    <2>2. i \in 1..n
      BY <1>4
    <2>3. Cardinality(LaterRows(g, t)) <= cap
      BY <1>7, <2>1, <2>2
    <2>4. t \in Times(g)
      BY <1>2, <1>3, <2>1, <2>2 DEF Times
    <2> QED
      BY <2>3, <2>4 DEF FittingTimes
  <1> QED
    BY <1>8, <1>9

\* The rows that the newest whole times leave are those from the least of them on.
LEMMA RecentIsLongest ==
  ASSUME NEW g \in Seq(Int), NEW cap \in Nat \ {0}, NEW recent, recent = Recent(g, Order(g), cap)
  PROVE  /\ InTimeOrder(g, recent) /\ Len(recent) <= cap
         /\ Groups(g, recent) = FittingTimes(g, cap)
         /\ Range(recent) = IF FittingTimes(g, cap) = {} THEN {}
                            ELSE LaterRows(g, Min(FittingTimes(g, cap)))
  <1>1. PICK o : o = Order(g) /\ InTimeOrder(g, o)
    BY OrderSorts
  <1>2. PICK s : IsRecent(g, o, cap, recent, s)
    BY <1>1, RecentIsBehindEdge
  <1>3. Parts(g, o, s)
    BY <1>1, <1>2, EdgesPart DEF IsRecent
  <1>4. recent = SubSeq(o, s + 1, Len(o)) /\ Len(o) - s <= cap /\ IsEdge(g, o, s)
    BY <1>2 DEF IsRecent
  <1>5. InTimeOrder(g, recent) /\ Len(recent) <= cap
    BY <1>3, <1>4 DEF Parts
  <1>6. Groups(g, recent) = FittingTimes(g, cap)
    BY <1>1, <1>2, RecentIsFitting
  <1>7. CASE recent = <<>>
    <2>1. Range(recent) = {} /\ Groups(g, recent) = {}
      BY <1>7 DEF Range, Groups
    <2> QED
      BY <1>5, <1>6, <2>1
  <1>8. CASE recent # <<>>
    <2>1. Range(recent) = LaterRows(g, Min(Groups(g, recent)))
      BY <1>1, <1>4, <1>8, RecentIsLater DEF Groups
    <2>2. Groups(g, recent) # {}
      <3>1. PICK n \in Nat : n = Len(recent) /\ DOMAIN recent = 1..n /\ n # 0
        BY <1>5, <1>8 DEF InTimeOrder
      <3>2. 1 \in DOMAIN recent
        BY <3>1
      <3> QED
        BY <3>2 DEF Groups, Range
    <2> QED
      BY <1>5, <1>6, <2>1, <2>2
  <1> QED
    BY <1>7, <1>8

\* A quotient, bounded by products.
LEMMA QuotientBounds ==
  ASSUME NEW a \in Nat, NEW d \in Nat \ {0}
  PROVE  a \div d \in Nat /\ d * (a \div d) <= a /\ a < d * (a \div d + 1) /\ a % d \in 0..d - 1
         /\ a = d * (a \div d) + (a % d)
  OBVIOUS

\* A greater factor gives a greater product.
LEMMA ProductsGrow ==
  ASSUME NEW d \in Nat, NEW a \in Int, NEW b \in Int, a <= b
  PROVE  d * a <= d * b
  OBVIOUS

\* Dividends that are a divisor apart have different quotients.
LEMMA QuotientsStep ==
  ASSUME NEW a \in Nat, NEW b \in Nat, NEW d \in Nat \ {0}, a + d <= b
  PROVE  a \div d < b \div d
  <1>1. PICK u, v : u = a \div d /\ v = b \div d
    OBVIOUS
  <1>2. u \in Nat /\ v \in Nat /\ d * u <= a /\ b < d * (v + 1)
    BY <1>1, QuotientBounds
  <1>3. SUFFICES ASSUME v <= u PROVE FALSE
    BY <1>1, <1>2
  <1>4. d * (v + 1) <= d * (u + 1)
    <2>1. v + 1 <= u + 1 /\ v + 1 \in Int /\ u + 1 \in Int
      BY <1>2, <1>3
    <2> QED
      BY <2>1, ProductsGrow
  <1>5. d * (u + 1) = d * u + d
    BY <1>2
  <1>6. d * u \in Int /\ d * (v + 1) \in Int /\ d * (u + 1) \in Int
    BY <1>2
  <1> QED
    BY <1>2, <1>4, <1>5, <1>6

\* An even sample of positions.
IsSpread(n, k, a) ==
  /\ a \in [1..k -> 1..n] /\ \A i, j \in 1..k : i < j => a[i] < a[j]

\* The positions of an even sample are different and lie in the range.
LEMMA SpreadsAreDistinct ==
  ASSUME NEW n \in Nat, NEW k \in 1..n
  PROVE  IsSpread(n, k, Spread(n, k))
  <1>1. CASE k = 1
    <2>1. Spread(n, k) = <<1>>
      BY <1>1 DEF Spread
    <2>2. <<1>> \in [1..1 -> 1..n] /\ \A i, j \in 1..1 : ~(i < j)
      OBVIOUS
    <2> QED
      BY <1>1, <2>1, <2>2 DEF IsSpread
  <1>2. CASE k # 1
    <2>1. PICK d \in Nat \ {0}, m \in Nat : d = k - 1 /\ m = n - 1 /\ d <= m
      BY <1>2
    <2>2. PICK a : a = [i \in 1..k |-> 1 + ((i - 1) * m) \div d] /\ a = Spread(n, k)
      BY <1>2, <2>1 DEF Spread
    <2>3. ASSUME NEW i \in 1..k
          PROVE  i - 1 \in 0..d /\ (i - 1) * m \in Nat /\ m * (i - 1) = (i - 1) * m
      BY <2>1
    <2>4. ASSUME NEW i \in 1..k PROVE ((i - 1) * m) \div d \in 0..m
      <3>1. PICK e : e = (i - 1) * m
        OBVIOUS
      <3>2. e \in Nat /\ e = m * (i - 1) /\ i - 1 \in 0..d
        BY <2>3, <3>1
      <3>3. e <= m * d
        BY <3>2, ProductsGrow
      <3>4. PICK q : q = e \div d
        OBVIOUS
      <3>5. q \in Nat /\ d * q <= e
        BY <3>2, <3>4, QuotientBounds
      <3>6. ~(m + 1 <= q)
        <4>1. ASSUME m + 1 <= q PROVE FALSE
          <5>1. d * (m + 1) <= d * q
            BY <3>5, <4>1, ProductsGrow
          <5>2. d * (m + 1) = d * m + d /\ d * m = m * d /\ d * m \in Nat /\ d * q \in Nat
            BY <3>5
          <5> QED
            BY <3>2, <3>3, <3>5, <5>1, <5>2
        <4> QED
          BY <4>1
      <3>7. q \in 0..m
        BY <3>5, <3>6
      <3> QED
        BY <3>1, <3>4, <3>7
    <2>5. \A i \in 1..k : a[i] \in 1..n
      <3> TAKE i \in 1..k
      <3>1. PICK q \in 0..m : q = ((i - 1) * m) \div d
        BY <2>4
      <3>2. a[i] = 1 + q
        BY <2>2, <3>1
      <3> QED
        BY <2>1, <3>2
    <2>6. ASSUME NEW i \in 1..k, NEW j \in 1..k, i < j PROVE a[i] < a[j]
      <3>1. PICK e, f : e = (i - 1) * m /\ f = (j - 1) * m
        OBVIOUS
      <3>2. e \in Nat /\ f \in Nat /\ e = m * (i - 1) /\ f = m * (j - 1)
        BY <2>3, <3>1
      <3>3. m * i <= m * (j - 1)
        <4>1. i <= j - 1 /\ i \in Int /\ j - 1 \in Int
          BY <2>6
        <4> QED
          BY <4>1, ProductsGrow
      <3>4. m * i = e + m
        BY <3>2
      <3>5. e + d <= f
        BY <2>1, <3>2, <3>3, <3>4
      <3>6. e \div d < f \div d
        BY <3>2, <3>5, QuotientsStep
      <3>7. PICK q \in 0..m, r \in 0..m : q = e \div d /\ r = f \div d
        BY <2>4, <3>1
      <3>8. a[i] = 1 + q /\ a[j] = 1 + r
        BY <2>2, <3>1, <3>7
      <3> QED
        BY <3>6, <3>7, <3>8
    <2>7. a \in [1..k -> 1..n]
      <3>1. a = [i \in 1..k |-> a[i]]
        BY <2>2
      <3> QED
        BY <2>5, <3>1
    <2> QED
      BY <2>2, <2>6, <2>7 DEF IsSpread
  <1> QED
    BY <1>1, <1>2

\* Rows of a sample are in time order as the rows they are taken from.
LEMMA SamplesAreSorted ==
  ASSUME NEW g \in Seq(Int), NEW rows, InTimeOrder(g, rows), NEW k \in Nat,
         NEW a, IsSpread(Len(rows), k, a), NEW sample, sample = [j \in DOMAIN a |-> rows[a[j]]]
  PROVE  InTimeOrder(g, sample) /\ Len(sample) = k /\ Range(sample) \subseteq Range(rows)
  <1>1. PICK n \in Nat : n = Len(rows) /\ DOMAIN rows = 1..n /\ \A i \in 1..n : rows[i] \in 1..Len(g)
    BY DEF InTimeOrder
  <1>2. DOMAIN a = 1..k /\ (\A j \in 1..k : a[j] \in 1..n) /\ \A i, j \in 1..k : i < j => a[i] < a[j]
    BY <1>1 DEF IsSpread
  <1>3. \A j \in 1..k : sample[j] = rows[a[j]]
    BY <1>2
  <1>4. DOMAIN sample = 1..k /\ \A j \in 1..k : sample[j] \in 1..Len(g)
    BY <1>1, <1>2, <1>3
  <1>5. sample \in [1..k -> 1..Len(g)]
    <2>1. sample = [j \in 1..k |-> sample[j]]
      BY <1>2
    <2> QED
      BY <1>4, <2>1
  <1>6. sample \in Seq(1..Len(g)) /\ Len(sample) = k
    BY <1>5, ListsAreSequences
  <1>7. ASSUME NEW i \in 1..k, NEW j \in 1..k, i < j
        PROVE  sample[i] # sample[j] /\ g[sample[i]] <= g[sample[j]]
    <2>1. a[i] < a[j] /\ a[i] \in 1..n /\ a[j] \in 1..n
      BY <1>2, <1>7
    <2>2. rows[a[i]] # rows[a[j]] /\ g[rows[a[i]]] <= g[rows[a[j]]]
      BY <1>1, <2>1 DEF InTimeOrder
    <2> QED
      BY <1>3, <2>2
  <1>8. Range(sample) \subseteq Range(rows)
    BY <1>1, <1>2, <1>3, <1>4 DEF Range
  <1> QED
    BY <1>6, <1>7, <1>8 DEF InTimeOrder

\* Joining sequences one after the other.
AreJoinedTo(S, n, seqs, f) ==
  /\ f \in [1..n -> Seq(S)] /\ f[1] = seqs[1]
  /\ \A i \in 2..n : f[i] = f[i - 1] \o seqs[i]

\* What FlattenSeq returns: the last of the joined sequences.
LEMMA FlattensByJoining ==
  ASSUME NEW S, NEW n \in Nat \ {0}, NEW seqs \in [1..n -> Seq(S)]
  PROVE  \E f : AreJoinedTo(S, n, seqs, f) /\ FlattenSeq(seqs) = f[n]
  <1>1. PICK D : D = Seq(S)
    OBVIOUS
  <1>2. PICK m \in Nat : m = n - 1 /\ m + 1 = n
    OBVIOUS
  <1>3. PICK next : next = [e \in (1..m) \X D |-> e[2] \o seqs[e[1] + 1]]
    OBVIOUS
  <1>4. next \in [(1..m) \X D -> D]
    <2>1. ASSUME NEW k \in 1..m, NEW s \in D PROVE s \o seqs[k + 1] \in D
      <3>1. k + 1 \in 1..n
        BY <1>2
      <3>2. s \in Seq(S) /\ seqs[k + 1] \in Seq(S)
        BY <1>1, <3>1
      <3> QED
        BY <1>1, <3>2, Joins
    <2>2. ASSUME NEW e \in (1..m) \X D PROVE e[2] \o seqs[e[1] + 1] \in D
      BY <2>1
    <2> QED
      BY <1>3, <2>2
  <1>5. PICK h : Follows(h, m, D, seqs[1], next)
    <2>1. 1 \in 1..n
      OBVIOUS
    <2>2. seqs[1] \in D
      BY <1>1, <2>1
    <2> QED
      BY <1>4, <2>2, RecursionExists
  <1>6. h \in [0..m -> D] /\ h[0] = seqs[1] /\ \A k \in 1..m : h[k] = next[<<k, h[k - 1]>>]
    BY <1>5 DEF Follows
  <1>7. \A k \in 1..m : h[k] = h[k - 1] \o seqs[k + 1]
    <2> TAKE k \in 1..m
    <2>1. k - 1 \in 0..m
      OBVIOUS
    <2>2. h[k - 1] \in D
      BY <1>6, <2>1
    <2> QED
      BY <1>3, <1>6, <2>2
  <1> DEFINE Step(c, i) == IF i = 1 THEN seqs[i] ELSE c[i - 1] \o seqs[i]
             Solves(c) == c = [i \in 1..n |-> Step(c, i)]
  <1>8. PICK f : f = [i \in 1..n |-> h[i - 1]]
    OBVIOUS
  <1>9. ASSUME NEW i \in 1..n PROVE f[i] \in D /\ f[i] = Step(f, i)
    <2>1. i - 1 \in 0..m
      BY <1>2
    <2>2. f[i] = h[i - 1] /\ f[i] \in D
      BY <1>6, <1>8, <2>1
    <2>3. CASE i = 1
      BY <1>6, <2>2, <2>3
    <2>4. CASE i # 1
      <3>1. i - 1 \in 1..m /\ i - 1 \in 1..n /\ (i - 1) + 1 = i
        BY <1>2, <2>4
      <3>2. h[i - 1] = h[(i - 1) - 1] \o seqs[i] /\ f[i - 1] = h[(i - 1) - 1]
        BY <1>7, <1>8, <3>1
      <3> QED
        BY <2>2, <2>4, <3>2
    <2> QED
      BY <2>3, <2>4
  <1>10. Solves(f)
    <2> DEFINE Next(i) == Step(f, i)
    <2>1. \A i \in 1..n : f[i] = Next(i)
      BY <1>9
    <2>2. f = [i \in 1..n |-> f[i]]
      BY <1>8
    <2>3. f = [i \in 1..n |-> Next(i)]
      <3> HIDE DEF Next
      <3> QED
        BY <2>1, <2>2
    <2> QED
      BY <2>3
  <1>11. PICK c : c = CHOOSE x : Solves(x)
    OBVIOUS
  <1>12. Solves(c)
    <2> HIDE DEF Solves
    <2> QED
      BY <1>10, <1>11
  <1>13. FlattenSeq(seqs) = c[n]
    <2>1. Len(seqs) = n /\ ~(n = 0)
      BY ListsAreSequences
    <2>2. FlattenSeq(seqs) = (CHOOSE x : x = [i \in 1..n |-> IF i = 1 THEN seqs[i] ELSE x[i - 1] \o seqs[i]])[n]
      BY <2>1 DEF FlattenSeq
    <2> QED
      BY <1>11, <2>2
  <1>14. \A i \in 1..n : c[i] = Step(c, i)
    BY <1>12
  <1>15. PICK bad : bad = {i \in 1..n : c[i] # f[i]}
    OBVIOUS
  <1>16. bad = {}
    <2> SUFFICES ASSUME bad # {} PROVE FALSE
      OBVIOUS
    <2>1. PICK i \in bad : \A j \in bad : i <= j
      <3>1. bad \in SUBSET Nat
        BY <1>15
      <3> QED
        BY <3>1, LeastNatural
    <2>2. i \in 1..n /\ c[i] # f[i]
      BY <1>15, <2>1
    <2>3. i # 1
      BY <1>9, <1>14, <2>2
    <2>4. i - 1 \in 1..n /\ ~(i <= i - 1)
      BY <2>2, <2>3
    <2>5. c[i - 1] = f[i - 1]
      BY <1>15, <2>1, <2>4
    <2>6. c[i] = c[i - 1] \o seqs[i] /\ f[i] = f[i - 1] \o seqs[i]
      BY <1>9, <1>14, <2>2, <2>3
    <2> QED
      BY <2>2, <2>5, <2>6
  <1>17. FlattenSeq(seqs) = f[n]
    <2>1. n \in 1..n
      OBVIOUS
    <2> QED
      BY <1>13, <1>15, <1>16, <2>1
  <1>18. AreJoinedTo(S, n, seqs, f)
    <2>1. f \in [1..n -> Seq(S)]
      <3>1. f = [i \in 1..n |-> f[i]]
        BY <1>8
      <3> QED
        BY <1>1, <1>9, <3>1
    <2>2. f[1] = seqs[1]
      <3>1. 1 \in 1..n
        OBVIOUS
      <3> QED
        BY <1>9, <3>1
    <2>3. \A i \in 2..n : f[i] = f[i - 1] \o seqs[i]
      <3> TAKE i \in 2..n
      <3>1. i \in 1..n /\ i # 1
        OBVIOUS
      <3> QED
        BY <1>9, <3>1
    <2> QED
      BY <2>1, <2>2, <2>3 DEF AreJoinedTo
  <1> QED
    BY <1>17, <1>18

\* What rows are when others that are later are joined to them.
AreRowsJoined(g, a, b, o) ==
  /\ InTimeOrder(g, o) /\ Len(o) = Len(a) + Len(b) /\ Range(o) = Range(a) \cup Range(b)

\* Joining later rows to earlier ones keeps the time order and both sets of rows.
LEMMA JoinedInOrder ==
  ASSUME NEW g \in Seq(Int), NEW a, InTimeOrder(g, a), NEW b, InTimeOrder(g, b),
         AllBefore(g, Range(a), Range(b)), NEW o, o = a \o b
  PROVE  AreRowsJoined(g, a, b, o)
  <1>1. PICK S : S = 1..Len(g)
    OBVIOUS
  <1>2. a \in Seq(S) /\ b \in Seq(S)
    BY <1>1 DEF InTimeOrder
  <1>3. PICK n \in Nat, m \in Nat : n = Len(a) /\ m = Len(b) /\ DOMAIN a = 1..n /\ DOMAIN b = 1..m
    BY <1>2
  <1>4. /\ o \in Seq(S) /\ Len(o) = n + m
        /\ \A i \in 1..n : o[i] = a[i]
        /\ \A i \in 1..m : o[n + i] = b[i]
    BY <1>2, <1>3, Joins
  <1>5. \A r \in S : g[r] \in Int
    BY <1>1
  <1>6. \A i \in 1..n : a[i] \in S /\ a[i] \in Range(a)
    <2>1. \A i \in 1..n : a[i] \in S
      BY <1>2, <1>3
    <2>2. \A i \in 1..n : a[i] \in Range(a)
      BY <1>3 DEF Range
    <2> QED
      BY <2>1, <2>2
  <1>7. \A i \in 1..m : b[i] \in S /\ b[i] \in Range(b)
    <2>1. \A i \in 1..m : b[i] \in S
      BY <1>2, <1>3
    <2>2. \A i \in 1..m : b[i] \in Range(b)
      BY <1>3 DEF Range
    <2> QED
      BY <2>1, <2>2
  <1>8. \A i \in 1..n + m : i \in 1..n \/ (i - n \in 1..m /\ o[i] = b[i - n])
    <2> TAKE i \in 1..n + m
    <2>1. CASE i \in 1..n
      BY <2>1
    <2>2. CASE i \notin 1..n
      <3>1. i - n \in 1..m /\ n + (i - n) = i
        BY <2>2
      <3> QED
        BY <1>4, <3>1
    <2> QED
      BY <2>1, <2>2
  <1>9. ASSUME NEW i \in 1..n + m, NEW j \in 1..n + m, i < j
        PROVE  o[i] # o[j] /\ g[o[i]] <= g[o[j]]
    <2>1. CASE i \in 1..n /\ j \in 1..n
      <3>1. o[i] = a[i] /\ o[j] = a[j]
        BY <1>4, <2>1
      <3>2. a[i] # a[j] /\ g[a[i]] <= g[a[j]]
        BY <1>3, <1>9, <2>1 DEF InTimeOrder
      <3> QED
        BY <3>1, <3>2
    <2>2. CASE i \in 1..n /\ j \notin 1..n
      <3>1. o[i] = a[i] /\ j - n \in 1..m /\ o[j] = b[j - n]
        BY <1>4, <1>8, <2>2
      <3>2. g[a[i]] < g[b[j - n]]
        BY <1>6, <1>7, <2>2, <3>1 DEF AllBefore
      <3>3. PICK x \in Int, y \in Int : x = g[o[i]] /\ y = g[o[j]] /\ x < y
        <4>1. o[i] \in S /\ o[j] \in S
          BY <1>6, <1>7, <2>2, <3>1
        <4>2. g[o[i]] < g[o[j]]
          BY <3>1, <3>2
        <4>3. g[o[i]] \in Int /\ g[o[j]] \in Int
          BY <1>5, <4>1
        <4> QED
          BY <4>2, <4>3
      <3>4. x <= y /\ x # y
        <4>1. x < y
          BY <3>3
        <4> QED
          BY <4>1
      <3>5. g[o[i]] <= g[o[j]] /\ g[o[i]] # g[o[j]]
        BY <3>3, <3>4
      <3> QED
        BY <3>5
    <2>3. CASE i \notin 1..n /\ j \notin 1..n
      <3>1. i - n \in 1..m /\ j - n \in 1..m /\ o[i] = b[i - n] /\ o[j] = b[j - n]
        BY <1>8, <2>3
      <3>2. i - n < j - n
        BY <1>9
      <3>3. b[i - n] # b[j - n] /\ g[b[i - n]] <= g[b[j - n]]
        BY <1>3, <3>1, <3>2 DEF InTimeOrder
      <3> QED
        BY <3>1, <3>3
    <2>4. ~(i \notin 1..n /\ j \in 1..n)
      BY <1>9
    <2> QED
      BY <2>1, <2>2, <2>3, <2>4
  <1>10. InTimeOrder(g, o)
    BY <1>1, <1>4, <1>9 DEF InTimeOrder
  <1>11. Range(o) = Range(a) \cup Range(b)
    <2>1. DOMAIN o = 1..n + m
      BY <1>4
    <2>2. \A i \in 1..n + m : o[i] \in Range(a) \cup Range(b)
      BY <1>4, <1>6, <1>7, <1>8
    <2>3. \A i \in 1..n : i \in 1..n + m
      OBVIOUS
    <2>4. \A i \in 1..m : n + i \in 1..n + m
      OBVIOUS
    <2>5. Range(a) \subseteq Range(o)
      BY <1>3, <1>4, <2>1, <2>3 DEF Range
    <2>6. Range(b) \subseteq Range(o)
      <3>1. \A i \in 1..m : o[n + i] \in Range(o)
        BY <2>1, <2>4 DEF Range
      <3>2. \A i \in 1..m : b[i] \in Range(o)
        BY <1>4, <3>1
      <3> QED
        BY <1>3, <3>2 DEF Range
    <2>7. Range(o) \subseteq Range(a) \cup Range(b)
      BY <2>1, <2>2 DEF Range
    <2> QED
      BY <2>5, <2>6, <2>7
  <1> QED
    BY <1>3, <1>4, <1>10, <1>11 DEF AreRowsJoined

\* Samples of rising times, each no larger than its quota.
AreSamples(g, m, chosen, quota, samples) ==
  /\ chosen \in [1..m -> Int] /\ quota \in [1..m -> Nat] /\ samples \in [1..m -> Seq(1..Len(g))]
  /\ \A i, j \in 1..m : i < j => chosen[i] < chosen[j]
  /\ \A i \in 1..m : /\ InTimeOrder(g, samples[i]) /\ Len(samples[i]) <= quota[i]
                      /\ Groups(g, samples[i]) = {chosen[i]}

\* Joined, they are in time order, show each of the times, and keep within the quotas.
AreJoinedSamples(g, m, chosen, total, rows) ==
  /\ InTimeOrder(g, rows) /\ Len(rows) <= total[m]
  /\ Groups(g, rows) = {chosen[i] : i \in 1..m}

\* Samples of ascending times, flattened, are in time order and show every time.
LEMMA SamplesJoin ==
  ASSUME NEW g \in Seq(Int), NEW m \in Nat \ {0}, NEW chosen, NEW quota, NEW samples,
         AreSamples(g, m, chosen, quota, samples),
         NEW total \in [1..m -> Nat], quota[1] <= total[1],
         \A i \in 2..m : total[i - 1] + quota[i] <= total[i]
  PROVE  AreJoinedSamples(g, m, chosen, total, FlattenSeq(samples))
  <1>1. PICK S : S = 1..Len(g)
    OBVIOUS
  <1>2. samples \in [1..m -> Seq(S)]
    BY <1>1 DEF AreSamples
  <1>3. PICK f : AreJoinedTo(S, m, samples, f) /\ FlattenSeq(samples) = f[m]
    BY <1>2, FlattensByJoining
  <1> DEFINE Chosen(i) == {chosen[j] : j \in 1..i}
             Good(i) == InTimeOrder(g, f[i]) /\ Len(f[i]) <= total[i] /\ Groups(g, f[i]) = Chosen(i)
  <1>4. Good(1)
    <2>1. 1 \in 1..m
      OBVIOUS
    <2>2. f[1] = samples[1]
      BY <1>3 DEF AreJoinedTo
    <2>3. InTimeOrder(g, f[1]) /\ Len(f[1]) <= quota[1] /\ Groups(g, f[1]) = {chosen[1]} /\ quota[1] \in Nat
      BY <2>1, <2>2 DEF AreSamples
    <2>4. PICK l \in Nat : l = Len(f[1])
      BY <2>3 DEF InTimeOrder
    <2>5. Len(f[1]) <= total[1]
      BY <2>1, <2>3, <2>4
    <2>6. Chosen(1) = {chosen[1]}
      <3>1. 1..1 = {1}
        OBVIOUS
      <3> QED
        BY <3>1
    <2> QED
      BY <2>3, <2>5, <2>6
  <1>5. ASSUME NEW i \in 2..m, Good(i - 1) PROVE Good(i)
    <2>1. i \in 1..m /\ i - 1 \in 1..m
      OBVIOUS
    <2>2. PICK a, b, o : a = f[i - 1] /\ b = samples[i] /\ o = f[i] /\ o = a \o b
      <3>1. f[i] = f[i - 1] \o samples[i]
        BY <1>3 DEF AreJoinedTo
      <3> QED
        BY <3>1
    <2>3. InTimeOrder(g, a) /\ Len(a) <= total[i - 1] /\ Groups(g, a) = Chosen(i - 1)
      BY <1>5, <2>2
    <2>4. InTimeOrder(g, b) /\ Len(b) <= quota[i] /\ Groups(g, b) = {chosen[i]} /\ quota[i] \in Nat
      BY <2>1, <2>2 DEF AreSamples
    <2>5. AllBefore(g, Range(a), Range(b))
      <3>1. ASSUME NEW r \in Range(a), NEW q \in Range(b) PROVE g[r] < g[q]
        <4>1. g[r] \in Chosen(i - 1)
          BY <2>3 DEF Groups
        <4>2. g[q] = chosen[i]
          BY <2>4 DEF Groups
        <4>3. PICK j \in 1..i - 1 : g[r] = chosen[j]
          BY <4>1
        <4>4. j \in 1..m /\ j < i
          OBVIOUS
        <4>5. chosen[j] < chosen[i]
          BY <2>1, <4>4 DEF AreSamples
        <4> QED
          BY <4>2, <4>3, <4>5
      <3> QED
        BY <3>1 DEF AllBefore
    <2>6. AreRowsJoined(g, a, b, o)
      BY <2>2, <2>3, <2>4, <2>5, JoinedInOrder
    <2>7. InTimeOrder(g, o) /\ Len(o) = Len(a) + Len(b) /\ Range(o) = Range(a) \cup Range(b)
      BY <2>6 DEF AreRowsJoined
    <2>8. Len(o) <= total[i]
      <3>1. PICK x \in Nat, y \in Nat, z \in Nat, t \in Nat, u \in Nat :
               x = Len(a) /\ y = Len(b) /\ z = quota[i] /\ t = total[i - 1] /\ u = total[i]
        <4>1. Len(a) \in Nat /\ Len(b) \in Nat
          BY <2>3, <2>4 DEF InTimeOrder
        <4>2. total[i - 1] \in Nat /\ total[i] \in Nat
          BY <2>1
        <4> QED
          BY <2>4, <4>1, <4>2
      <3>2. x <= t /\ y <= z /\ t + z <= u
        BY <2>3, <2>4, <3>1
      <3>3. x + y <= u
        BY <3>2
      <3> QED
        BY <2>7, <3>1, <3>3
    <2>9. Groups(g, o) = Chosen(i)
      <3>1. Groups(g, o) = Groups(g, a) \cup Groups(g, b)
        BY <2>7 DEF Groups
      <3>2. 1..i = (1..i - 1) \cup {i}
        OBVIOUS
      <3>3. Chosen(i) = Chosen(i - 1) \cup {chosen[i]}
        BY <3>2
      <3> QED
        BY <2>3, <2>4, <3>1, <3>3
    <2> QED
      BY <2>2, <2>7, <2>8, <2>9
  <1>6. PICK bad : bad = {i \in 1..m : ~Good(i)}
    OBVIOUS
  <1>7. bad = {}
    <2> HIDE DEF Good
    <2> SUFFICES ASSUME bad # {} PROVE FALSE
      OBVIOUS
    <2>1. PICK i \in bad : \A j \in bad : i <= j
      <3>1. bad \in SUBSET Nat
        BY <1>6
      <3> QED
        BY <3>1, LeastNatural
    <2>2. i \in 1..m /\ ~Good(i)
      BY <1>6, <2>1
    <2>3. i # 1
      BY <1>4, <2>2
    <2>4. i \in 2..m /\ i - 1 \in 1..m /\ ~(i <= i - 1)
      BY <2>2, <2>3
    <2>5. Good(i - 1)
      BY <1>6, <2>1, <2>4
    <2> QED
      BY <1>5, <2>2, <2>4, <2>5
  <1>8. Good(m)
    <2> HIDE DEF Good
    <2>1. m \in 1..m
      OBVIOUS
    <2> QED
      BY <1>6, <1>7, <2>1
  <1> QED
    BY <1>3, <1>8 DEF AreJoinedSamples

\* The rows of a time are in order, and there is one.
LEMMA RowsOfATime ==
  ASSUME NEW g \in Seq(Int), NEW t \in Times(g), NEW rows, rows = RowsAt(g, t)
  PROVE  InTimeOrder(g, rows) /\ Len(rows) \in Nat \ {0} /\ Groups(g, rows) = {t}
  <1>1. PICK o : o = Order(g)
    OBVIOUS
  <1>2. PICK n \in Nat : n = Len(g) /\ DOMAIN g = 1..n
    OBVIOUS
  <1>3. /\ InTimeOrder(g, o) /\ Len(o) = n
        /\ \A i \in 1..n : o[i] \in 1..n
        /\ \A r \in 1..n : g[r] \in Int
    BY <1>1, <1>2, OrderIsSorted, OrderSorts
  <1>4. PICK r \in 1..n : t = g[r]
    BY <1>2 DEF Times
  <1>5. t \in Int /\ t + 1 \in Int
    BY <1>3, <1>4
  <1>6. PICK k, l : k = Before(TimesOf(g, o), t) /\ l = Before(TimesOf(g, o), t + 1)
    OBVIOUS
  <1>7. AreEarlier(g, o, t, k)
    BY <1>3, <1>5, <1>6, EarlierRowsFirst
  <1>8. AreEarlier(g, o, t + 1, l)
    BY <1>3, <1>5, <1>6, EarlierRowsFirst
  <1>9. /\ k \in 0..n /\ l \in 0..n
        /\ \A i \in 1..n : (i <= k <=> g[o[i]] < t) /\ (i <= l <=> g[o[i]] < t + 1)
    BY <1>3, <1>7, <1>8 DEF AreEarlier, IsEdge
  <1>10. \A i \in 1..n : i \in k + 1..l <=> g[o[i]] = t
    <2> TAKE i \in 1..n
    <2>1. PICK x \in Int : x = g[o[i]]
      BY <1>3
    <2>2. (i <= k <=> x < t) /\ (i <= l <=> x < t + 1)
      BY <1>9, <2>1
    <2>3. x = t <=> ~(x < t) /\ x < t + 1
      BY <1>5
    <2>4. i \in k + 1..l <=> ~(i <= k) /\ i <= l
      BY <1>9
    <2> QED
      BY <2>1, <2>2, <2>3, <2>4
  <1>11. PICK i \in 1..n : o[i] = r
    <2>1. Place(g, r) \in 1..n /\ o[Place(g, r)] = r
      BY <1>1, <1>2, OrderIsSorted
    <2> QED
      BY <2>1
  <1>12. i \in k + 1..l
    BY <1>4, <1>10, <1>11
  <1>13. k < l /\ l - (k + 1) + 1 \in Nat \ {0}
    BY <1>9, <1>12
  <1>14. rows = SubSeq(o, k + 1, l)
    BY <1>1, <1>6 DEF RowsAt
  <1>15. IsSlice(g, o, k + 1, l, rows)
    <2>1. k + 1 \in 1..Len(o) + 1 /\ l \in (k + 1) - 1..Len(o)
      BY <1>3, <1>9, <1>13
    <2> QED
      BY <1>3, <1>14, <2>1, SlicesAreSorted
  <1>16. InTimeOrder(g, rows) /\ Len(rows) = l - (k + 1) + 1 /\ Range(rows) = {o[j] : j \in k + 1..l}
    BY <1>15 DEF IsSlice
  <1>17. \A j \in k + 1..l : g[o[j]] = t
    <2> TAKE j \in k + 1..l
    <2>1. j \in 1..n
      BY <1>9
    <2> QED
      BY <1>10, <2>1
  <1>18. Groups(g, rows) = {t}
    BY <1>12, <1>16, <1>17 DEF Groups
  <1> QED
    BY <1>13, <1>16, <1>18

\* A sample of the rows of a time shows that time.
SampleOf(rows, quota) ==
  LET positions == Spread(Len(rows), Min({Len(rows), quota}))
  IN  [j \in DOMAIN positions |-> rows[positions[j]]]

\* A spread sample of a time's rows is not empty, keeps its quota and shows only that time.
LEMMA SamplesShowTheirTime ==
  ASSUME NEW g \in Seq(Int), NEW t \in Times(g), NEW quota \in Nat \ {0},
         NEW sample, sample = SampleOf(RowsAt(g, t), quota)
  PROVE  InTimeOrder(g, sample) /\ Len(sample) <= quota /\ Groups(g, sample) = {t}
  <1>1. PICK rows : rows = RowsAt(g, t)
    OBVIOUS
  <1>2. InTimeOrder(g, rows) /\ Len(rows) \in Nat \ {0} /\ Groups(g, rows) = {t}
    BY <1>1, RowsOfATime
  <1>3. PICK k : k = Min({Len(rows), quota})
    OBVIOUS
  <1>4. k \in 1..Len(rows) /\ k <= quota /\ k \in Nat
    <2>1. PICK n \in Nat \ {0} : n = Len(rows)
      BY <1>2
    <2>4. k = Min({n, quota}) /\ n \in Int /\ quota \in Int
      BY <1>3, <2>1
    <2>2. k \in {n, quota} /\ k <= n /\ k <= quota
      BY <2>4, LesserOfTwo
    <2>3. k \in 1..n /\ k \in Nat
      BY <2>2
    <2> QED
      BY <2>1, <2>2, <2>3
  <1>5. PICK a : a = Spread(Len(rows), k)
    OBVIOUS
  <1>6. IsSpread(Len(rows), k, a)
    BY <1>2, <1>4, <1>5, SpreadsAreDistinct
  <1>7. sample = [j \in DOMAIN a |-> rows[a[j]]]
    BY <1>1, <1>3, <1>5 DEF SampleOf
  <1>8. InTimeOrder(g, sample) /\ Len(sample) = k /\ Range(sample) \subseteq Range(rows)
    BY <1>2, <1>4, <1>6, <1>7, SamplesAreSorted
  <1>9. Groups(g, sample) = {t}
    <2>1. Groups(g, sample) \subseteq {t}
      BY <1>2, <1>8 DEF Groups
    <2>2. DOMAIN sample = 1..k
      <3>1. sample \in Seq(1..Len(g))
        BY <1>8 DEF InTimeOrder
      <3> QED
        BY <1>8, <3>1
    <2>3. 1 \in DOMAIN sample
      BY <1>4, <2>2
    <2>4. g[sample[1]] \in Groups(g, sample)
      BY <2>3 DEF Groups, Range
    <2> QED
      BY <2>1, <2>4
  <1> QED
    BY <1>4, <1>8, <1>9

\* The least of three.
LEMMA LeastOfThree ==
  ASSUME NEW a \in Nat, NEW b \in Nat, NEW c \in Nat
  PROVE  Min({a, b, c}) \in {a, b, c} /\ Min({a, b, c}) <= a /\ Min({a, b, c}) <= b /\ Min({a, b, c}) <= c
  <1>1. PICK T : T = {a, b, c}
    OBVIOUS
  <1>2. PICK m \in T : \A x \in T : m <= x
    <2>1. T \in SUBSET Nat /\ T # {}
      BY <1>1
    <2> QED
      BY <2>1, LeastNatural
  <1>3. Min(T) \in T /\ \A x \in T : Min(T) <= x
    BY <1>2 DEF Min
  <1> QED
    BY <1>1, <1>3

\* The quotas of a cap that is shared among groups, and what the first of them sum to.
QuotaOf(cap, count, i) == cap \div count + (IF i > count - (cap % count) THEN 1 ELSE 0)
AreTotals(cap, count, total) ==
  /\ total \in [1..count -> Nat]
  /\ QuotaOf(cap, count, 1) <= total[1] /\ total[count] = cap
  /\ \A i \in 2..count : total[i - 1] + QuotaOf(cap, count, i) <= total[i]

\* No group's quota is zero, and the quotas sum to exactly the cap.
LEMMA QuotasSum ==
  ASSUME NEW count \in Nat \ {0}, NEW cap \in Nat, count <= cap
  PROVE  /\ \A i \in 1..count : QuotaOf(cap, count, i) \in Nat \ {0}
         /\ \E total : AreTotals(cap, count, total)
  <1>1. PICK q, r : q = cap \div count /\ r = cap % count
    OBVIOUS
  <1>2. q \in Nat /\ r \in 0..count - 1 /\ cap = count * q + r /\ cap < count * (q + 1)
    BY <1>1, QuotientBounds
  <1>3. q # 0
    <2> SUFFICES ASSUME q = 0 PROVE FALSE
      OBVIOUS
    <2>1. count * (q + 1) = count
      OBVIOUS
    <2> QED
      BY <1>2, <2>1
  <1>4. \A i \in 1..count : QuotaOf(cap, count, i) = q + (IF i > count - r THEN 1 ELSE 0)
    BY <1>1 DEF QuotaOf
  <1>5. \A i \in 1..count : QuotaOf(cap, count, i) \in Nat \ {0}
    <2> TAKE i \in 1..count
    <2>1. q + (IF i > count - r THEN 1 ELSE 0) \in Nat \ {0}
      BY <1>2, <1>3
    <2> QED
      BY <1>4, <2>1
  <1>6. PICK total : total = [i \in 1..count |-> q * i + (IF i > count - r THEN i - (count - r) ELSE 0)]
    OBVIOUS
  <1>7. ASSUME NEW i \in 1..count
        PROVE  /\ q * i \in Nat /\ q * (i - 1) \in Nat /\ q * i = q * (i - 1) + q
               /\ total[i] = q * i + (IF i > count - r THEN i - (count - r) ELSE 0)
    BY <1>2, <1>6
  <1>8. \A i \in 1..count : total[i] \in Nat
    <2> TAKE i \in 1..count
    <2>1. PICK e \in Nat : e = q * i
      BY <1>7
    <2>2. e + (IF i > count - r THEN i - (count - r) ELSE 0) \in Nat
      BY <1>2
    <2> QED
      BY <1>7, <2>1, <2>2
  <1>9. total \in [1..count -> Nat]
    <2>1. total = [i \in 1..count |-> total[i]]
      BY <1>6
    <2> QED
      BY <1>8, <2>1
  <1>10. QuotaOf(cap, count, 1) <= total[1]
    <2>1. 1 \in 1..count /\ q * 1 = q
      BY <1>2
    <2>2. total[1] = q + (IF 1 > count - r THEN 1 - (count - r) ELSE 0)
      BY <1>7, <2>1
    <2>3. QuotaOf(cap, count, 1) = q + (IF 1 > count - r THEN 1 ELSE 0)
      BY <1>4, <2>1
    <2>4. ~(1 > count - r) \/ 1 - (count - r) >= 1
      BY <1>2
    <2> QED
      BY <1>2, <2>2, <2>3, <2>4
  <1>11. ASSUME NEW i \in 2..count PROVE total[i - 1] + QuotaOf(cap, count, i) <= total[i]
    <2>1. i \in 1..count /\ i - 1 \in 1..count
      OBVIOUS
    <2>2. PICK e \in Nat : e = q * (i - 1) /\ q * i = e + q
      BY <1>7, <2>1
    <2>3. total[i] = e + q + (IF i > count - r THEN i - (count - r) ELSE 0)
      BY <1>7, <2>1, <2>2
    <2>4. total[i - 1] = e + (IF i - 1 > count - r THEN (i - 1) - (count - r) ELSE 0)
      BY <1>7, <2>1, <2>2
    <2>5. QuotaOf(cap, count, i) = q + (IF i > count - r THEN 1 ELSE 0)
      BY <1>4, <2>1
    <2>6. (IF i - 1 > count - r THEN (i - 1) - (count - r) ELSE 0) + (IF i > count - r THEN 1 ELSE 0)
            <= (IF i > count - r THEN i - (count - r) ELSE 0)
      BY <1>2
    <2> QED
      BY <1>2, <2>3, <2>4, <2>5, <2>6
  <1>12. total[count] = cap
    <2>1. count \in 1..count
      OBVIOUS
    <2>2. total[count] = q * count + (IF count > count - r THEN count - (count - r) ELSE 0)
      BY <1>7, <2>1
    <2>3. (IF count > count - r THEN count - (count - r) ELSE 0) = r
      BY <1>2
    <2>4. q * count = count * q
      BY <1>2
    <2> QED
      BY <1>2, <2>2, <2>3, <2>4
  <1> QED
    BY <1>5, <1>9, <1>10, <1>11, <1>12 DEF AreTotals

\* A table has finitely many times.
LEMMA TimesAreFinite ==
  ASSUME NEW g \in Seq(Int)
  PROVE  Times(g) \in SUBSET Int /\ IsFiniteSet(Times(g))
  <1>1. PICK n \in Nat : n = Len(g) /\ DOMAIN g = 1..n /\ \A r \in 1..n : g[r] \in Int
    OBVIOUS
  <1>2. IsFiniteSet(1..n)
    <2>1. 1 \in Int /\ n \in Int
      OBVIOUS
    <2> QED
      BY <2>1, FS_Interval
  <1>3. g \in Surjection(1..n, Times(g))
    BY <1>1 DEF Surjection, Times
  <1>4. IsFiniteSet(Times(g))
    BY <1>2, <1>3, FS_Surjection
  <1> QED
    BY <1>1, <1>4 DEF Times

\* What a sample of the newest times keeps: no more than the cap, in order, some of each
\* time from the earliest of them on, and two of them when there are two.
AreNewest(g, rows, newest, n, count) ==
  /\ n \in Nat /\ count \in 2..n /\ IsListed(Times(g), newest) /\ Len(newest) = n
  /\ Groups(g, rows) = {newest[(n - count) + i] : i \in 1..count}
KeepsNewest(g, cap, rows) ==
  /\ InTimeOrder(g, rows) /\ Len(rows) <= cap
  /\ \E newest, n, count : AreNewest(g, rows, newest, n, count)

\* SampledRows represents the newest times, at least two of them, within the cap.
LEMMA SampledRowsKeepNewest ==
  ASSUME NEW g \in Seq(Int), NEW cap \in Nat \ {0, 1}, NEW maxGroups \in Nat \ {0, 1},
         Cardinality(Times(g)) >= 2
  PROVE  KeepsNewest(g, cap, SampledRows(g, cap, maxGroups))
  <1>1. Range(g) = Times(g)
    BY DEF Range, Times
  <1>2. Times(g) \in SUBSET Int /\ IsFiniteSet(Times(g))
    BY TimesAreFinite
  <1>3. PICK newest : newest = Ascending(Range(g)) /\ IsListed(Times(g), newest)
    BY <1>1, <1>2, AscendingLists
  <1>4. PICK n \in Nat : /\ n = Len(newest) /\ n = Cardinality(Times(g)) /\ n >= 2
                         /\ newest \in Seq(Times(g)) /\ DOMAIN newest = 1..n
    BY <1>3 DEF IsListed
  <1>5. PICK count : count = Min({n, maxGroups, cap})
    OBVIOUS
  <1>6. count \in 2..n /\ count <= cap /\ count \in Nat \ {0}
    <2>1. count \in {n, maxGroups, cap} /\ count <= n /\ count <= cap
      BY <1>5, LeastOfThree
    <2>2. count \in Nat /\ count >= 2
      BY <1>4, <2>1
    <2> QED
      BY <2>1, <2>2
  <1>7. PICK chosen : chosen = SubSeq(newest, n - count + 1, n)
    OBVIOUS
  <1>8. PICK c : c = n - count /\ c \in 0..Len(newest) /\ n \in c..Len(newest) /\ n - c = count
    BY <1>4, <1>6
  <1>9. /\ chosen \in Seq(Times(g)) /\ DOMAIN chosen = 1..count /\ Len(chosen) = count
        /\ \A i \in 1..count : c + i \in 1..n /\ chosen[i] = newest[c + i]
    <2>1. chosen = SubSeq(newest, c + 1, n)
      BY <1>7, <1>8
    <2>2. PICK S : S = Times(g) /\ newest \in Seq(S)
      BY <1>4
    <2>3. /\ SubSeq(newest, c + 1, n) \in Seq(S) /\ Len(SubSeq(newest, c + 1, n)) = n - c
          /\ \A i \in 1..n - c :
                c + i \in 1..Len(newest) /\ SubSeq(newest, c + 1, n)[i] = newest[c + i]
      <3>1. newest \in Seq(S) /\ c \in 0..Len(newest) /\ n \in c..Len(newest)
        BY <1>8, <2>2
      <3> QED
        BY <3>1, Slices
    <2>4. /\ chosen \in Seq(S) /\ Len(chosen) = count
          /\ \A i \in 1..count : c + i \in 1..n /\ chosen[i] = newest[c + i]
      <3>1. n - c = count /\ Len(newest) = n
        BY <1>4, <1>8
      <3> QED
        BY <2>1, <2>3, <3>1
    <2>5. DOMAIN chosen = 1..count
      BY <2>4
    <2> QED
      BY <2>2, <2>4, <2>5
  <1>10. \A i \in 1..count : chosen[i] \in Times(g)
    <2> TAKE i \in 1..count
    <2>1. i \in 1..Len(chosen)
      BY <1>9
    <2> QED
      BY <1>9, <2>1, ElementOfSeq
  <1>11. PICK quota : quota = [i \in 1..count |-> QuotaOf(cap, count, i)]
    OBVIOUS
  <1>12. PICK samples : samples = [i \in 1..count |-> SampleOf(RowsAt(g, chosen[i]), quota[i])]
    OBVIOUS
  <1>13. SampledRows(g, cap, maxGroups) = FlattenSeq(samples)
    <2>1. samples = [i \in 1..count |-> SampleOf(RowsAt(g, chosen[i]), QuotaOf(cap, count, i))]
      BY <1>11, <1>12
    <2>2. SampledRows(g, cap, maxGroups)
            = FlattenSeq([i \in 1..count |-> SampleOf(RowsAt(g, chosen[i]), QuotaOf(cap, count, i))])
      BY <1>3, <1>4, <1>5, <1>7 DEF SampledRows, SampleOf, QuotaOf
    <2> QED
      BY <2>1, <2>2
  <1>14. \A i \in 1..count : quota[i] \in Nat \ {0} /\ quota[i] = QuotaOf(cap, count, i)
    BY <1>6, <1>11, QuotasSum
  <1>15. ASSUME NEW i \in 1..count
         PROVE  InTimeOrder(g, samples[i]) /\ Len(samples[i]) <= quota[i] /\ Groups(g, samples[i]) = {chosen[i]}
    <2>1. samples[i] = SampleOf(RowsAt(g, chosen[i]), quota[i])
      BY <1>12
    <2>2. chosen[i] \in Times(g) /\ quota[i] \in Nat \ {0}
      BY <1>10, <1>14
    <2> QED
      BY <2>1, <2>2, SamplesShowTheirTime, ZenonT(60)
  <1>16. ASSUME NEW i \in 1..count, NEW j \in 1..count, i < j PROVE chosen[i] < chosen[j]
    <2>1. c + i \in 1..n /\ c + j \in 1..n /\ c + i < c + j
      BY <1>8, <1>9, <1>16
    <2>2. newest[c + i] < newest[c + j]
      BY <1>3, <1>4, <2>1 DEF IsListed
    <2> QED
      BY <1>9, <2>2
  <1>17. AreSamples(g, count, chosen, quota, samples)
    <2>1. chosen \in [1..count -> Int]
      <3>1. chosen = [i \in 1..count |-> chosen[i]]
        BY <1>9
      <3>2. \A i \in 1..count : chosen[i] \in Int
        BY <1>2, <1>10
      <3> QED
        BY <3>1, <3>2
    <2>2. quota \in [1..count -> Nat]
      BY <1>11, <1>14
    <2>3. samples \in [1..count -> Seq(1..Len(g))]
      <3>1. \A i \in 1..count : samples[i] \in Seq(1..Len(g))
        BY <1>15 DEF InTimeOrder
      <3>2. samples = [i \in 1..count |-> samples[i]]
        BY <1>12
      <3> QED
        BY <3>1, <3>2
    <2> QED
      BY <1>15, <1>16, <2>1, <2>2, <2>3 DEF AreSamples
  <1>18. PICK total \in [1..count -> Nat] :
            /\ quota[1] <= total[1] /\ total[count] = cap
            /\ \A i \in 2..count : total[i - 1] + quota[i] <= total[i]
    <2>5. PICK t : AreTotals(cap, count, t)
      BY <1>6, QuotasSum
    <2>1. /\ t \in [1..count -> Nat] /\ QuotaOf(cap, count, 1) <= t[1] /\ t[count] = cap
          /\ \A i \in 2..count : t[i - 1] + QuotaOf(cap, count, i) <= t[i]
      BY <2>5 DEF AreTotals
    <2>2. 1 \in 1..count /\ \A i \in 2..count : i \in 1..count
      BY <1>6
    <2>3. quota[1] <= t[1]
      BY <1>14, <2>1, <2>2
    <2>4. \A i \in 2..count : t[i - 1] + quota[i] <= t[i]
      BY <1>14, <2>1, <2>2
    <2> QED
      BY <2>1, <2>3, <2>4
  <1>19. PICK rows : rows = FlattenSeq(samples)
    OBVIOUS
  <1>20. InTimeOrder(g, rows) /\ Len(rows) <= total[count] /\ Groups(g, rows) = {chosen[i] : i \in 1..count}
    <2>1. AreJoinedSamples(g, count, chosen, total, FlattenSeq(samples))
      BY <1>6, <1>17, <1>18, SamplesJoin
    <2> QED
      BY <1>19, <2>1 DEF AreJoinedSamples
  <1>21. AreNewest(g, rows, newest, n, count)
    <2>1. {chosen[i] : i \in 1..count} = {newest[c + i] : i \in 1..count}
      BY <1>9
    <2>2. {newest[c + i] : i \in 1..count} = {newest[(n - count) + i] : i \in 1..count}
      BY <1>8
    <2>3. Groups(g, rows) = {newest[(n - count) + i] : i \in 1..count}
      BY <1>20, <2>1, <2>2
    <2> QED
      BY <1>3, <1>4, <1>6, <2>3 DEF AreNewest
  <1>22. KeepsNewest(g, cap, rows)
    BY <1>18, <1>20, <1>21 DEF KeepsNewest
  <1> QED
    BY <1>13, <1>19, <1>22

\* The newest times are all those from the earliest of them on.
LEMMA NewestAreTogether ==
  ASSUME NEW g \in Seq(Int), NEW rows, NEW newest, NEW n, NEW count, AreNewest(g, rows, newest, n, count)
  PROVE  /\ Cardinality(Groups(g, rows)) >= 2
         /\ \A t \in Times(g) : t >= Min(Groups(g, rows)) => t \in Groups(g, rows)
  <1>1. PICK times : times = Groups(g, rows)
    OBVIOUS
  <1>2. PICK c \in Nat : c = n - count /\ n \in Nat /\ count \in 2..n /\ n - c = count
    BY DEF AreNewest
  <1>3. /\ newest \in Seq(Times(g)) /\ Len(newest) = n /\ Range(newest) = Times(g) /\ DOMAIN newest = 1..n
        /\ \A i, j \in 1..n : i < j => newest[i] < newest[j]
    BY DEF AreNewest, IsListed
  <1>4. times = {newest[c + i] : i \in 1..count}
    BY <1>1, <1>2 DEF AreNewest
  <1>5. Times(g) \in SUBSET Int /\ IsFiniteSet(Times(g))
    BY TimesAreFinite
  <1>6. \A i \in 1..n : newest[i] \in Times(g) /\ newest[i] \in Int
    BY <1>3, <1>5
  <1>7. times \subseteq Times(g) /\ times \in SUBSET Int /\ IsFiniteSet(times)
    <2>1. \A i \in 1..count : c + i \in 1..n
      BY <1>2
    <2>2. times \subseteq Times(g)
      BY <1>4, <1>6, <2>1
    <2> QED
      BY <1>5, <2>2, FS_Subset
  <1>8. PICK a \in Int, b \in Int : a = newest[c + 1] /\ b = newest[c + 2] /\ a \in times /\ b \in times /\ a # b
    <2>1. 1 \in 1..count /\ 2 \in 1..count /\ c + 1 \in 1..n /\ c + 2 \in 1..n /\ c + 1 < c + 2
      BY <1>2
    <2>2. PICK x \in Int, y \in Int : x = newest[c + 1] /\ y = newest[c + 2] /\ x < y
      BY <1>3, <1>6, <2>1
    <2>3. x # y
      BY <2>2
    <2>4. x \in times /\ y \in times
      BY <1>4, <2>1, <2>2
    <2> QED
      BY <2>2, <2>3, <2>4
  <1>9. Cardinality(times) >= 2
    <2>1. IsFiniteSet({a}) /\ Cardinality({a}) = 1
      BY FS_Singleton
    <2>2. IsFiniteSet({a} \cup {b}) /\ Cardinality({a} \cup {b}) = Cardinality({a}) + 1
      BY <1>8, <2>1, FS_AddElement
    <2>3. {a} \cup {b} \subseteq times
      BY <1>8
    <2>4. Cardinality({a} \cup {b}) <= Cardinality(times)
      BY <1>7, <2>3, FS_Subset
    <2>5. PICK u \in Nat : u = Cardinality(times)
      BY <1>7, FS_CardinalityType
    <2>6. 1 + 1 <= u
      BY <2>1, <2>2, <2>4, <2>5
    <2>7. u >= 2
      BY <2>6
    <2> QED
      BY <2>5, <2>7
  <1>10. \A x \in times : a <= x
    <2> TAKE x \in times
    <2>1. PICK i \in 1..count : x = newest[c + i]
      BY <1>4
    <2>2. c + 1 \in 1..n /\ c + i \in 1..n /\ (c + 1 < c + i \/ i = 1)
      BY <1>2
    <2>3. a < x \/ a = x
      BY <1>3, <1>8, <2>1, <2>2
    <2>4. x \in Int
      BY <1>7
    <2> QED
      BY <2>3, <2>4
  <1>11. Min(times) \in times
    BY <1>8, <1>10 DEF Min
  <1>12. ASSUME NEW t \in Times(g), t >= Min(times) PROVE t \in times
    <2>1. PICK j \in 1..n : newest[j] = t
      BY <1>3 DEF Range
    <2>2. ~(j <= c)
      <3> SUFFICES ASSUME j <= c PROVE FALSE
        OBVIOUS
      <3>1. j < c + 1 /\ c + 1 \in 1..n
        BY <1>2
      <3>2. t < a
        BY <1>3, <1>8, <2>1, <3>1
      <3>3. PICK m \in Int : m = Min(times) /\ a <= m
        BY <1>7, <1>10, <1>11
      <3>4. t \in Int
        BY <1>5
      <3> QED
        BY <1>12, <3>2, <3>3, <3>4
    <2>3. j - c \in 1..count /\ c + (j - c) = j
      BY <1>2, <2>2
    <2> QED
      BY <1>4, <2>1, <2>3
  <1> QED
    BY <1>1, <1>9, <1>12

\* What the evidence rows of a table keep of it.
KeepsRecent(g, cap, rows) ==
  IF Len(g) <= cap THEN Range(rows) = DOMAIN g
  ELSE /\ Len(rows) <= cap
       /\ \A i \in 1..Len(rows) - 1 : g[rows[i]] <= g[rows[i + 1]]
       /\ Cardinality(Range(rows)) = Len(rows)
       /\ IF Cardinality(FittingTimes(g, cap)) >= 2
          THEN Range(rows) = LaterRows(g, Min(FittingTimes(g, cap)))
          ELSE IF Cardinality(Times(g)) = 1 THEN rows = <<>>
          ELSE /\ Cardinality(Groups(g, rows)) >= 2
               /\ \A t \in Times(g) : t >= Min(Groups(g, rows)) => t \in Groups(g, rows)

\* Rows in time order never step back, and are counted by their number.
LEMMA SortedRows ==
  ASSUME NEW g \in Seq(Int), NEW rows, InTimeOrder(g, rows)
  PROVE  /\ \A i \in 1..Len(rows) - 1 : g[rows[i]] <= g[rows[i + 1]]
         /\ Cardinality(Range(rows)) = Len(rows)
  <1>1. PICK n \in Nat : n = Len(rows)
    BY DEF InTimeOrder
  <1>2. \A i \in 1..n - 1 : i \in 1..n /\ i + 1 \in 1..n /\ i < i + 1
    BY <1>1
  <1> QED
    BY <1>1, <1>2, RowsAreCounted DEF InTimeOrder

\* A bounded evidence table keeps the longest run of whole newest times that fits, or
\* several of the newest times when fewer than two fit.
LEMMA EvidenceKeepsRecent ==
  ASSUME NEW g \in Seq(Int), NEW cap \in Nat \ {0, 1}, NEW maxGroups \in Nat \ {0, 1}
  PROVE  KeepsRecent(g, cap, EvidenceRows(g, cap, maxGroups))
  <1>1. PICK rows : rows = EvidenceRows(g, cap, maxGroups)
    OBVIOUS
  <1>2. PICK n \in Nat : n = Len(g) /\ DOMAIN g = 1..n
    OBVIOUS
  <1>3. CASE n <= cap
    <2>1. rows = [r \in 1..n |-> r]
      <3>1. ~(Len(g) > cap)
        BY <1>2, <1>3
      <3> QED
        BY <1>1, <1>2, <3>1 DEF EvidenceRows
    <2>2. Range(rows) = 1..n
      BY <2>1 DEF Range
    <2> QED
      BY <1>1, <1>2, <1>3, <2>2 DEF KeepsRecent
  <1>4. CASE ~(n <= cap)
    <2>1. rows = BoundedRows(g, cap, maxGroups) /\ ~(Len(g) <= cap)
      <3>1. Len(g) > cap /\ ~(Len(g) <= cap)
        BY <1>2, <1>4
      <3> QED
        BY <1>1, <3>1 DEF EvidenceRows
    <2>2. Len(Order(g)) = Len(g)
      BY OrderIsSorted
    <2>3. PICK tail : tail = Recent(g, Order(g), cap)
      OBVIOUS
    <2>4. tail = SubSeq(Order(g), RecentStart(TimesOf(g, Order(g)), cap) + 1, Len(g))
      BY <2>1, <2>2, <2>3 DEF Recent
    <2>5. PICK fit : fit = FittingTimes(g, cap)
      OBVIOUS
    <2>6. /\ InTimeOrder(g, tail) /\ Len(tail) <= cap /\ Groups(g, tail) = fit
          /\ Range(tail) = IF fit = {} THEN {} ELSE LaterRows(g, Min(fit))
      <3>1. cap \in Nat \ {0}
        OBVIOUS
      <3> QED
        BY <2>3, <2>5, <3>1, RecentIsLongest
    <2>7. rows = IF Cardinality(fit) >= 2 THEN tail
                 ELSE IF Cardinality(Range(g)) < 2 THEN <<>> ELSE SampledRows(g, cap, maxGroups)
      BY <2>1, <2>4, <2>6 DEF BoundedRows
    <2>8. Range(g) = Times(g)
      BY DEF Range, Times
    <2>9. CASE Cardinality(fit) >= 2
      <3>1. fit # {}
        <4>1. Cardinality({}) = 0
          BY FS_EmptySet
        <4>2. ~(0 >= 2)
          OBVIOUS
        <4> QED
          BY <2>9, <4>1, <4>2
      <3>2. rows = tail
        BY <2>7, <2>9
      <3>3. Range(rows) = LaterRows(g, Min(fit))
        BY <2>6, <3>1, <3>2
      <3>4. InTimeOrder(g, rows) /\ Len(rows) <= cap
        BY <2>6, <3>2
      <3> QED
        BY <1>1, <2>1, <2>5, <2>9, <3>3, <3>4, SortedRows DEF KeepsRecent
    <2>10. CASE ~(Cardinality(fit) >= 2)
      <3>1. Cardinality(Times(g)) \in Nat
        BY TimesAreFinite, FS_CardinalityType
      <3>2. CASE Cardinality(Times(g)) < 2
        <4>1. rows = <<>>
          BY <2>7, <2>8, <2>10, <3>2
        <4>2. Times(g) # {}
          <5>1. 1 \in DOMAIN g
            BY <1>2, <1>4
          <5> QED
            BY <5>1 DEF Times
        <4>3. Cardinality(Times(g)) # 0
          BY <4>2, TimesAreFinite, FS_EmptySet
        <4>4. Cardinality(Times(g)) = 1
          BY <3>1, <3>2, <4>3
        <4>5. InTimeOrder(g, rows) /\ Len(rows) <= cap
          <5>1. rows \in Seq(1..Len(g)) /\ Len(rows) = 0 /\ 1..0 = {}
            BY <4>1
          <5>2. 0 <= cap
            OBVIOUS
          <5> QED
            BY <5>1, <5>2 DEF InTimeOrder
        <4> QED
          BY <1>1, <2>1, <2>5, <2>10, <4>1, <4>4, <4>5, SortedRows DEF KeepsRecent
      <3>3. CASE ~(Cardinality(Times(g)) < 2)
        <4>1. rows = SampledRows(g, cap, maxGroups)
          BY <2>7, <2>8, <2>10, <3>3
        <4>2. Cardinality(Times(g)) >= 2 /\ Cardinality(Times(g)) # 1
          BY <3>1, <3>3
        <4>3. KeepsNewest(g, cap, rows)
          BY <4>1, <4>2, SampledRowsKeepNewest
        <4>4. InTimeOrder(g, rows) /\ Len(rows) <= cap
          BY <4>3 DEF KeepsNewest
        <4>5. PICK newest, m, count : AreNewest(g, rows, newest, m, count)
          BY <4>3 DEF KeepsNewest
        <4>6. /\ Cardinality(Groups(g, rows)) >= 2
              /\ \A t \in Times(g) : t >= Min(Groups(g, rows)) => t \in Groups(g, rows)
          BY <4>5, NewestAreTogether
        <4> QED
          BY <1>1, <2>1, <2>5, <2>10, <4>2, <4>4, <4>6, SortedRows DEF KeepsRecent
      <3> QED
        BY <3>2, <3>3
    <2> QED
      BY <2>9, <2>10
  <1> QED
    BY <1>3, <1>4

\* What the gate keeps of a dated table.
GateKeepsRecent(g, p, rows) ==
  /\ Len(rows) <= Max({p.limit, p.minRows})
  /\ p.dated /\ Len(g) > p.minRows =>
        Range(rows) = IF FittingTimes(g, p.limit) = {} THEN {}
                      ELSE LaterRows(g, Min(FittingTimes(g, p.limit)))

\* The greater of two.
LEMMA Greater ==
  ASSUME NEW a \in Int, NEW b \in Int
  PROVE  a <= Max({a, b}) /\ Max({a, b}) \in Int
  <1>1. PICK T : T = {a, b}
    OBVIOUS
  <1>2. \E x \in T : \A y \in T : x >= y
    <2>1. a >= b \/ b >= a
      OBVIOUS
    <2>2. a >= a /\ b >= b
      OBVIOUS
    <2> QED
      BY <1>1, <2>1, <2>2
  <1>3. Max(T) \in T /\ \A y \in T : Max(T) >= y
    BY <1>2 DEF Max
  <1>4. Max(T) \in Int /\ Max(T) >= a
    BY <1>1, <1>3
  <1> QED
    BY <1>1, <1>4

\* bounded_event_gate keeps the newest whole timestamps of a dated table that is too large.
LEMMA EventGateKeepsRecent ==
  ASSUME NEW g \in Seq(Int), NEW p, p.limit \in Nat \ {0}, p.minRows \in Nat
  PROVE  GateKeepsRecent(g, p, EventGate(g, p.dated, p.limit, p.minRows))
  <1>1. PICK rows : rows = EventGate(g, p.dated, p.limit, p.minRows)
    OBVIOUS
  <1>2. PICK n \in Nat, limit \in Nat \ {0}, floor \in Nat : n = Len(g) /\ limit = p.limit /\ floor = p.minRows
    OBVIOUS
  <1>3. limit <= Max({limit, floor}) /\ Max({limit, floor}) \in Int
    <2>1. limit \in Int /\ floor \in Int
      OBVIOUS
    <2> QED
      BY <2>1, Greater
  <1>4. CASE n <= floor \/ ~p.dated
    <2>1. PICK k : k = Min({n, limit})
      OBVIOUS
    <2>2. k \in {n, limit} /\ k <= n /\ k <= limit
      <3>1. n \in Int /\ limit \in Int
        OBVIOUS
      <3> QED
        BY <2>1, <3>1, LesserOfTwo
    <2>3. rows = Spread(n, k)
      BY <1>1, <1>2, <1>4, <2>1 DEF EventGate
    <2>4. Len(rows) = k
      <3>1. CASE k = 0
        <4>1. rows = [i \in 1..k |-> 1 + ((i - 1) * (n - 1)) \div (k - 1)]
          BY <2>3, <3>1 DEF Spread
        <4>2. rows \in [1..0 -> Nat]
          BY <3>1, <4>1
        <4> QED
          BY <3>1, <4>2, ListsAreSequences
      <3>2. CASE k # 0
        <4>1. k \in 1..n /\ k \in Nat
          BY <2>2, <3>2
        <4>2. IsSpread(n, k, rows)
          BY <2>3, <4>1, SpreadsAreDistinct
        <4> QED
          BY <4>1, <4>2, ListsAreSequences DEF IsSpread
      <3> QED
        BY <3>1, <3>2
    <2>5. Len(rows) <= Max({limit, floor})
      BY <1>3, <2>2, <2>4
    <2>6. ~(p.dated /\ n > floor)
      BY <1>4
    <2> QED
      BY <1>1, <1>2, <2>5, <2>6 DEF GateKeepsRecent
  <1>5. CASE ~(n <= floor \/ ~p.dated)
    <2>1. rows = Recent(g, Order(g), limit)
      BY <1>1, <1>2, <1>5 DEF EventGate
    <2>2. /\ InTimeOrder(g, rows) /\ Len(rows) <= limit
          /\ Groups(g, rows) = FittingTimes(g, limit)
          /\ Range(rows) = IF FittingTimes(g, limit) = {} THEN {}
                           ELSE LaterRows(g, Min(FittingTimes(g, limit)))
      <3>1. limit \in Nat \ {0}
        OBVIOUS
      <3> QED
        BY <2>1, <3>1, RecentIsLongest
    <2>3. PICK l \in Nat : l = Len(rows)
      BY <2>2 DEF InTimeOrder
    <2>4. Len(rows) <= Max({limit, floor})
      BY <1>3, <2>2, <2>3
    <2> QED
      BY <1>1, <1>2, <2>2, <2>4 DEF GateKeepsRecent
  <1> QED
    BY <1>4, <1>5

\* Whatever the table, its ties and the cap, what is kept of it is recent, whole and
\* never of a single time unless the table is.
THEOREM KeepsRecentTimes == HeldOutSpec => []BoundedRowsKeepRecentTimes
  <1>1. AnswerOfTable => BoundedRowsKeepRecentTimes
    <2> SUFFICES ASSUME AnswerOfTable PROVE BoundedRowsKeepRecentTimes
      OBVIOUS
    <2>1. \A t : Later(t) = LaterRows(call.g, t)
      BY DEF Earlier, Later, EarlierRows, LaterRows
    <2>2. Instants = Times(call.g)
      BY DEF Instants, Times
    <2>3. \A cap : Fitting(cap) = FittingTimes(call.g, cap)
      BY <2>1, <2>2 DEF Fitting, FittingTimes
    <2>4. ASSUME Answered("bounded") PROVE KeepsRecent(call.g, call.p.cap, answer.is)
      <3>1. PICK c \in Table("bounded") :
               /\ call = c /\ c.g \in Seq(Int)
               /\ \E y \in LabelsOf(c) : answer = [y |-> y, is |-> ValidationAnswer(c, y)]
        BY <2>4, AnsweredTables DEF ValidationOps
      <3>2. PICK y \in LabelsOf(c) : answer = [y |-> y, is |-> ValidationAnswer(c, y)]
        BY <3>1
      <3>3. PICK g, cap, groups : g = c.g /\ cap = c.p.cap /\ groups = c.p.maxGroups
        OBVIOUS
      <3>4. answer.is = EvidenceRows(g, cap, groups)
        BY <3>2, <3>3 DEF ValidationAnswer, Table
      <3>5. g \in Seq(Int) /\ cap \in Nat \ {0, 1} /\ groups \in Nat \ {0, 1}
        BY <3>1, <3>3, BoundsAreCaps
      <3>6. KeepsRecent(g, cap, EvidenceRows(g, cap, groups))
        BY <3>5, EvidenceKeepsRecent
      <3> QED
        BY <3>1, <3>3, <3>4, <3>6
    <2>5. ASSUME Answered("gate") PROVE GateKeepsRecent(call.g, call.p, answer.is)
      <3>1. PICK c \in Table("gate") :
               /\ call = c /\ c.g \in Seq(Int)
               /\ \E y \in LabelsOf(c) : answer = [y |-> y, is |-> ValidationAnswer(c, y)]
        BY <2>5, AnsweredTables DEF ValidationOps
      <3>2. PICK y \in LabelsOf(c) : answer = [y |-> y, is |-> ValidationAnswer(c, y)]
        BY <3>1
      <3>3. PICK g, p : g = c.g /\ p = c.p
        OBVIOUS
      <3>4. answer.is = EventGate(g, p.dated, p.limit, p.minRows)
        BY <3>2, <3>3 DEF ValidationAnswer, Table
      <3>5. g \in Seq(Int) /\ p.limit \in Nat \ {0} /\ p.minRows \in Nat
        BY <3>1, <3>3, BoundsAreCaps
      <3>6. GateKeepsRecent(g, p, EventGate(g, p.dated, p.limit, p.minRows))
        BY <3>5, EventGateKeepsRecent
      <3> QED
        BY <3>1, <3>3, <3>4, <3>6
    <2>6. {call.g[r] : r \in Range(answer.is)} = Groups(call.g, answer.is)
      BY DEF Groups
    <2> QED
      BY <2>1, <2>2, <2>3, <2>4, <2>5, <2>6 DEF BoundedRowsKeepRecentTimes, KeepsRecent, GateKeepsRecent
  <1> QED
    BY <1>1, AnsweringTables, PTL

-----------------------------------------------------------------------------
(* Sums.                                                                   *)

\* What holds at 0, and at each number when it holds at the one before, holds up to n.
LEMMA Upward ==
  ASSUME NEW n \in Nat, NEW S, 0 \in S, \A i \in 1..n : i - 1 \in S => i \in S
  PROVE  0..n \subseteq S
  <1>1. PICK bad : bad = {i \in 0..n : i \notin S}
    OBVIOUS
  <1> SUFFICES ASSUME bad # {} PROVE FALSE
    BY <1>1
  <1>2. PICK i \in bad : \A j \in bad : i <= j
    <2>1. bad \in SUBSET Nat
      BY <1>1
    <2> QED
      BY <2>1, LeastNatural
  <1>3. i \in 1..n /\ i \notin S
    BY <1>1, <1>2
  <1>4. i - 1 \in 0..n /\ ~(i <= i - 1)
    BY <1>3
  <1>5. i - 1 \in S
    BY <1>1, <1>2, <1>4
  <1> QED
    BY <1>3, <1>5

\* What holds at each number when it holds at the later ones up to n holds from 1 on.
LEMMA Downward ==
  ASSUME NEW n \in Nat, NEW S, \A i \in 1..n : (i + 1)..n \subseteq S => i \in S
  PROVE  1..n \subseteq S
  <1>1. PICK bad : bad = {k \in 0..n - 1 : n - k \notin S}
    OBVIOUS
  <1>2. bad = {}
    <2> SUFFICES ASSUME bad # {} PROVE FALSE
      OBVIOUS
    <2>1. PICK k \in bad : \A j \in bad : k <= j
      <3>1. bad \in SUBSET Nat
        BY <1>1
      <3> QED
        BY <3>1, LeastNatural
    <2>2. k \in 0..n - 1 /\ n - k \notin S
      BY <1>1, <2>1
    <2>3. n - k \in 1..n
      BY <2>2
    <2>4. ASSUME NEW j \in (n - k) + 1..n PROVE j \in S
      <3>1. n - j \in 0..n - 1 /\ ~(k <= n - j) /\ n - (n - j) = j
        BY <2>2
      <3> QED
        BY <1>1, <2>1, <3>1
    <2> QED
      BY <2>2, <2>3, <2>4
  <1>3. ASSUME NEW i \in 1..n PROVE i \in S
    <2>1. n - i \in 0..n - 1 /\ n - (n - i) = i
      OBVIOUS
    <2> QED
      BY <1>1, <1>2, <2>1
  <1> QED
    BY <1>3

\* The running totals of some numbers.
Runs(n, a, f) ==
  f \in [0..n -> Int] /\ f[0] = 0 /\ \A i \in 1..n : f[i] = f[i - 1] + a[i]

\* Total is the last of the running totals.
LEMMA TotalRuns ==
  ASSUME NEW n \in Nat, NEW a \in [1..n -> Int]
  PROVE  \E f : Runs(n, a, f) /\ Total(a) = f[n]
  <1> DEFINE Sum(e) == e[2] + a[e[1]]
  <1>1. PICK next : next = [e \in (1..n) \X Int |-> Sum(e)]
    OBVIOUS
  <1>2. next \in [(1..n) \X Int -> Int]
    <2>1. ASSUME NEW e \in (1..n) \X Int PROVE Sum(e) \in Int
      <3>1. e[1] \in 1..n /\ e[2] \in Int
        OBVIOUS
      <3>2. a[e[1]] \in Int
        BY <3>1
      <3> QED
        BY <3>1, <3>2
    <2>2. PICK A, D : A = (1..n) \X Int /\ D = Int
      OBVIOUS
    <2>3. next = [e \in A |-> Sum(e)] /\ \A e \in A : Sum(e) \in D
      BY <1>1, <2>1, <2>2
    <2>4. next \in [A -> D]
      <3> HIDE DEF Sum
      <3> QED
        BY <2>3
    <2> QED
      BY <2>2, <2>4
  <1>3. PICK h : Follows(h, n, Int, 0, next)
    <2>1. PICK D, zero : D = Int /\ zero = 0
      OBVIOUS
    <2>2. zero \in D /\ next \in [(1..n) \X D -> D]
      BY <1>2, <2>1
    <2>3. \E h : Follows(h, n, D, zero, next)
      BY <2>2, RecursionExists
    <2> QED
      BY <2>1, <2>3
  <1>4. h \in [0..n -> Int] /\ h[0] = 0 /\ \A i \in 1..n : h[i] = h[i - 1] + a[i]
    <2>1. h \in [0..n -> Int] /\ h[0] = 0 /\ \A i \in 1..n : h[i] = next[<<i, h[i - 1]>>]
      BY <1>3 DEF Follows
    <2>2. ASSUME NEW i \in 1..n PROVE h[i] = h[i - 1] + a[i]
      <3>1. i - 1 \in 0..n
        OBVIOUS
      <3>2. h[i - 1] \in Int
        BY <2>1, <3>1
      <3> QED
        BY <1>1, <2>1, <3>2
    <2> QED
      BY <2>1, <2>2
  <1>5. Len(a) = n
    OBVIOUS
  <1> DEFINE Solves(x) == x = [i \in 0..n |-> IF i = 0 THEN 0 ELSE x[i - 1] + a[i]]
  <1>6. Solves(h)
    <2>1. \A i \in 0..n : h[i] = IF i = 0 THEN 0 ELSE h[i - 1] + a[i]
      BY <1>4
    <2> QED
      BY <1>4, <2>1
  <1>7. PICK c : c = CHOOSE x : Solves(x)
    OBVIOUS
  <1>8. Solves(c)
    <2> HIDE DEF Solves
    <2> QED
      BY <1>6, <1>7
  <1>9. Total(a) = c[n]
    BY <1>5, <1>7 DEF Total
  <1>10. c[0] = 0 /\ \A i \in 1..n : c[i] = c[i - 1] + a[i]
    <2>1. 0 \in 0..n /\ \A i \in 1..n : i \in 0..n /\ i # 0
      OBVIOUS
    <2> QED
      BY <1>8, <2>1
  <1>11. PICK S : S = {i \in 0..n : c[i] = h[i]}
    OBVIOUS
  <1>12. 0..n \subseteq S
    <2>1. 0 \in S
      BY <1>4, <1>10, <1>11
    <2>2. ASSUME NEW i \in 1..n, i - 1 \in S PROVE i \in S
      BY <1>4, <1>10, <1>11, <2>2
    <2> QED
      BY <2>1, <2>2, Upward
  <1>13. c[n] = h[n]
    BY <1>11, <1>12
  <1> QED
    BY <1>4, <1>9, <1>13 DEF Runs

\* A sum of numbers is a number, and no numbers sum to 0.
LEMMA TotalIsNumber ==
  ASSUME NEW n \in Nat, NEW a \in [1..n -> Int]
  PROVE  Total(a) \in Int /\ (n = 0 => Total(a) = 0)
  <1>1. PICK f : Runs(n, a, f) /\ Total(a) = f[n]
    BY TotalRuns
  <1> QED
    BY <1>1 DEF Runs

\* A sum is monotone in its numbers.
LEMMA TotalGrows ==
  ASSUME NEW n \in Nat, NEW a \in [1..n -> Int], NEW b \in [1..n -> Int],
         \A i \in 1..n : a[i] <= b[i]
  PROVE  Total(a) <= Total(b)
  <1>1. PICK f : Runs(n, a, f) /\ Total(a) = f[n]
    BY TotalRuns
  <1>2. PICK h : Runs(n, b, h) /\ Total(b) = h[n]
    BY TotalRuns
  <1>3. PICK S : S = {i \in 0..n : f[i] <= h[i]}
    OBVIOUS
  <1>4. 0..n \subseteq S
    <2>1. 0 \in S
      BY <1>1, <1>2, <1>3 DEF Runs
    <2>2. ASSUME NEW i \in 1..n, i - 1 \in S PROVE i \in S
      <3>1. f[i] = f[i - 1] + a[i] /\ h[i] = h[i - 1] + b[i]
        BY <1>1, <1>2 DEF Runs
      <3>2. i - 1 \in 0..n /\ f[i - 1] <= h[i - 1]
        BY <1>3, <2>2
      <3>3. f[i - 1] \in Int /\ h[i - 1] \in Int
        BY <1>1, <1>2, <3>2 DEF Runs
      <3>4. a[i] \in Int /\ b[i] \in Int /\ a[i] <= b[i]
        OBVIOUS
      <3>5. f[i] <= h[i]
        BY <3>1, <3>2, <3>3, <3>4
      <3> QED
        BY <1>3, <3>5
    <2> QED
      BY <2>1, <2>2, Upward
  <1> QED
    BY <1>1, <1>2, <1>3, <1>4

\* The sum of numbers followed by others is the sum of both sums.
LEMMA TotalJoins ==
  ASSUME NEW n \in Nat, NEW m \in Nat, NEW a \in [1..n -> Int], NEW b \in [1..m -> Int],
         NEW c \in [1..n + m -> Int], \A i \in 1..n : c[i] = a[i],
         \A i \in 1..m : c[n + i] = b[i]
  PROVE  Total(c) = Total(a) + Total(b)
  <1>1. PICK f : Runs(n, a, f) /\ Total(a) = f[n]
    BY TotalRuns
  <1>2. PICK h : Runs(m, b, h) /\ Total(b) = h[m]
    BY TotalRuns
  <1>3. PICK k : Runs(n + m, c, k) /\ Total(c) = k[n + m]
    <2>1. n + m \in Nat
      OBVIOUS
    <2> QED
      BY <2>1, TotalRuns
  <1>4. PICK S : S = {i \in 0..n : k[i] = f[i]}
    OBVIOUS
  <1>5. 0..n \subseteq S
    <2>1. 0 \in S
      BY <1>1, <1>3, <1>4 DEF Runs
    <2>2. ASSUME NEW i \in 1..n, i - 1 \in S PROVE i \in S
      <3>1. i \in 1..n + m
        OBVIOUS
      <3>2. f[i] = f[i - 1] + a[i] /\ k[i] = k[i - 1] + c[i]
        BY <1>1, <1>3, <3>1 DEF Runs
      <3> QED
        BY <1>4, <2>2, <3>2
    <2> QED
      BY <2>1, <2>2, Upward
  <1>6. k[n] = f[n] /\ f[n] \in Int
    BY <1>1, <1>4, <1>5 DEF Runs
  <1>7. PICK T : T = {i \in 0..m : k[n + i] = f[n] + h[i]}
    OBVIOUS
  <1>8. 0..m \subseteq T
    <2>1. 0 \in T
      <3>1. n + 0 = n /\ f[n] + 0 = f[n] /\ h[0] = 0
        BY <1>2, <1>6 DEF Runs
      <3> QED
        BY <1>6, <1>7, <3>1
    <2>2. ASSUME NEW i \in 1..m, i - 1 \in T PROVE i \in T
      <3>1. n + i \in 1..n + m /\ (n + i) - 1 = n + (i - 1) /\ i - 1 \in 0..m
        OBVIOUS
      <3>2. k[n + i] = k[(n + i) - 1] + c[n + i]
        BY <1>3, <3>1 DEF Runs
      <3>3. h[i] = h[i - 1] + b[i]
        BY <1>2 DEF Runs
      <3>4. k[n + (i - 1)] = f[n] + h[i - 1] /\ h[i - 1] \in Int /\ b[i] \in Int
        BY <1>2, <1>7, <2>2, <3>1 DEF Runs
      <3>5. k[n + i] = (f[n] + h[i - 1]) + b[i]
        BY <3>1, <3>2, <3>4
      <3>6. k[n + i] = f[n] + h[i]
        <4>1. PICK u \in Int, v \in Int, w \in Int : u = f[n] /\ v = h[i - 1] /\ w = b[i]
          BY <1>6, <3>4
        <4>2. (u + v) + w = u + (v + w)
          OBVIOUS
        <4> QED
          BY <3>3, <3>5, <4>1, <4>2
      <3> QED
        BY <1>7, <3>6
    <2> QED
      BY <2>1, <2>2, Upward
  <1> QED
    BY <1>1, <1>2, <1>3, <1>7, <1>8

-----------------------------------------------------------------------------
(* Where a row is routed.                                                  *)

\* The passage of a row through a table ends in a leaf.
EndsInLeaf(tree, nodes) ==
  nodes \in Seq(DOMAIN tree) /\ nodes # <<>> /\ Last(nodes) \in LeafNodes(tree)

\* The node a row passes after n.
Child(tree, x, n) == IF GoesLeft(tree[n], x) THEN tree[n].left ELSE tree[n].right

\* The last of a sequence that is put behind a node is the last of all.
LEMMA LastBehind ==
  ASSUME NEW S, NEW a \in S, NEW q \in Seq(S), q # <<>>
  PROVE  <<a>> \o q \in Seq(S) /\ <<a>> \o q # <<>> /\ Last(<<a>> \o q) = Last(q)
  <1>1. PICK p : p = <<a>> /\ p \in Seq(S) /\ Len(p) = 1
    <2>1. <<a>> \in Seq(S) /\ Len(<<a>>) = 1
      OBVIOUS
    <2> QED
      BY <2>1
  <1>2. PICK n \in Nat : n = Len(q) /\ n # 0
    OBVIOUS
  <1>3. PICK o : o = p \o q
    OBVIOUS
  <1>4. o \in Seq(S) /\ Len(o) = 1 + n /\ \A i \in 1..n : o[1 + i] = q[i]
    BY <1>1, <1>2, <1>3, Joins
  <1>5. n \in 1..n /\ Last(q) = q[n] /\ Last(o) = o[1 + n]
    BY <1>2, <1>4 DEF Last
  <1>6. o # <<>>
    BY <1>2, <1>4
  <1> QED
    BY <1>1, <1>3, <1>4, <1>5, <1>6

\* Route follows the children of the root.
AreSteps(tree, x, c) ==
  \A n \in DOMAIN tree :
    c[n] = IF tree[n].kind = "leaf" THEN <<n>> ELSE <<n>> \o c[Child(tree, x, n)]

\* The passage of a row through a table, node by node.
LEMMA RouteBySteps ==
  ASSUME NEW tree, IsTable(tree), NEW x
  PROVE  \E c : AreSteps(tree, x, c) /\ Route(tree, x) = c[1]
  <1>1. PICK N \in Nat \ {0} : N = Len(tree) /\ DOMAIN tree = 1..N
    BY DEF IsTable
  <1>2. \A n \in 1..N : tree[n].kind # "leaf" => Child(tree, x, n) \in n + 1..N
    BY <1>1 DEF IsTable, Child
  <1> DEFINE Step(f, n) == IF tree[n].kind = "leaf" THEN <<n>> ELSE <<n>> \o f[Child(tree, x, n)]
             Solves(f, i) == f = [n \in i..N |-> Step(f, n)]
  <1>3. PICK S : S = {i \in 1..N : \E f : Solves(f, i)}
    OBVIOUS
  <1>4. 1..N \subseteq S
    <2>1. ASSUME NEW i \in 1..N, i + 1..N \subseteq S PROVE i \in S
      <3>1. PICK f : i < N => Solves(f, i + 1)
        <4>1. CASE i < N
          <5>1. i + 1 \in i + 1..N
            BY <4>1
          <5>2. i + 1 \in S
            BY <2>1, <5>1
          <5> QED
            BY <1>3, <5>2
        <4> QED
          BY <4>1
      <3>2. PICK h : h = [n \in i..N |-> IF n = i THEN Step(f, i) ELSE f[n]]
        OBVIOUS
      <3>3. ASSUME NEW n \in i..N PROVE h[n] = Step(h, n)
        <4>1. n \in 1..N
          OBVIOUS
        <4>2. ASSUME tree[n].kind # "leaf" PROVE h[Child(tree, x, n)] = f[Child(tree, x, n)]
          <5>1. Child(tree, x, n) \in n + 1..N
            BY <1>2, <4>1, <4>2
          <5>2. Child(tree, x, n) \in i..N /\ Child(tree, x, n) # i
            BY <5>1
          <5> QED
            BY <3>2, <5>2
        <4>3. CASE n = i
          <5>1. h[n] = Step(f, n)
            BY <3>2, <4>3
          <5> QED
            BY <4>2, <5>1
        <4>4. CASE n # i
          <5>1. i < N /\ n \in i + 1..N
            BY <4>4
          <5>2. f[n] = Step(f, n)
            BY <3>1, <5>1
          <5>3. h[n] = f[n]
            BY <3>2, <4>4
          <5> QED
            BY <4>2, <5>2, <5>3
        <4> QED
          BY <4>3, <4>4
      <3>4. Solves(h, i)
        <4> DEFINE Next(n) == Step(h, n)
        <4>1. \A n \in i..N : h[n] = Next(n)
          BY <3>3
        <4>2. h = [n \in i..N |-> h[n]]
          BY <3>2
        <4>3. h = [n \in i..N |-> Next(n)]
          <5> HIDE DEF Next
          <5> QED
            BY <4>1, <4>2
        <4> QED
          BY <4>3
      <3> QED
        BY <1>3, <3>4
    <2> HIDE DEF Solves, Step
    <2> QED
      BY <2>1, Downward
  <1>5. PICK c : c = CHOOSE f : Solves(f, 1)
    OBVIOUS
  <1>6. Solves(c, 1)
    <2>1. 1 \in S
      BY <1>4
    <2>2. \E f : Solves(f, 1)
      BY <1>3, <2>1
    <2> HIDE DEF Solves
    <2> QED
      BY <1>5, <2>2
  <1>7. Route(tree, x) = c[1]
    <2>1. Route(tree, x) =
            (CHOOSE f : f = [n \in DOMAIN tree |->
                IF tree[n].kind = "leaf" THEN <<n>>
                ELSE <<n>> \o f[IF GoesLeft(tree[n], x) THEN tree[n].left ELSE tree[n].right]])[1]
      BY DEF Route
    <2> QED
      BY <1>1, <1>5, <2>1 DEF Child
  <1>8. \A n \in 1..N : c[n] = Step(c, n)
    BY <1>6
  <1>9. AreSteps(tree, x, c)
    BY <1>1, <1>8 DEF AreSteps
  <1> QED
    BY <1>7, <1>9

\* Route follows the children to a leaf.
LEMMA RouteEndsInLeaf ==
  ASSUME NEW tree, IsTable(tree), NEW x
  PROVE  EndsInLeaf(tree, Route(tree, x))
  <1>1. PICK N \in Nat \ {0} : N = Len(tree) /\ DOMAIN tree = 1..N
    BY DEF IsTable
  <1>2. \A n \in 1..N : tree[n].kind # "leaf" => Child(tree, x, n) \in n + 1..N
    BY <1>1 DEF IsTable, Child
  <1>7. PICK c : AreSteps(tree, x, c) /\ Route(tree, x) = c[1]
    BY RouteBySteps
  <1>8. \A n \in 1..N : c[n] = IF tree[n].kind = "leaf" THEN <<n>> ELSE <<n>> \o c[Child(tree, x, n)]
    BY <1>1, <1>7 DEF AreSteps
  <1>9. PICK T : T = {n \in 1..N : EndsInLeaf(tree, c[n])}
    OBVIOUS
  <1>10. 1..N \subseteq T
    <2>1. ASSUME NEW n \in 1..N, n + 1..N \subseteq T PROVE n \in T
      <3>1. CASE tree[n].kind = "leaf"
        <4>1. c[n] = <<n>>
          BY <1>8, <3>1
        <4>2. <<n>> \in Seq(1..N) /\ <<n>> # <<>> /\ Last(<<n>>) = n
          BY DEF Last
        <4>3. n \in LeafNodes(tree)
          BY <1>1, <3>1 DEF LeafNodes
        <4> QED
          BY <1>1, <1>9, <4>1, <4>2, <4>3 DEF EndsInLeaf
      <3>2. CASE tree[n].kind # "leaf"
        <4>1. PICK k \in n + 1..N : k = Child(tree, x, n)
          BY <1>2, <3>2
        <4>2. c[n] = <<n>> \o c[k]
          BY <1>8, <3>2, <4>1
        <4>3. EndsInLeaf(tree, c[k])
          BY <1>9, <2>1
        <4>4. PICK q : q = c[k] /\ q \in Seq(1..N) /\ q # <<>> /\ Last(q) \in LeafNodes(tree)
          BY <1>1, <4>3 DEF EndsInLeaf
        <4>5. <<n>> \o q \in Seq(1..N) /\ <<n>> \o q # <<>> /\ Last(<<n>> \o q) = Last(q)
          BY <4>4, LastBehind
        <4>6. EndsInLeaf(tree, c[n])
          BY <1>1, <4>2, <4>4, <4>5 DEF EndsInLeaf
        <4> QED
          BY <1>9, <4>6
      <3> QED
        BY <3>1, <3>2
    <2> QED
      BY <2>1, Downward
  <1>11. 1 \in T
    BY <1>10
  <1> QED
    BY <1>7, <1>9, <1>11

-----------------------------------------------------------------------------
(* Extremes, and the class with the greatest score.                        *)

\* k is the first of the places up to n with the greatest number.
IsFirstMax(s, n, k) ==
  /\ k \in 1..n /\ \A c \in 1..n : s[c] <= s[k]
  /\ \A c \in 1..k - 1 : s[c] < s[k]

\* ArgMax is a class whose score no other exceeds.
LEMMA ArgMaxOf ==
  ASSUME NEW K \in Nat \ {0}, NEW s \in [1..K -> Int]
  PROVE  ArgMax(s) \in 1..K /\ \A c \in 1..K : s[c] <= s[ArgMax(s)]
  <1>1. PICK S : S = {i \in 0..K - 1 : \E k : IsFirstMax(s, i + 1, k)}
    OBVIOUS
  <1>2. 0..K - 1 \subseteq S
    <2>1. 0 \in S
      <3>1. IsFirstMax(s, 1, 1)
        <4>1. \A c \in 1..1 : c = 1 /\ c \in 1..K
          OBVIOUS
        <4> QED
          BY <4>1 DEF IsFirstMax
      <3> QED
        BY <1>1, <3>1
    <2>2. ASSUME NEW i \in 1..K - 1, i - 1 \in S PROVE i \in S
      <3>1. PICK k : IsFirstMax(s, i, k)
        <4>1. (i - 1) + 1 = i
          OBVIOUS
        <4> QED
          BY <1>1, <2>2, <4>1
      <3>2. k \in 1..i /\ (\A c \in 1..i : s[c] <= s[k]) /\ \A c \in 1..k - 1 : s[c] < s[k]
        BY <3>1 DEF IsFirstMax
      <3>3. \A c \in 1..K : s[c] \in Int
        OBVIOUS
      <3>4. CASE s[i + 1] <= s[k]
        <4>1. \A c \in 1..i + 1 : c \in 1..i \/ c = i + 1
          OBVIOUS
        <4>2. \A c \in 1..i + 1 : s[c] <= s[k]
          BY <3>2, <3>4, <4>1
        <4>3. IsFirstMax(s, i + 1, k)
          BY <3>2, <4>2 DEF IsFirstMax
        <4> QED
          BY <1>1, <4>3
      <3>5. CASE ~(s[i + 1] <= s[k])
        <4>1. PICK t \in Int, u \in Int : t = s[i + 1] /\ u = s[k] /\ u < t
          BY <3>2, <3>3, <3>5
        <4>2. ASSUME NEW c \in 1..i PROVE s[c] < t
          <5>1. c \in 1..K /\ s[c] \in Int /\ s[c] <= u
            BY <3>2, <3>3, <4>1
          <5> QED
            BY <4>1, <5>1
        <4>3. ASSUME NEW c \in 1..i + 1 PROVE s[c] <= t
          <5>1. CASE c = i + 1
            BY <4>1, <5>1
          <5>2. CASE c # i + 1
            <6>1. c \in 1..i /\ s[c] \in Int
              BY <3>3, <5>2
            <6> QED
              BY <4>2, <6>1
          <5> QED
            BY <5>1, <5>2
        <4>4. (i + 1) - 1 = i /\ i + 1 \in 1..i + 1
          OBVIOUS
        <4>5. IsFirstMax(s, i + 1, i + 1)
          BY <4>1, <4>2, <4>3, <4>4 DEF IsFirstMax
        <4> QED
          BY <1>1, <4>5
      <3> QED
        BY <3>4, <3>5
    <2>3. PICK m \in Nat : m = K - 1
      OBVIOUS
    <2>4. 0..m \subseteq S
      BY <2>1, <2>2, <2>3, Upward
    <2> QED
      BY <2>3, <2>4
  <1>3. PICK k : IsFirstMax(s, K, k)
    <2>1. K - 1 \in S /\ (K - 1) + 1 = K
      BY <1>2
    <2> QED
      BY <1>1, <2>1
  <1>4. DOMAIN s = 1..K
    OBVIOUS
  <1> DEFINE First(j) == /\ \A c \in DOMAIN s : s[c] <= s[j]
                         /\ \A c \in 1..j - 1 : s[c] < s[j]
  <1>5. k \in DOMAIN s /\ First(k)
    BY <1>3, <1>4 DEF IsFirstMax
  <1>6. ArgMax(s) = CHOOSE j \in DOMAIN s : First(j)
    BY DEF ArgMax
  <1>7. ArgMax(s) \in DOMAIN s /\ First(ArgMax(s))
    <2> HIDE DEF First
    <2> QED
      BY <1>5, <1>6
  <1> QED
    BY <1>4, <1>7

\* A class that is strictly ahead of all others is the one.
LEMMA SoleMax ==
  ASSUME NEW K \in Nat \ {0}, NEW s \in [1..K -> Int], NEW w \in 1..K,
         \A c \in (1..K) \ {w} : s[c] < s[w]
  PROVE  ArgMax(s) = w
  <1>1. PICK k \in 1..K : k = ArgMax(s) /\ \A c \in 1..K : s[c] <= s[k]
    BY ArgMaxOf
  <1>2. s[w] <= s[k] /\ s[w] \in Int /\ s[k] \in Int
    BY <1>1
  <1>3. ~(s[k] < s[w])
    BY <1>2
  <1> QED
    BY <1>1, <1>3

\* A least and a greatest element.
HasExtremes(T) ==
  /\ Min(T) \in T /\ \A y \in T : Min(T) <= y
  /\ Max(T) \in T /\ \A y \in T : y <= Max(T)

\* Finitely many numbers have extremes.
LEMMA Extremes ==
  ASSUME NEW n \in Nat \ {0}, NEW f \in [1..n -> Int], NEW T, T = {f[i] : i \in 1..n}
  PROVE  HasExtremes(T)
  <1>1. PICK h : h = [i \in 1..n |-> -f[i]]
    OBVIOUS
  <1>2. h \in [1..n -> Int]
    BY <1>1
  <1>3. PICK a \in 1..n : \A c \in 1..n : f[c] <= f[a]
    BY ArgMaxOf
  <1>4. PICK b \in 1..n : \A c \in 1..n : h[c] <= h[b]
    BY <1>2, ArgMaxOf
  <1>5. \A c \in 1..n : f[b] <= f[c]
    <2> TAKE c \in 1..n
    <2>1. h[c] <= h[b] /\ h[c] = -f[c] /\ h[b] = -f[b] /\ f[c] \in Int /\ f[b] \in Int
      BY <1>1, <1>4
    <2> QED
      BY <2>1
  <1>6. T \in SUBSET Int
    OBVIOUS
  <1>7. PICK low, high : /\ low \in T /\ high \in T
                         /\ \A y \in T : low <= y /\ y <= high
    <2>1. f[b] \in T /\ f[a] \in T
      OBVIOUS
    <2>2. ASSUME NEW y \in T PROVE f[b] <= y /\ y <= f[a]
      <3>1. PICK c \in 1..n : y = f[c]
        OBVIOUS
      <3> QED
        BY <1>3, <1>5, <3>1
    <2> QED
      BY <2>1, <2>2
  <1>8. Min(T) \in T /\ \A y \in T : Min(T) <= y
    <2>1. Min(T) = CHOOSE x \in T : \A y \in T : x <= y
      BY DEF Min
    <2> QED
      BY <1>7, <2>1
  <1>9. Max(T) \in T /\ \A y \in T : y <= Max(T)
    <2>1. Max(T) = CHOOSE x \in T : \A y \in T : x >= y
      BY DEF Max
    <2>2. \E x \in T : \A y \in T : x >= y
      BY <1>6, <1>7
    <2>3. Max(T) \in T /\ \A y \in T : Max(T) >= y
      BY <2>1, <2>2
    <2> QED
      BY <1>6, <2>3
  <1> QED
    BY <1>8, <1>9 DEF HasExtremes

-----------------------------------------------------------------------------
(* What stages add to a score.                                             *)

\* Tables whose leaves are constants.
IsConstant(tree) == IsTable(tree) /\ \A n \in LeafNodes(tree) : tree[n].linear = <<>>

\* The value of a row lies between the extreme leaves of its table.
LEMMA ValueIsALeaf ==
  ASSUME NEW tree, IsConstant(tree), NEW x
  PROVE  /\ {Value(tree, x), Min(LeafVals(tree)), Max(LeafVals(tree))} \subseteq Int
         /\ Min(LeafVals(tree)) <= Value(tree, x) /\ Value(tree, x) <= Max(LeafVals(tree))
  <1>1. PICK N \in Nat \ {0} : N = Len(tree) /\ DOMAIN tree = 1..N
    BY DEF IsConstant, IsTable
  <1>2. \A n \in 1..N : tree[n].val \in Int
    BY <1>1 DEF IsConstant, IsTable
  <1>3. PICK k : k = Last(Route(tree, x)) /\ k \in LeafNodes(tree)
    BY RouteEndsInLeaf DEF IsConstant, EndsInLeaf
  <1>4. k \in 1..N /\ tree[k].linear = <<>>
    BY <1>1, <1>3 DEF IsConstant, LeafNodes
  <1>5. Value(tree, x) = tree[k].val
    <2> DEFINE Term(i) == TermAt(tree[k].linear[i], x[tree[k].linear[i].feat])
    <2>1. PICK none : none = [i \in DOMAIN tree[k].linear |-> Term(i)]
      OBVIOUS
    <2>2. DOMAIN tree[k].linear = 1..0
      BY <1>4
    <2>3. none \in [1..0 -> Int]
      <3>1. 1..0 = {}
        OBVIOUS
      <3> HIDE DEF Term
      <3> QED
        BY <2>1, <2>2, <3>1
    <2>4. Total(none) = 0
      BY <2>3, TotalIsNumber
    <2>5. Value(tree, x) = tree[k].val + Total(none)
      BY <1>3, <2>1 DEF Value, LeafValue
    <2> QED
      BY <1>2, <1>4, <2>4, <2>5
  <1>6. PICK f : f = [i \in 1..N |-> IF i \in LeafNodes(tree) THEN tree[i].val ELSE tree[k].val]
    OBVIOUS
  <1>7. f \in [1..N -> Int]
    BY <1>2, <1>4, <1>6
  <1>8. LeafVals(tree) = {f[i] : i \in 1..N}
    <2>1. LeafNodes(tree) \subseteq 1..N
      BY <1>1 DEF LeafNodes
    <2>2. \A i \in LeafNodes(tree) : i \in 1..N /\ tree[i].val = f[i]
      BY <1>6, <2>1
    <2>3. \A i \in 1..N : \E n \in LeafNodes(tree) : f[i] = tree[n].val
      BY <1>3, <1>6
    <2>4. LeafVals(tree) \subseteq {f[i] : i \in 1..N}
      BY <2>2 DEF LeafVals
    <2>5. {f[i] : i \in 1..N} \subseteq LeafVals(tree)
      BY <2>3 DEF LeafVals
    <2> QED
      BY <2>4, <2>5
  <1>9. HasExtremes(LeafVals(tree))
    BY <1>7, <1>8, Extremes
  <1>10. LeafVals(tree) \subseteq Int /\ tree[k].val \in LeafVals(tree)
    BY <1>3, <1>7, <1>8 DEF LeafVals
  <1> QED
    BY <1>5, <1>9, <1>10 DEF HasExtremes

\* The least and the greatest that a stage adds to a class.
LeastOf(stage, k) == IF stage.cls = k THEN Min(LeafVals(stage.tree)) ELSE 0
GreatestOf(stage, k) == IF stage.cls = k THEN Max(LeafVals(stage.tree)) ELSE 0

\* A stage adds a number between them.
LEMMA AddsBetween ==
  ASSUME NEW stage, IsConstant(stage.tree), NEW k, NEW x
  PROVE  /\ {Adds(stage, k, x), LeastOf(stage, k), GreatestOf(stage, k)} \subseteq Int
         /\ LeastOf(stage, k) <= Adds(stage, k, x) /\ Adds(stage, k, x) <= GreatestOf(stage, k)
  BY ValueIsALeaf DEF Adds, LeastOf, GreatestOf

\* The stages of a constant forest.
AreStages(St) == \A s \in St : IsConstant(s.tree)

\* What each stage of a forest adds to the score of a class.
AddsOf(q, k, x) == [i \in DOMAIN q |-> Adds(q[i], k, x)]

\* These are numbers.
LEMMA AddsAreNumbers ==
  ASSUME NEW St, AreStages(St), NEW k, NEW x, NEW q \in Seq(St)
  PROVE  /\ AddsOf(q, k, x) \in [1..Len(q) -> Int]
         /\ ForestScore(q, k, x) \in Int
  <1>1. PICK n \in Nat : n = Len(q) /\ DOMAIN q = 1..n /\ \A i \in 1..n : q[i] \in St
    OBVIOUS
  <1>2. \A i \in 1..n : Adds(q[i], k, x) \in Int
    BY <1>1, AddsBetween DEF AreStages
  <1>3. PICK a : a = AddsOf(q, k, x)
    OBVIOUS
  <1>4. a \in [1..n -> Int]
    BY <1>1, <1>2, <1>3 DEF AddsOf
  <1>5. Total(a) \in Int
    BY <1>4, TotalIsNumber
  <1> QED
    BY <1>1, <1>3, <1>4, <1>5 DEF ForestScore, AddsOf

\* A forest followed by another scores what both score.
LEMMA ScoresJoin ==
  ASSUME NEW St, AreStages(St), NEW k, NEW x, NEW p \in Seq(St), NEW q \in Seq(St)
  PROVE  ForestScore(p \o q, k, x) = ForestScore(p, k, x) + ForestScore(q, k, x)
  <1>1. PICK n \in Nat, m \in Nat : n = Len(p) /\ m = Len(q)
    OBVIOUS
  <1>2. PICK o : o = p \o q
    OBVIOUS
  <1>3. o \in Seq(St) /\ Len(o) = n + m /\ (\A i \in 1..n : o[i] = p[i]) /\ \A i \in 1..m : o[n + i] = q[i]
    BY <1>1, <1>2, Joins
  <1>4. PICK a, b, c : /\ a = AddsOf(p, k, x) /\ b = AddsOf(q, k, x)
                       /\ c = AddsOf(o, k, x)
    OBVIOUS
  <1>5. a \in [1..n -> Int] /\ b \in [1..m -> Int] /\ c \in [1..n + m -> Int]
    <2>1. a \in [1..n -> Int]
      BY <1>1, <1>4, AddsAreNumbers
    <2>2. b \in [1..m -> Int]
      BY <1>1, <1>4, AddsAreNumbers
    <2>3. c \in [1..Len(o) -> Int]
      BY <1>3, <1>4, AddsAreNumbers
    <2> QED
      BY <1>3, <2>1, <2>2, <2>3
  <1>6. DOMAIN p = 1..n /\ DOMAIN q = 1..m /\ DOMAIN o = 1..n + m
    BY <1>1, <1>3
  <1>7. \A i \in 1..n : c[i] = a[i]
    <2> TAKE i \in 1..n
    <2>1. i \in 1..n + m
      OBVIOUS
    <2> QED
      BY <1>3, <1>4, <1>6, <2>1 DEF AddsOf
  <1>8. \A i \in 1..m : c[n + i] = b[i]
    <2> TAKE i \in 1..m
    <2>1. n + i \in 1..n + m
      OBVIOUS
    <2> QED
      BY <1>3, <1>4, <1>6, <2>1 DEF AddsOf
  <1>9. Total(c) = Total(a) + Total(b)
    BY <1>5, <1>7, <1>8, TotalJoins, ZenonT(60)
  <1> QED
    BY <1>2, <1>4, <1>9 DEF ForestScore, AddsOf

-----------------------------------------------------------------------------
(* The scores of a forest cut into stages.                                 *)

\* What each stage of a packed forest scores.
ScoresOf(P, k, x) == [i \in DOMAIN P |-> ForestScore(P[i], k, x)]

\* These are numbers.
LEMMA ScoresAreInts ==
  ASSUME NEW St, AreStages(St), NEW k, NEW x, NEW n \in Nat, NEW P \in [1..n -> Seq(St)]
  PROVE  ScoresOf(P, k, x) \in [1..n -> Int]
  <1>1. \A i \in 1..n : P[i] \in Seq(St)
    OBVIOUS
  <1>2. \A i \in 1..n : ForestScore(P[i], k, x) \in Int
    BY <1>1, AddsAreNumbers
  <1>3. DOMAIN P = 1..n
    OBVIOUS
  <1> QED
    BY <1>2, <1>3 DEF ScoresOf

\* A flattened forest scores the sum of its stages.
LEMMA ScoresFlatten ==
  ASSUME NEW St, AreStages(St), NEW k, NEW x, NEW n \in Nat \ {0}, NEW P \in [1..n -> Seq(St)]
  PROVE  ForestScore(FlattenSeq(P), k, x) = Total(ScoresOf(P, k, x))
  <1>1. PICK f : AreJoinedTo(St, n, P, f) /\ FlattenSeq(P) = f[n]
    BY FlattensByJoining
  <1>2. PICK b : b = ScoresOf(P, k, x) /\ b \in [1..n -> Int]
    BY ScoresAreInts
  <1>3. \A i \in 1..n : b[i] = ForestScore(P[i], k, x)
    BY <1>2 DEF ScoresOf
  <1>4. PICK h : Runs(n, b, h) /\ Total(b) = h[n]
    BY <1>2, TotalRuns
  <1>5. PICK T : T = {i \in 0..n : i = 0 \/ ForestScore(f[i], k, x) = h[i]}
    OBVIOUS
  <1>6. 0..n \subseteq T
    <2>1. 0 \in T
      BY <1>5
    <2>2. ASSUME NEW i \in 1..n, i - 1 \in T PROVE i \in T
      <3>1. h[i] = h[i - 1] + b[i] /\ h[i - 1] \in Int /\ h[0] = 0 /\ b[i] \in Int
        <4>1. i - 1 \in 0..n
          OBVIOUS
        <4> QED
          BY <1>2, <1>4, <4>1 DEF Runs
      <3>2. CASE i = 1
        <4>1. f[1] = P[1]
          BY <1>1 DEF AreJoinedTo
        <4>2. h[1] = 0 + b[1]
          BY <3>1, <3>2
        <4>3. b[1] = ForestScore(P[1], k, x) /\ b[1] \in Int
          BY <1>2, <1>3, <3>2
        <4>4. ForestScore(f[i], k, x) = h[i]
          BY <3>2, <4>1, <4>2, <4>3
        <4> QED
          BY <1>5, <4>4
      <3>3. CASE i # 1
        <4>1. i \in 2..n /\ i - 1 \in 1..n
          BY <3>3
        <4>2. f[i] = f[i - 1] \o P[i] /\ f[i - 1] \in Seq(St) /\ P[i] \in Seq(St)
          BY <1>1, <4>1 DEF AreJoinedTo
        <4>3. ForestScore(f[i], k, x) = ForestScore(f[i - 1], k, x) + ForestScore(P[i], k, x)
          BY <4>2, ScoresJoin
        <4>4. ForestScore(f[i - 1], k, x) = h[i - 1]
          BY <1>5, <2>2, <4>1
        <4>5. ForestScore(f[i], k, x) = h[i]
          BY <1>3, <3>1, <4>3, <4>4
        <4> QED
          BY <1>5, <4>5
      <3> QED
        BY <3>2, <3>3
    <2> QED
      BY <2>1, <2>2, Upward
  <1>7. n \in T /\ n # 0
    BY <1>6
  <1> QED
    BY <1>1, <1>2, <1>4, <1>5, <1>7

\* Two adjacent slices make a slice.
LEMMA SlicesJoin ==
  ASSUME NEW S, NEW s \in Seq(S), NEW d \in 0..Len(s), NEW c \in 0..d
  PROVE  /\ SubSeq(s, 1, c) \in Seq(S) /\ SubSeq(s, c + 1, d) \in Seq(S)
         /\ SubSeq(s, 1, d) = SubSeq(s, 1, c) \o SubSeq(s, c + 1, d)
  <1>1. PICK p : /\ p = SubSeq(s, 1, c) /\ p \in Seq(S) /\ Len(p) = c
                 /\ \A i \in 1..c : p[i] = s[i]
    <2>1. c \in 0..Len(s)
      OBVIOUS
    <2> QED
      BY <2>1, FirstSlices, ZenonT(60)
  <1>2. PICK q : /\ q = SubSeq(s, c + 1, d) /\ q \in Seq(S) /\ Len(q) = d - c
                 /\ \A i \in 1..d - c : q[i] = s[c + i]
    <2>1. c \in 0..Len(s) /\ d \in c..Len(s)
      OBVIOUS
    <2>2. /\ SubSeq(s, c + 1, d) \in Seq(S) /\ Len(SubSeq(s, c + 1, d)) = d - c
          /\ \A i \in 1..d - c : c + i \in 1..Len(s) /\ SubSeq(s, c + 1, d)[i] = s[c + i]
      BY <2>1, Slices
    <2> QED
      BY <2>2
  <1>3. PICK r : /\ r = SubSeq(s, 1, d) /\ r \in Seq(S) /\ Len(r) = d
                 /\ \A i \in 1..d : r[i] = s[i]
    BY FirstSlices, ZenonT(60)
  <1>4. PICK o : o = p \o q
    OBVIOUS
  <1>5. /\ o \in Seq(S) /\ Len(o) = d
        /\ (\A i \in 1..c : o[i] = p[i]) /\ \A i \in 1..d - c : o[c + i] = q[i]
    BY <1>1, <1>2, <1>4, Joins
  <1>6. ASSUME NEW i \in 1..d PROVE r[i] = o[i]
    <2>1. CASE i <= c
      <3>1. i \in 1..c
        BY <2>1
      <3> QED
        BY <1>1, <1>3, <1>5, <3>1
    <2>2. CASE ~(i <= c)
      <3>1. PICK j \in 1..d - c : i = c + j
        <4>1. i - c \in 1..d - c /\ i = c + (i - c)
          BY <2>2
        <4> QED
          BY <4>1
      <3> QED
        BY <1>2, <1>3, <1>5, <3>1
    <2> QED
      BY <2>1, <2>2
  <1>7. r = o
    BY <1>3, <1>5, <1>6
  <1> QED
    BY <1>1, <1>2, <1>3, <1>4, <1>7

\* Stages of w trees each, cut from a forest in order.
AreCut(forest, w, n, P) ==
  /\ w * n = Len(forest)
  /\ P = [i \in 1..n |-> SubSeq(forest, w * (i - 1) + 1, w * i)]

\* Bounds of the i-th cut.
LEMMA CutBounds ==
  ASSUME NEW w \in Nat \ {0}, NEW n \in Nat \ {0}, NEW i \in 1..n
  PROVE  w * i \in 0..w * n /\ w * (i - 1) \in 0..w * i /\ w * i = w * (i - 1) + w
  OBVIOUS

\* A forest scores the sum of the stages it is cut into.
LEMMA CutsScore ==
  ASSUME NEW St, AreStages(St), NEW k, NEW x, NEW forest \in Seq(St),
         NEW w \in Nat \ {0}, NEW n \in Nat \ {0}, NEW P, AreCut(forest, w, n, P)
  PROVE  P \in [1..n -> Seq(St)] /\ ForestScore(forest, k, x) = Total(ScoresOf(P, k, x))
  <1>1. w * n = Len(forest) /\ P = [i \in 1..n |-> SubSeq(forest, w * (i - 1) + 1, w * i)]
    BY DEF AreCut
  <1> DEFINE FirstOf(i) == SubSeq(forest, 1, w * i)
  <1>2. ASSUME NEW i \in 1..n
        PROVE  /\ P[i] \in Seq(St) /\ FirstOf(i - 1) \in Seq(St) /\ FirstOf(i) = FirstOf(i - 1) \o P[i]
    <2>1. PICK c, d : c = w * (i - 1) /\ d = w * i
      OBVIOUS
    <2>2. d \in 0..Len(forest) /\ c \in 0..d
      BY <1>1, <2>1, CutBounds
    <2>3. /\ SubSeq(forest, 1, c) \in Seq(St) /\ SubSeq(forest, c + 1, d) \in Seq(St)
          /\ SubSeq(forest, 1, d) = SubSeq(forest, 1, c) \o SubSeq(forest, c + 1, d)
      BY <2>2, SlicesJoin
    <2>4. P[i] = SubSeq(forest, c + 1, d)
      BY <1>1, <2>1
    <2> QED
      BY <2>1, <2>3, <2>4
  <1>3. P \in [1..n -> Seq(St)]
    <2>1. PICK D : D = Seq(St)
      OBVIOUS
    <2>2. DOMAIN P = 1..n /\ P = [i \in 1..n |-> P[i]]
      BY <1>1
    <2>3. \A i \in 1..n : P[i] \in D
      BY <1>2, <2>1
    <2>4. P \in [1..n -> D]
      BY <2>2, <2>3
    <2> QED
      BY <2>1, <2>4
  <1>4. PICK b : b = ScoresOf(P, k, x) /\ b \in [1..n -> Int]
    BY <1>3, ScoresAreInts
  <1>5. \A i \in 1..n : b[i] = ForestScore(P[i], k, x)
    BY <1>3, <1>4 DEF ScoresOf
  <1>6. PICK h : Runs(n, b, h) /\ Total(b) = h[n]
    BY <1>4, TotalRuns
  <1>7. PICK T : T = {i \in 0..n : ForestScore(FirstOf(i), k, x) = h[i]}
    OBVIOUS
  <1>8. 0..n \subseteq T
    <2>1. 0 \in T
      <3>1. PICK none : none = SubSeq(forest, 1, 0) /\ none \in Seq(St) /\ Len(none) = 0
        <4>1. 0 \in 0..Len(forest)
          OBVIOUS
        <4> QED
          BY <4>1, FirstSlices
      <3>2. PICK a : a = AddsOf(none, k, x) /\ a \in [1..0 -> Int]
        <4>1. AddsOf(none, k, x) \in [1..Len(none) -> Int]
          BY <3>1, AddsAreNumbers
        <4> QED
          BY <3>1, <4>1
      <3>3. ForestScore(none, k, x) = 0
        BY <3>2, TotalIsNumber DEF ForestScore, AddsOf
      <3>4. FirstOf(0) = none
        <4>1. w * 0 = 0
          OBVIOUS
        <4> QED
          BY <3>1, <4>1
      <3>5. h[0] = 0
        BY <1>6 DEF Runs
      <3>6. 0 \in 0..n
        OBVIOUS
      <3> HIDE DEF FirstOf
      <3> QED
        BY <1>7, <3>3, <3>4, <3>5, <3>6
    <2>2. ASSUME NEW i \in 1..n, i - 1 \in T PROVE i \in T
      <3>1. h[i] = h[i - 1] + b[i]
        BY <1>6 DEF Runs
      <3>2. ForestScore(FirstOf(i), k, x) = ForestScore(FirstOf(i - 1), k, x) + ForestScore(P[i], k, x)
        <4>1. PICK p, q : p = FirstOf(i - 1) /\ q = P[i]
          OBVIOUS
        <4>2. p \in Seq(St) /\ q \in Seq(St) /\ FirstOf(i) = p \o q
          BY <1>2, <4>1
        <4>3. ForestScore(p \o q, k, x) = ForestScore(p, k, x) + ForestScore(q, k, x)
          BY <4>2, ScoresJoin
        <4> QED
          BY <4>1, <4>2, <4>3
      <3>3. ForestScore(FirstOf(i - 1), k, x) = h[i - 1]
        BY <1>7, <2>2
      <3>4. ForestScore(FirstOf(i), k, x) = h[i]
        BY <1>5, <3>1, <3>2, <3>3
      <3> QED
        BY <1>7, <3>4
    <2> HIDE DEF FirstOf
    <2> QED
      BY <2>1, <2>2, Upward
  <1>9. n \in T
    BY <1>8
  <1>10. FirstOf(n) = forest
    BY <1>1, SubSeqFull
  <1> QED
    BY <1>3, <1>4, <1>6, <1>7, <1>9, <1>10

-----------------------------------------------------------------------------
(* The early exit.                                                         *)

\* The least and the greatest that a stage of several trees adds to a class.
LeastIn(q, k)    == Total([j \in DOMAIN q |-> LeastOf(q[j], k)])
GreatestIn(q, k) == Total([j \in DOMAIN q |-> GreatestOf(q[j], k)])

\* Its score is between them.
LEMMA StageBetween ==
  ASSUME NEW St, AreStages(St), NEW k, NEW x, NEW q \in Seq(St)
  PROVE  /\ {LeastIn(q, k), ForestScore(q, k, x), GreatestIn(q, k)} \subseteq Int
         /\ LeastIn(q, k) <= ForestScore(q, k, x) /\ ForestScore(q, k, x) <= GreatestIn(q, k)
  <1>1. PICK n \in Nat : n = Len(q) /\ DOMAIN q = 1..n /\ \A j \in 1..n : q[j] \in St
    OBVIOUS
  <1>2. PICK low, add, high : /\ low = [j \in 1..n |-> LeastOf(q[j], k)]
                              /\ add = [j \in 1..n |-> Adds(q[j], k, x)]
                              /\ high = [j \in 1..n |-> GreatestOf(q[j], k)]
    OBVIOUS
  <1>3. \A j \in 1..n : /\ LeastOf(q[j], k) \in Int /\ Adds(q[j], k, x) \in Int /\ GreatestOf(q[j], k) \in Int
                        /\ LeastOf(q[j], k) <= Adds(q[j], k, x) /\ Adds(q[j], k, x) <= GreatestOf(q[j], k)
    <2> TAKE j \in 1..n
    <2>1. IsConstant(q[j].tree)
      BY <1>1 DEF AreStages
    <2> QED
      BY <2>1, AddsBetween
  <1>4. low \in [1..n -> Int] /\ add \in [1..n -> Int] /\ high \in [1..n -> Int]
    BY <1>2, <1>3
  <1>5. \A j \in 1..n : low[j] <= add[j] /\ add[j] <= high[j]
    BY <1>2, <1>3
  <1>6. Total(low) <= Total(add) /\ Total(add) <= Total(high)
    BY <1>4, <1>5, TotalGrows
  <1>7. {Total(low), Total(add), Total(high)} \subseteq Int
    BY <1>4, TotalIsNumber
  <1>8. LeastIn(q, k) = Total(low) /\ ForestScore(q, k, x) = Total(add) /\ GreatestIn(q, k) = Total(high)
    BY <1>1, <1>2 DEF LeastIn, ForestScore, GreatestIn
  <1> QED
    BY <1>6, <1>7, <1>8

\* What the remaining stages add is between Least and Greatest.
LEMMA RestBetween ==
  ASSUME NEW St, AreStages(St), NEW k, NEW x, NEW n \in Nat, NEW R \in [1..n -> Seq(St)]
  PROVE  /\ {Least(R, k), Total(ScoresOf(R, k, x)), Greatest(R, k)} \subseteq Int
         /\ Least(R, k) <= Total(ScoresOf(R, k, x)) /\ Total(ScoresOf(R, k, x)) <= Greatest(R, k)
  <1>1. DOMAIN R = 1..n /\ \A i \in 1..n : R[i] \in Seq(St)
    OBVIOUS
  <1>2. PICK low, add, high : /\ low = [i \in 1..n |-> LeastIn(R[i], k)]
                              /\ add = [i \in 1..n |-> ForestScore(R[i], k, x)]
                              /\ high = [i \in 1..n |-> GreatestIn(R[i], k)]
    OBVIOUS
  <1>3. \A i \in 1..n :
           /\ LeastIn(R[i], k) \in Int /\ ForestScore(R[i], k, x) \in Int /\ GreatestIn(R[i], k) \in Int
           /\ LeastIn(R[i], k) <= ForestScore(R[i], k, x) /\ ForestScore(R[i], k, x) <= GreatestIn(R[i], k)
    BY <1>1, StageBetween
  <1>4. low \in [1..n -> Int] /\ add \in [1..n -> Int] /\ high \in [1..n -> Int]
    BY <1>2, <1>3
  <1>5. \A i \in 1..n : low[i] <= add[i] /\ add[i] <= high[i]
    BY <1>2, <1>3
  <1>6. Total(low) <= Total(add) /\ Total(add) <= Total(high)
    BY <1>4, <1>5, TotalGrows
  <1>7. {Total(low), Total(add), Total(high)} \subseteq Int
    BY <1>4, TotalIsNumber
  <1>8. Total(ScoresOf(R, k, x)) = Total(add)
    BY <1>1, <1>2 DEF ScoresOf
  <1>9. Least(R, k) = Total(low)
    BY <1>1, <1>2 DEF Least, LeastIn, LeastOf
  <1>10. Greatest(R, k) = Total(high)
    BY <1>1, <1>2 DEF Greatest, GreatestIn, GreatestOf
  <1> QED
    BY <1>6, <1>7, <1>8, <1>9, <1>10

\* A sequence of n elements is a function on the first n numbers.
LEMMA ListsOfLength ==
  ASSUME NEW S, NEW n \in Nat, NEW s \in Seq(S), Len(s) = n
  PROVE  s \in [1..n -> S]
  OBVIOUS

\* A sequence that is not empty has a length.
LEMMA NonemptyLists ==
  ASSUME NEW S, NEW s \in Seq(S), s # <<>>
  PROVE  Len(s) \in Nat \ {0} /\ s \in [1..Len(s) -> S]
  OBVIOUS

\* Where the score of a class can end, from what the first n stages score.
EndsBetween(first, rest, forest, k, x) ==
  /\ {ForestScore(first, k, x), Least(rest, k), Greatest(rest, k), ForestScore(forest, k, x)} \subseteq Int
  /\ ForestScore(first, k, x) + Least(rest, k) <= ForestScore(forest, k, x)
  /\ ForestScore(forest, k, x) <= ForestScore(first, k, x) + Greatest(rest, k)

\* P is the n stages p followed by the m stages r.
Follow(St, n, m, p, r, P) ==
  /\ n \in Nat /\ m \in Nat /\ p \in [1..n -> Seq(St)] /\ r \in [1..m -> Seq(St)]
  /\ P \in [1..n + m -> Seq(St)]
  /\ (\A i \in 1..n : P[i] = p[i]) /\ \A i \in 1..m : P[n + i] = r[i]

\* Their scores add up.
LEMMA ScoresSplit ==
  ASSUME NEW St, AreStages(St), NEW k, NEW x, NEW n, NEW m, NEW p, NEW r, NEW P,
         Follow(St, n, m, p, r, P)
  PROVE  Total(ScoresOf(P, k, x)) = Total(ScoresOf(p, k, x)) + Total(ScoresOf(r, k, x))
  <1> n \in Nat /\ m \in Nat /\ p \in [1..n -> Seq(St)] /\ r \in [1..m -> Seq(St)]
      /\ P \in [1..n + m -> Seq(St)]
    BY DEF Follow
  <1>0. (\A i \in 1..n : P[i] = p[i]) /\ \A i \in 1..m : P[n + i] = r[i]
    BY DEF Follow
  <1>1. PICK a : a = ScoresOf(p, k, x) /\ a \in [1..n -> Int]
    BY ScoresAreInts
  <1>2. PICK b : b = ScoresOf(r, k, x) /\ b \in [1..m -> Int]
    BY ScoresAreInts
  <1>3. PICK N \in Nat : N = n + m
    OBVIOUS
  <1>4. PICK c : c = ScoresOf(P, k, x) /\ c \in [1..n + m -> Int]
    <2>1. P \in [1..N -> Seq(St)]
      BY <1>3
    <2>2. ScoresOf(P, k, x) \in [1..N -> Int]
      BY <2>1, ScoresAreInts
    <2> QED
      BY <1>3, <2>2
  <1>5. DOMAIN p = 1..n /\ DOMAIN r = 1..m /\ DOMAIN P = 1..n + m
    OBVIOUS
  <1>6. \A i \in 1..n : c[i] = a[i]
    <2> TAKE i \in 1..n
    <2>1. i \in 1..n + m
      OBVIOUS
    <2> QED
      BY <1>0, <1>1, <1>4, <1>5, <2>1 DEF ScoresOf
  <1>7. \A i \in 1..m : c[n + i] = b[i]
    <2> TAKE i \in 1..m
    <2>1. n + i \in 1..n + m
      OBVIOUS
    <2> QED
      BY <1>0, <1>2, <1>4, <1>5, <2>1 DEF ScoresOf
  <1>8. Total(c) = Total(a) + Total(b)
    BY <1>1, <1>2, <1>4, <1>6, <1>7, TotalJoins
  <1> QED
    BY <1>1, <1>2, <1>4, <1>8

\* At a checkpoint, the score of the whole forest is between the ends.
LEMMA CheckpointBetween ==
  ASSUME NEW St, AreStages(St), NEW k, NEW x, NEW forest \in Seq(St),
         NEW w \in Nat \ {0}, NEW N \in Nat \ {0}, NEW P, AreCut(forest, w, N, P), NEW n \in 1..N - 1
  PROVE  EndsBetween(FlattenSeq(SubSeq(P, 1, n)), SubSeq(P, n + 1, N), forest, k, x)
  <1>1. P \in [1..N -> Seq(St)] /\ ForestScore(forest, k, x) = Total(ScoresOf(P, k, x))
    BY CutsScore
  <1>2. PICK Sq : Sq = Seq(St)
    OBVIOUS
  <1>3. P \in Seq(Sq) /\ Len(P) = N
    <2>1. P \in [1..N -> Sq]
      BY <1>1, <1>2
    <2> QED
      BY <2>1, ListsAreSequences
  <1>4. PICK m \in Nat : m = N - n /\ n + m = N
    OBVIOUS
  <1> n \in Nat \ {0}
    OBVIOUS
  <1>5. PICK p : p = SubSeq(P, 1, n) /\ p \in Seq(Sq) /\ Len(p) = n /\ \A i \in 1..n : p[i] = P[i]
    <2>1. n \in 0..Len(P)
      BY <1>3
    <2>2. /\ SubSeq(P, 1, n) \in Seq(Sq) /\ Len(SubSeq(P, 1, n)) = n
          /\ \A i \in 1..n : i \in 1..Len(P) /\ SubSeq(P, 1, n)[i] = P[i]
      BY <1>3, <2>1, FirstSlices
    <2> QED
      BY <2>2
  <1>6. PICK r : r = SubSeq(P, n + 1, N) /\ r \in Seq(Sq) /\ Len(r) = m /\ \A i \in 1..m : r[i] = P[n + i]
    <2>1. n \in 0..Len(P) /\ N \in n..Len(P)
      BY <1>3
    <2>2. /\ SubSeq(P, n + 1, N) \in Seq(Sq) /\ Len(SubSeq(P, n + 1, N)) = N - n
          /\ \A i \in 1..N - n : n + i \in 1..Len(P) /\ SubSeq(P, n + 1, N)[i] = P[n + i]
      BY <1>3, <2>1, Slices
    <2> QED
      BY <1>4, <2>2
  <1>7. p \in [1..n -> Seq(St)] /\ r \in [1..m -> Seq(St)]
    <2>1. p \in [1..n -> Sq]
      BY <1>5, ListsOfLength
    <2>2. r \in [1..m -> Sq]
      BY <1>6, ListsOfLength
    <2> QED
      BY <1>2, <2>1, <2>2
  <1>8. PICK a, b, c : a = ScoresOf(p, k, x) /\ b = ScoresOf(r, k, x) /\ c = ScoresOf(P, k, x)
    OBVIOUS
  <1>9. a \in [1..n -> Int]
    BY <1>7, <1>8, ScoresAreInts
  <1>10. P \in [1..n + m -> Seq(St)]
    BY <1>1, <1>4
  <1>11. \A i \in 1..n : P[i] = p[i]
    BY <1>5
  <1>12. \A i \in 1..m : P[n + i] = r[i]
    BY <1>6
  <1>13. Total(c) = Total(a) + Total(b)
    <2>1. Follow(St, n, m, p, r, P)
      BY <1>7, <1>10, <1>11, <1>12 DEF Follow
    <2>2. Total(ScoresOf(P, k, x)) = Total(ScoresOf(p, k, x)) + Total(ScoresOf(r, k, x))
      BY <2>1, ScoresSplit
    <2> QED
      BY <1>8, <2>2
  <1>14. ForestScore(FlattenSeq(p), k, x) = Total(a)
    BY <1>7, <1>8, ScoresFlatten
  <1>15. Total(a) \in Int
    BY <1>9, TotalIsNumber
  <1>16. /\ {Least(r, k), Total(b), Greatest(r, k)} \subseteq Int
         /\ Least(r, k) <= Total(b) /\ Total(b) <= Greatest(r, k)
    BY <1>7, <1>8, RestBetween
  <1>17. ForestScore(forest, k, x) = Total(a) + Total(b)
    BY <1>1, <1>8, <1>13
  <1>18. EndsBetween(FlattenSeq(p), r, forest, k, x)
    <2>1. PICK ta \in Int, tb \in Int, lo \in Int, hi \in Int :
            ta = Total(a) /\ tb = Total(b) /\ lo = Least(r, k) /\ hi = Greatest(r, k)
      BY <1>15, <1>16
    <2>2. lo <= tb /\ tb <= hi
      BY <1>16, <2>1
    <2>3. ta + lo <= ta + tb /\ ta + tb <= ta + hi /\ ta + tb \in Int
      BY <2>2
    <2> QED
      BY <1>14, <1>17, <2>1, <2>3 DEF EndsBetween
  <1> QED
    BY <1>5, <1>6, <1>18

\* Scores of K classes, between two ends.
AreBetween(K, lower, s, upper) ==
  /\ lower \in [1..K -> Int] /\ s \in [1..K -> Int] /\ upper \in [1..K -> Int]
  /\ \A c \in 1..K : lower[c] <= s[c] /\ s[c] <= upper[c]

\* A class that stays ahead of what the others can reach is the class of the last scores.
LEMMA AheadIsFinal ==
  ASSUME NEW K \in Nat \ {0}, NEW lower, NEW s, NEW upper, AreBetween(K, lower, s, upper),
         StaysAhead(lower, upper) # 0
  PROVE  StaysAhead(lower, upper) = ArgMax(s)
  <1> lower \in [1..K -> Int] /\ s \in [1..K -> Int] /\ upper \in [1..K -> Int]
    BY DEF AreBetween
  <1>1. PICK w \in 1..K : w = ArgMax(lower)
    BY ArgMaxOf
  <1>2. DOMAIN lower = 1..K
    OBVIOUS
  <1>3. /\ StaysAhead(lower, upper) = w
        /\ ~\E c \in (1..K) \ {w} : lower[w] <= upper[c]
    BY <1>1, <1>2 DEF StaysAhead
  <1>4. ASSUME NEW c \in (1..K) \ {w} PROVE s[c] < s[w]
    <2>1. lower[w] \in Int /\ upper[c] \in Int /\ s[c] \in Int /\ s[w] \in Int
      OBVIOUS
    <2>2. ~(lower[w] <= upper[c])
      BY <1>3
    <2>3. s[c] <= upper[c] /\ lower[w] <= s[w]
      BY DEF AreBetween
    <2> QED
      BY <2>1, <2>2, <2>3
  <1>5. ArgMax(s) = w
    BY <1>4, SoleMax
  <1> QED
    BY <1>3, <1>5

\* A forest of tables and what its scores start from.
IsForest(m) ==
  /\ DOMAIN m = {"base", "forest"}
  /\ m.base \in Seq(Int) /\ m.base # <<>>
  /\ m.forest \in Seq(Range(m.forest))
  /\ \A i \in DOMAIN m.forest : IsTable(m.forest[i].tree)

\* Bounds that move together.
LEMMA Shifted ==
  ASSUME NEW b \in Int, NEW f \in Int, NEW lo \in Int, NEW hi \in Int, NEW t \in Int,
         f + lo <= t, t <= f + hi
  PROVE  /\ {b + t, (b + f) + lo, (b + f) + hi} \subseteq Int
         /\ (b + f) + lo <= b + t /\ b + t <= (b + f) + hi
  OBVIOUS

\* The N stages of a packed forest with constant leaves.
AreStagesOf(m, N, P) ==
  /\ IsForest(m) /\ AreStages(Range(m.forest)) /\ N \in Nat \ {0}
  /\ \E w \in Nat \ {0} : AreCut(m.forest, w, N, P)

\* What the checkpoint after the first n of N stages certifies.
CertifiedAt(m, N, P, n, x) ==
  SuffixWinner(Scores([m EXCEPT !.forest = FlattenSeq(SubSeq(P, 1, n))], x), SubSeq(P, n + 1, N))

\* What a checkpoint certifies is the class that the whole forest gives.
LEMMA CheckpointIsExact ==
  ASSUME NEW m, NEW N, NEW P, AreStagesOf(m, N, P), NEW x, NEW n \in 1..N - 1,
         CertifiedAt(m, N, P, n, x) # 0
  PROVE  CertifiedAt(m, N, P, n, x) = Predicted(m, x)
  <1> PICK part, rest : /\ part = [m EXCEPT !.forest = FlattenSeq(SubSeq(P, 1, n))]
                        /\ rest = SubSeq(P, n + 1, N)
    OBVIOUS
  <1> SuffixWinner(Scores(part, x), rest) = CertifiedAt(m, N, P, n, x)
    BY DEF CertifiedAt
  <1>1. PICK K \in Nat \ {0} : K = Len(m.base) /\ m.base \in [1..K -> Int]
    <2>1. PICK D : D = Int
      OBVIOUS
    <2>2. m.base \in Seq(D) /\ m.base # <<>>
      BY <2>1 DEF AreStagesOf, IsForest
    <2>3. Len(m.base) \in Nat \ {0} /\ m.base \in [1..Len(m.base) -> D]
      BY <2>2, NonemptyLists
    <2> QED
      BY <2>1, <2>3
  <1>2. PICK first : first = FlattenSeq(SubSeq(P, 1, n))
    OBVIOUS
  <1>3. part.base = m.base /\ part.forest = first
    BY <1>2 DEF AreStagesOf, IsForest
  <1>4. PICK s, q : s = Scores(m, x) /\ q = Scores(part, x)
    OBVIOUS
  <1>5. \A k \in 1..K : EndsBetween(first, rest, m.forest, k, x)
    <2> TAKE k \in 1..K
    <2>1. PICK St : AreStages(St) /\ m.forest \in Seq(St)
      BY DEF AreStagesOf, IsForest
    <2>2. PICK w \in Nat \ {0}, N1 \in Nat \ {0} : N1 = N /\ AreCut(m.forest, w, N1, P)
      BY DEF AreStagesOf
    <2>3. n \in 1..N1 - 1
      BY <2>2
    <2>4. EndsBetween(FlattenSeq(SubSeq(P, 1, n)), SubSeq(P, n + 1, N1), m.forest, k, x)
      BY <2>1, <2>2, <2>3, CheckpointBetween
    <2> QED
      BY <1>2, <2>2, <2>4
  <1>6. /\ s = [k \in 1..K |-> m.base[k] + ForestScore(m.forest, k, x)]
        /\ q = [k \in 1..K |-> m.base[k] + ForestScore(first, k, x)]
    <2>1. DOMAIN m.base = 1..K
      BY <1>1
    <2> QED
      BY <1>3, <1>4, <2>1 DEF Scores
  <1>7. PICK lower, upper : /\ lower = [k \in 1..K |-> q[k] + Least(rest, k)]
                            /\ upper = [k \in 1..K |-> q[k] + Greatest(rest, k)]
    OBVIOUS
  <1>8. SuffixWinner(q, rest) = StaysAhead(lower, upper)
    <2>1. DOMAIN q = 1..K
      BY <1>6
    <2> QED
      BY <1>7, <2>1 DEF SuffixWinner
  <1>9. ASSUME NEW k \in 1..K
        PROVE  /\ s[k] \in Int /\ lower[k] \in Int /\ upper[k] \in Int
               /\ lower[k] <= s[k] /\ s[k] <= upper[k]
    <2>1. PICK b \in Int, f \in Int, lo \in Int, hi \in Int, t \in Int :
            /\ b = m.base[k] /\ f = ForestScore(first, k, x) /\ t = ForestScore(m.forest, k, x)
            /\ lo = Least(rest, k) /\ hi = Greatest(rest, k)
            /\ f + lo <= t /\ t <= f + hi
      BY <1>1, <1>5 DEF EndsBetween
    <2>2. s[k] = b + t /\ q[k] = b + f /\ lower[k] = (b + f) + lo /\ upper[k] = (b + f) + hi
      BY <1>6, <1>7, <2>1
    <2>3. /\ {b + t, (b + f) + lo, (b + f) + hi} \subseteq Int
          /\ (b + f) + lo <= b + t /\ b + t <= (b + f) + hi
      <3>1. f + lo <= t
        BY <2>1
      <3>2. t <= f + hi
        BY <2>1
      <3> QED
        BY <3>1, <3>2, Shifted
    <2>4. s[k] \in Int /\ lower[k] \in Int /\ upper[k] \in Int
      BY <2>2, <2>3
    <2> QED
      BY <2>2, <2>3, <2>4
  <1>10. s \in [1..K -> Int]
    BY <1>6, <1>9
  <1>11. lower \in [1..K -> Int]
    BY <1>7, <1>9
  <1>15. upper \in [1..K -> Int]
    BY <1>7, <1>9
  <1>12. \A k \in 1..K : lower[k] <= s[k] /\ s[k] <= upper[k]
    BY <1>9
  <1>13. StaysAhead(lower, upper) # 0
    BY <1>4, <1>8
  <1>14. StaysAhead(lower, upper) = ArgMax(s)
    <2>1. AreBetween(K, lower, s, upper)
      BY <1>10, <1>11, <1>12, <1>15 DEF AreBetween
    <2> QED
      BY <1>13, <2>1, AheadIsFinal
  <1> QED
    BY <1>4, <1>8, <1>14 DEF Predicted

\* A row that leaves at the first certifying checkpoint gets the certified class.
LEMMA ExitsAtACheckpoint ==
  ASSUME NEW winners, DOMAIN winners \in SUBSET Nat, NEW class,
         \A n \in DOMAIN winners : winners[n] # 0 => winners[n] = class, NEW full, full.class = class
  PROVE  FirstExit(winners, full).class = class
  <1>1. PICK exits : exits = {n \in DOMAIN winners : winners[n] # 0}
    OBVIOUS
  <1>2. CASE exits = {}
    <2>1. FirstExit(winners, full) = full
      BY <1>1, <1>2 DEF FirstExit
    <2> QED
      BY <2>1
  <1>3. CASE exits # {}
    <2>1. PICK least \in exits : \A n \in exits : least <= n
      BY <1>1, <1>3, LeastNatural
    <2>2. Min(exits) \in exits
      <3>1. Min(exits) = CHOOSE a \in exits : \A n \in exits : a <= n
        BY DEF Min
      <3> QED
        BY <2>1, <3>1
    <2>3. FirstExit(winners, full) = [class |-> winners[Min(exits)], evaluated |-> Min(exits)]
      BY <1>1, <1>3 DEF FirstExit
    <2>4. winners[Min(exits)] = class
      BY <1>1, <2>2
    <2> QED
      BY <2>3, <2>4
  <1> QED
    BY <1>2, <1>3

\* The stages of a packed forest are the forest, cut in order; or there are none.
ArePacked(forest, P) ==
  \/ P = <<>>
  \/ /\ AreStages(Range(forest))
     /\ \E w \in Nat \ {0}, n \in Nat \ {0} : AreCut(forest, w, n, P)

\* Rounds cuts a forest of whole rounds.
LEMMA RoundsAreCut ==
  ASSUME NEW S, NEW forest \in Seq(S), NEW k \in Nat \ {0}, InRounds(forest, k)
  PROVE  \E n \in Nat \ {0} : AreCut(forest, k, n, Rounds(forest, k))
  <1>1. PICK L \in Nat \ {0} : L = Len(forest) /\ L % k = 0
    BY DEF InRounds
  <1>2. PICK n \in Nat : n = L \div k /\ L = k * n + (L % k)
    <2>1. L \div k \in Nat /\ L = k * (L \div k) + (L % k)
      BY QuotientBounds
    <2> QED
      BY <2>1
  <1>3. k * n = L
    BY <1>1, <1>2
  <1>4. n # 0
    BY <1>1, <1>3
  <1>5. Rounds(forest, k) = [i \in 1..n |-> SubSeq(forest, k * (i - 1) + 1, k * i)]
    BY <1>1, <1>2 DEF Rounds
  <1> QED
    BY <1>1, <1>3, <1>4, <1>5 DEF AreCut

\* Stages of one tree cut any forest.
LEMMA SinglesAreCut ==
  ASSUME NEW S, NEW forest \in Seq(S), forest # <<>>
  PROVE  \E n \in Nat \ {0} : AreCut(forest, 1, n, [i \in DOMAIN forest |-> <<forest[i]>>])
  <1>1. PICK n \in Nat \ {0} : n = Len(forest) /\ DOMAIN forest = 1..n
    OBVIOUS
  <1>2. ASSUME NEW i \in 1..n PROVE SubSeq(forest, 1 * (i - 1) + 1, 1 * i) = <<forest[i]>>
    <2>1. 1 * (i - 1) + 1 = i /\ 1 * i = i
      OBVIOUS
    <2>2. PICK a : a = i - 1 /\ a \in 0..Len(forest) /\ i \in a..Len(forest) /\ a + 1 = i /\ i - a = 1
      BY <1>1
    <2>3. /\ SubSeq(forest, a + 1, i) \in Seq(S) /\ Len(SubSeq(forest, a + 1, i)) = i - a
          /\ \A j \in 1..i - a : a + j \in 1..Len(forest) /\ SubSeq(forest, a + 1, i)[j] = forest[a + j]
      BY <2>2, Slices
    <2>4. PICK q : q = SubSeq(forest, a + 1, i)
      OBVIOUS
    <2>5. q \in Seq(S) /\ Len(q) = 1
      BY <2>2, <2>3, <2>4
    <2>6. q[1] = forest[i]
      <3>1. 1 \in 1..i - a
        BY <2>2
      <3>2. q[1] = forest[a + 1]
        BY <2>3, <2>4, <3>1
      <3> QED
        BY <2>2, <3>2
    <2>7. q = <<q[1]>>
      BY <2>5
    <2> QED
      BY <2>1, <2>2, <2>4, <2>6, <2>7
  <1>3. [i \in DOMAIN forest |-> <<forest[i]>>] = [i \in 1..n |-> SubSeq(forest, 1 * (i - 1) + 1, 1 * i)]
    BY <1>1, <1>2
  <1>4. 1 * n = Len(forest)
    BY <1>1
  <1> QED
    BY <1>3, <1>4 DEF AreCut

\* A packed forest is cut from the forest.
LEMMA PacksCut ==
  ASSUME NEW m, IsForest(m)
  PROVE  ArePacked(m.forest, Pack(m).stages)
  <1>1. PICK forest : forest = m.forest /\ forest \in Seq(Range(forest))
    BY DEF IsForest
  <1>2. PICK k \in Nat \ {0} : k = Len(m.base)
    BY DEF IsForest
  <1>3. DOMAIN forest = 1..Len(forest)
    BY <1>1
  <1>4. ASSUME ~Affine(forest) PROVE AreStages(Range(forest))
    <2>1. ASSUME NEW i \in DOMAIN forest PROVE IsConstant(forest[i].tree)
      BY <1>1, <1>4 DEF Affine, IsConstant, IsForest
    <2> QED
      BY <2>1 DEF AreStages, Range
  <1>5. ASSUME ~Affine(forest), NEW w \in Nat \ {0}, InRounds(forest, w)
        PROVE  ArePacked(forest, Rounds(forest, w))
    <2>1. \E n \in Nat \ {0} : AreCut(forest, w, n, Rounds(forest, w))
      BY <1>1, <1>5, RoundsAreCut
    <2> QED
      BY <1>4, <1>5, <2>1 DEF ArePacked
  <1>6. ASSUME ~Affine(forest), forest # <<>>
        PROVE  ArePacked(forest, [i \in DOMAIN forest |-> <<forest[i]>>])
    <2>1. \E n \in Nat \ {0} : AreCut(forest, 1, n, [i \in DOMAIN forest |-> <<forest[i]>>])
      BY <1>1, <1>6, SinglesAreCut
    <2>2. 1 \in Nat \ {0}
      OBVIOUS
    <2> QED
      BY <1>4, <1>6, <2>1, <2>2 DEF ArePacked
  <1>7. ArePacked(forest, <<>>)
    BY DEF ArePacked
  <1>8. \/ Pack(m).stages = <<>>
        \/ ~Affine(forest) /\ InRounds(forest, 2) /\ Pack(m).stages = Rounds(forest, 2)
        \/ ~Affine(forest) /\ InRounds(forest, k) /\ Pack(m).stages = Rounds(forest, k)
        \/ /\ ~Affine(forest) /\ forest # <<>>
           /\ Pack(m).stages = [i \in DOMAIN forest |-> <<forest[i]>>]
    <2>1. PICK numeric \in BOOLEAN : numeric = \A i \in DOMAIN forest : Numeric(forest[i].tree)
      OBVIOUS
    <2>2. PICK mirrored \in BOOLEAN : mirrored = \A r \in Range(Rounds(forest, 2)) : Mirrored(r)
      OBVIOUS
    <2>3. PICK shared \in BOOLEAN : shared = (k >= 3 /\ InRounds(forest, k) /\ \A r \in Range(Rounds(forest, k)) : Shared(r))
      OBVIOUS
    <2>4. Pack(m) =
            IF ~numeric \/ forest = <<>> THEN [kind |-> "none", stages |-> <<>>]
            ELSE IF Affine(forest) THEN [kind |-> "affine", stages |-> <<>>]
            ELSE IF InRounds(forest, 2) /\ mirrored
                 THEN [kind |-> "binary_mirrored", stages |-> Rounds(forest, 2)]
            ELSE IF shared THEN [kind |-> "multiclass_shared", stages |-> Rounds(forest, k)]
            ELSE [kind |-> "flat", stages |-> [i \in DOMAIN forest |-> <<forest[i]>>]]
      BY <1>1, <1>2, <2>1, <2>2, <2>3 DEF Pack
    <2>5. shared => InRounds(forest, k)
      BY <2>3
    <2> QED
      BY <2>4, <2>5
  <1>9. ArePacked(forest, Pack(m).stages)
    <2>1. 2 \in Nat \ {0}
      OBVIOUS
    <2> QED
      BY <1>5, <1>6, <1>7, <1>8, <2>1
  <1> QED
    BY <1>1, <1>9

\* Serving a packed forest with early exits gives the class of the whole forest.
LEMMA PackedServesExactly ==
  ASSUME NEW m, IsForest(m), NEW packed, ArePacked(m.forest, packed.stages), NEW x
  PROVE  PackedPredict(m, packed, x).class = Predicted(m, x)
  <1>1. PICK P, every : P = packed.stages /\ every = CheckpointStride(m, packed.kind)
    OBVIOUS
  <1>2. PICK winners : winners = Checkpoints(m, P, every, x)
    OBVIOUS
  <1>3. DOMAIN winners = {n \in 1..Len(P) - 1 : n % every = 0}
    BY <1>2 DEF Checkpoints
  <1>4. PICK D : D = DOMAIN winners /\ D \in SUBSET (1..Len(P) - 1)
    BY <1>3
  <1>5. \A n \in D : winners[n] =
            SuffixWinner(Scores([m EXCEPT !.forest = FlattenSeq(SubSeq(P, 1, n))], x), SubSeq(P, n + 1, Len(P)))
    BY <1>2, <1>3, <1>4 DEF Checkpoints
  <1>6. PICK full : full = [class |-> Predicted(m, x), evaluated |-> Len(P)]
    OBVIOUS
  <1>7. D \in SUBSET Nat /\ \A n \in D : winners[n] # 0 => winners[n] = Predicted(m, x)
    <2>1. CASE P = <<>>
      <3>1. Len(P) = 0 /\ 1..0 - 1 = {}
        BY <2>1
      <3>2. D = {}
        BY <1>4, <3>1
      <3> QED
        BY <3>2
    <2>2. CASE P # <<>>
      <3>1. AreStages(Range(m.forest)) /\ \E w \in Nat \ {0}, N \in Nat \ {0} : AreCut(m.forest, w, N, P)
        BY <1>1, <2>2 DEF ArePacked
      <3>2. PICK w \in Nat \ {0}, N \in Nat \ {0} : AreCut(m.forest, w, N, P)
        BY <3>1
      <3>3. Len(P) = N
        BY <3>2 DEF AreCut
      <3>4. AreStagesOf(m, N, P)
        BY <3>1, <3>2 DEF AreStagesOf
      <3>5. ASSUME NEW n \in D, winners[n] # 0 PROVE winners[n] = Predicted(m, x)
        <4>1. n \in 1..N - 1
          BY <1>4, <3>3
        <4>2. winners[n] = CertifiedAt(m, N, P, n, x)
          BY <1>5, <3>3 DEF CertifiedAt
        <4>3. CertifiedAt(m, N, P, n, x) # 0
          BY <3>5, <4>2
        <4>4. CertifiedAt(m, N, P, n, x) = Predicted(m, x)
          BY <3>4, <4>1, <4>3, CheckpointIsExact
        <4> QED
          BY <4>2, <4>4
      <3>6. D \in SUBSET Nat
        BY <1>4, <3>3
      <3> QED
        BY <3>5, <3>6
    <2> QED
      BY <2>1, <2>2
  <1>8. FirstExit(winners, full).class = Predicted(m, x)
    BY <1>4, <1>6, <1>7, ExitsAtACheckpoint
  <1>9. PackedPredict(m, packed, x) = FirstExit(winners, full)
    BY <1>1, <1>2, <1>6 DEF PackedPredict
  <1> QED
    BY <1>8, <1>9

\* The calls, and the answer to a call that is answered.
ExitsAreAnswered ==
  /\ call \in ExitCalls
  /\ answer = Pending \/ answer.is = ExitAnswer(call, AdaptiveSelected(call.m, call.audit))

\* Each answer is that of the call.
LEMMA ServesAnswers == ExitSpec => []ExitsAreAnswered
  <1>1. ExitInit => ExitsAreAnswered
    BY DEF ExitInit, ExitsAreAnswered
  <1>2. ExitsAreAnswered /\ [Serve]_<<call, answer>> => ExitsAreAnswered'
    BY DEF ExitsAreAnswered, Serve
  <1> QED
    BY <1>1, <1>2, PTL DEF ExitSpec

\* Early exit is exact, for every forest of tables: a row that leaves at a checkpoint
\* gets the class the whole forest gives it, in every packed layout
\* (_certified_suffix_winner_nb, _forest_predict_adaptive_*).  What the remaining stages
\* can add to a class lies between the sums of their extreme leaves, so the class that
\* stays ahead is the first of the greatest scores.
THEOREM ExitsExactly == ExitSpec => []EarlyExitIsExact
  <1>1. ASSUME ExitsAreAnswered, Answered("exit") PROVE EarlyExitIsExact
    <2>1. PICK m : m = call.m /\ IsForest(m)
      BY <1>1, ExitsAreOfForests DEF ExitsAreAnswered, IsForest
    <2>2. \A x : AdaptivePredict(m, x).class = Predicted(m, x)
      BY <2>1, PacksCut, PackedServesExactly DEF AdaptivePredict
    <2>3. PICK selected : selected = AdaptiveSelected(call.m, call.audit)
      OBVIOUS
    <2>4. \A x : {Predict(m, selected, x), AdaptivePredict(m, x).class} = {Predicted(m, x)}
      BY <2>2 DEF Predict
    <2>5. answer.is = [x \in call.rows |-> {Predict(m, selected, x), AdaptivePredict(m, x).class}]
      BY <1>1, <2>1, <2>3 DEF ExitsAreAnswered, Answered, ExitAnswer
    <2> QED
      BY <2>1, <2>4, <2>5 DEF EarlyExitIsExact
  <1>2. ExitsAreAnswered => EarlyExitIsExact
    BY <1>1 DEF EarlyExitIsExact
  <1> QED
    BY <1>2, ServesAnswers, PTL

-----------------------------------------------------------------------------
(* The verifier's rows.                                                    *)

\* Numbers of rows add up to a number of rows.
LEMMA TotalIsNat ==
  ASSUME NEW n \in Nat, NEW a \in [1..n -> Nat]
  PROVE  Total(a) \in Nat
  <1>1. a \in [1..n -> Int]
    OBVIOUS
  <1>2. PICK f : Runs(n, a, f) /\ Total(a) = f[n]
    BY <1>1, TotalRuns
  <1>3. PICK S : S = {i \in 0..n : f[i] \in Nat}
    OBVIOUS
  <1>4. 0..n \subseteq S
    <2>1. 0 \in S
      BY <1>2, <1>3 DEF Runs
    <2>2. ASSUME NEW i \in 1..n, i - 1 \in S PROVE i \in S
      <3>1. f[i] = f[i - 1] + a[i] /\ f[i - 1] \in Nat /\ a[i] \in Nat
        BY <1>2, <1>3, <2>2 DEF Runs
      <3> QED
        BY <1>3, <3>1
    <2> QED
      BY <2>1, <2>2, Upward
  <1> QED
    BY <1>2, <1>3, <1>4

\* A sum changes with one of its numbers.
LEMMA TotalChanges ==
  ASSUME NEW n \in Nat, NEW a \in [1..n -> Int], NEW b \in [1..n -> Int], NEW k \in 1..n,
         NEW d \in Int, b[k] = a[k] + d, \A i \in (1..n) \ {k} : b[i] = a[i]
  PROVE  Total(b) = Total(a) + d
  <1>1. PICK f : Runs(n, a, f) /\ Total(a) = f[n]
    BY TotalRuns
  <1>2. PICK h : Runs(n, b, h) /\ Total(b) = h[n]
    BY TotalRuns
  <1>3. PICK S : S = {i \in 0..n : h[i] = IF k <= i THEN f[i] + d ELSE f[i]}
    OBVIOUS
  <1>4. 0..n \subseteq S
    <2>1. 0 \in S
      <3>1. h[0] = 0 /\ f[0] = 0 /\ 0 \in 0..n /\ ~(k <= 0)
        BY <1>1, <1>2 DEF Runs
      <3> QED
        BY <1>3, <3>1
    <2>2. ASSUME NEW i \in 1..n, i - 1 \in S PROVE i \in S
      <3>1. f[i] = f[i - 1] + a[i] /\ h[i] = h[i - 1] + b[i]
        BY <1>1, <1>2 DEF Runs
      <3>2. i - 1 \in 0..n /\ f[i - 1] \in Int /\ a[i] \in Int
        BY <1>1, SMTT(30) DEF Runs
      <3>3. CASE i < k
        <4>1. ~(k <= i - 1) /\ ~(k <= i) /\ b[i] = a[i]
          BY <3>3
        <4> QED
          BY <1>3, <2>2, <3>1, <4>1
      <3>4. CASE i = k
        <4>1. ~(k <= i - 1) /\ k <= i /\ b[i] = a[i] + d
          BY <3>4
        <4>2. h[i - 1] = f[i - 1]
          BY <1>3, <2>2, <4>1
        <4>3. h[i] = f[i] + d
          BY <3>1, <3>2, <4>1, <4>2
        <4> QED
          BY <1>3, <4>1, <4>3
      <3>5. CASE i > k
        <4>1. k <= i - 1 /\ k <= i /\ b[i] = a[i]
          BY <3>5
        <4>2. h[i - 1] = f[i - 1] + d
          BY <1>3, <2>2, <4>1
        <4>3. h[i] = f[i] + d
          BY <3>1, <3>2, <4>1, <4>2
        <4> QED
          BY <1>3, <4>1, <4>3
      <3> QED
        BY <3>3, <3>4, <3>5
    <2> QED
      BY <2>1, <2>2, Upward
  <1>5. n \in S /\ k <= n
    BY <1>4
  <1> QED
    BY <1>1, <1>2, <1>3, <1>5

\* One less of each.
LEMMA TotalLessOnes ==
  ASSUME NEW n \in Nat, NEW a \in [1..n -> Int], NEW b \in [1..n -> Int],
         \A i \in 1..n : b[i] = a[i] - 1
  PROVE  Total(b) = Total(a) - n
  <1>1. PICK f : Runs(n, a, f) /\ Total(a) = f[n]
    BY TotalRuns
  <1>2. PICK h : Runs(n, b, h) /\ Total(b) = h[n]
    BY TotalRuns
  <1>3. PICK S : S = {i \in 0..n : h[i] = f[i] - i}
    OBVIOUS
  <1>4. 0..n \subseteq S
    <2>1. 0 \in S
      <3>1. h[0] = 0 /\ f[0] = 0 /\ 0 \in 0..n
        BY <1>1, <1>2 DEF Runs
      <3> QED
        BY <1>3, <3>1
    <2>2. ASSUME NEW i \in 1..n, i - 1 \in S PROVE i \in S
      <3>1. f[i] = f[i - 1] + a[i] /\ h[i] = h[i - 1] + b[i]
        BY <1>1, <1>2 DEF Runs
      <3>2. i - 1 \in 0..n /\ f[i - 1] \in Int /\ a[i] \in Int
        BY <1>1 DEF Runs
      <3>3. h[i - 1] = f[i - 1] - (i - 1) /\ b[i] = a[i] - 1
        BY <1>3, <2>2
      <3>4. h[i] = f[i] - i
        <4>1. PICK u \in Int, v \in Int : u = f[i - 1] /\ v = a[i]
          BY <3>2
        <4>2. (u - (i - 1)) + (v - 1) = (u + v) - i
          OBVIOUS
        <4> QED
          BY <3>1, <3>3, <4>1, <4>2
      <3> QED
        BY <1>3, <3>4
    <2> QED
      BY <2>1, <2>2, Upward
  <1> QED
    BY <1>1, <1>2, <1>3, <1>4

\* RowsIn is the sum.
LEMMA RowsInTotals == \A counts : RowsIn(counts) = Total(counts)
  BY DEF RowsIn, Total

\* Classes in the order of their excess, the first of them before its equals.
ByExcess(K, over) ==
  {p \in (1..K) \X (1..K) : over[p[1]] > over[p[2]] \/ (over[p[1]] = over[p[2]] /\ p[1] <= p[2])}

\* None of a set of classes exceeds k, which comes before its equals.
IsGreatest(open, over, k) ==
  \A j \in open : over[k] > over[j] \/ (over[k] = over[j] /\ k <= j)

\* A set of classes has a first one that none exceeds.
LEMMA SomeGreatest ==
  ASSUME NEW K \in Nat, NEW open \in SUBSET (1..K), open # {}, NEW over \in [1..K -> Int]
  PROVE  \E k \in open : IsGreatest(open, over, k)
  <1>1. PICK R : R = ByExcess(K, over)
    OBVIOUS
  <1>2. \A a, b \in open :
           <<a, b>> \in R <=> over[a] > over[b] \/ (over[a] = over[b] /\ a <= b)
    BY <1>1 DEF ByExcess
  <1>3. \A a \in open : over[a] \in Int /\ a \in Int
    OBVIOUS
  <1>4. IsFiniteSet(open)
    <2>1. IsFiniteSet(1..K)
      BY FS_Interval
    <2> QED
      BY <2>1, FS_Subset
  <1>5. \A a \in open : <<a, a>> \in R
    BY <1>2, <1>3
  <1>6. \A a, b \in open : <<a, b>> \in R /\ <<b, a>> \in R => a = b
    <2> TAKE a, b \in open
    <2>1. PICK u \in Int, v \in Int : u = over[a] /\ v = over[b]
      BY <1>3
    <2>2. a \in Int /\ b \in Int
      BY <1>3
    <2>3. /\ <<a, b>> \in R <=> u > v \/ (u = v /\ a <= b)
          /\ <<b, a>> \in R <=> v > u \/ (v = u /\ b <= a)
      BY <1>2, <2>1
    <2> QED
      BY <2>2, <2>3
  <1>7. \A a, b, c \in open : <<a, b>> \in R /\ <<b, c>> \in R => <<a, c>> \in R
    <2> TAKE a, b, c \in open
    <2>1. PICK u \in Int, v \in Int, w \in Int : u = over[a] /\ v = over[b] /\ w = over[c]
      BY <1>3
    <2>2. a \in Int /\ b \in Int /\ c \in Int
      BY <1>3
    <2>3. /\ <<a, b>> \in R <=> u > v \/ (u = v /\ a <= b)
          /\ <<b, c>> \in R <=> v > w \/ (v = w /\ b <= c)
          /\ <<a, c>> \in R <=> u > w \/ (u = w /\ a <= c)
      BY <1>2, <2>1
    <2> QED
      BY <2>2, <2>3
  <1>8. \A a, b \in open : <<a, b>> \in R \/ <<b, a>> \in R
    <2> TAKE a, b \in open
    <2>1. PICK u \in Int, v \in Int : u = over[a] /\ v = over[b]
      BY <1>3
    <2>2. a \in Int /\ b \in Int
      BY <1>3
    <2>3. /\ <<a, b>> \in R <=> u > v \/ (u = v /\ a <= b)
          /\ <<b, a>> \in R <=> v > u \/ (v = u /\ b <= a)
      BY <1>2, <2>1
    <2> QED
      BY <2>2, <2>3
  <1>9. /\ Cardinality(open) \in Nat
        /\ \A a \in open : Cardinality(Below(open, R, a)) \in 1..Cardinality(open)
        /\ \A a, b \in open : <<a, b>> \in R
              <=> Cardinality(Below(open, R, a)) <= Cardinality(Below(open, R, b))
        /\ \A k \in 1..Cardinality(open) : \E a \in open : Cardinality(Below(open, R, a)) = k
    BY <1>4, <1>5, <1>6, <1>7, <1>8, PlacesAreTaken
  <1>10. 1 \in 1..Cardinality(open)
    BY <1>4, <1>9, FS_EmptySet
  <1>11. PICK k \in open : Cardinality(Below(open, R, k)) = 1
    BY <1>9, <1>10
  <1>12. \A j \in open : <<k, j>> \in R
    <2> TAKE j \in open
    <2>1. PICK m \in Nat : m = Cardinality(Below(open, R, j)) /\ 1 <= m
      BY <1>9
    <2> QED
      BY <1>9, <1>11, <2>1
  <1> QED
    BY <1>2, <1>12 DEF IsGreatest

\* The classes that Trim and Fill choose are open.
LEMMA MostAboveIsOpen ==
  ASSUME NEW K \in Nat, NEW open \in SUBSET (1..K), open # {}, NEW over \in [1..K -> Int]
  PROVE  MostAbove(open, over) \in open /\ MostBelow(open, over) \in open
  <1>1. MostAbove(open, over) \in open
    <2>1. \E k \in open : IsGreatest(open, over, k)
      BY SomeGreatest
    <2> QED
      BY <2>1 DEF MostAbove, IsGreatest
  <1>2. PICK under : under = [k \in 1..K |-> -over[k]] /\ under \in [1..K -> Int]
    <2>1. \A k \in 1..K : over[k] \in Int
      OBVIOUS
    <2>2. \A u \in Int : -u \in Int
      OBVIOUS
    <2>3. [k \in 1..K |-> -over[k]] \in [1..K -> Int]
      BY <2>1, <2>2
    <2> QED
      BY <2>3
  <1>3. PICK k \in open : IsGreatest(open, under, k)
    <2>1. under \in [1..K -> Int]
      BY <1>2
    <2>2. \E k \in open : IsGreatest(open, under, k)
      BY <2>1, SomeGreatest
    <2> QED
      BY <2>2
  <1>4. \A j \in open : over[k] < over[j] \/ (over[k] = over[j] /\ k <= j)
    <2> TAKE j \in open
    <2>1. under[k] = -over[k] /\ under[j] = -over[j] /\ over[k] \in Int /\ over[j] \in Int
      BY <1>2
    <2>2. under[k] > under[j] \/ (under[k] = under[j] /\ k <= j)
      BY <1>3 DEF IsGreatest
    <2> QED
      BY <2>1, <2>2
  <1>5. MostBelow(open, over) \in open
    BY <1>4 DEF MostBelow
  <1> QED
    BY <1>1, <1>5

\* Quotas of K classes within two bounds.
QuotasIn(K, lo, hi) ==
  {q \in [1..K -> Int] : \A k \in 1..K : lo[k] <= q[k] /\ q[k] <= hi[k]}

\* A round of Trim takes a row, or finds nothing to take.
TrimsTo(K, T, lo, hi, q, r) ==
  /\ r \in QuotasIn(K, lo, hi)
  /\ \/ r = q /\ (Total(q) <= T \/ q = lo)
     \/ ~(Total(q) <= T) /\ Total(r) = Total(q) + -1

\* A round of Fill gives a row, or finds nothing to give.
FillsTo(K, T, lo, hi, q, r) ==
  /\ r \in QuotasIn(K, lo, hi)
  /\ \/ r = q /\ (Total(q) >= T \/ q = hi)
     \/ ~(Total(q) >= T) /\ Total(r) = Total(q) + 1

\* The excess of a class is a number.
LEMMA ExcessIsNumber ==
  ASSUME NEW K \in Nat, NEW c \in [1..K -> Nat], NEW T \in Nat, NEW q \in [1..K -> Int]
  PROVE  Excess(c, T, q) \in [1..K -> Int]
  <1>1. PICK n : n = RowsIn(c) /\ n \in Int
    <2>1. c \in [1..K -> Int]
      OBVIOUS
    <2> QED
      BY <2>1, RowsInTotals, TotalIsNumber
  <1>2. ASSUME NEW k \in 1..K PROVE (q[k] * n) - (c[k] * T) \in Int
    <2>1. PICK u \in Int, v \in Int : u = q[k] /\ v = c[k]
      OBVIOUS
    <2>2. u * n \in Int /\ v * T \in Int
      BY <1>1
    <2> QED
      BY <2>1, <2>2
  <1>3. Excess(c, T, q) = [k \in 1..K |-> (q[k] * n) - (c[k] * T)]
    BY <1>1 DEF Excess
  <1> QED
    BY <1>2, <1>3

\* One round of Trim.
LEMMA TrimsOne ==
  ASSUME NEW K \in Nat, NEW c \in [1..K -> Nat], NEW T \in Nat,
         NEW lo \in [1..K -> Int], NEW hi \in [1..K -> Int], NEW q \in QuotasIn(K, lo, hi)
  PROVE  TrimsTo(K, T, lo, hi, q, Trim(c, T, lo, q))
  <1>1. /\ q \in [1..K -> Int] /\ DOMAIN c = 1..K
        /\ \A k \in 1..K : lo[k] <= q[k] /\ q[k] <= hi[k] /\ lo[k] \in Int /\ hi[k] \in Int /\ q[k] \in Int
    BY DEF QuotasIn
  <1>2. PICK open : open = {k \in 1..K : q[k] > lo[k]}
    OBVIOUS
  <1>3. PICK over : over = Excess(c, T, q) /\ over \in [1..K -> Int]
    BY <1>1, ExcessIsNumber
  <1>4. Trim(c, T, lo, q) = IF Total(q) <= T \/ open = {} THEN q
                            ELSE [q EXCEPT ![MostAbove(open, over)] = @ - 1]
    BY <1>1, <1>2, <1>3, RowsInTotals DEF Trim
  <1>5. CASE Total(q) <= T \/ open = {}
    <2>1. open = {} => q = lo
      <3>1. ASSUME open = {}, NEW k \in 1..K PROVE q[k] = lo[k]
        <4>1. ~(q[k] > lo[k])
          BY <1>2, <3>1
        <4>2. PICK u \in Int, v \in Int, w \in Int : u = lo[k] /\ v = q[k] /\ w = hi[k] /\ u <= v /\ v <= w
          BY <1>1
        <4> QED
          BY <4>1, <4>2
      <3> QED
        BY <1>1, <3>1
    <2> QED
      BY <1>4, <1>5, <2>1 DEF TrimsTo
  <1>6. CASE ~(Total(q) <= T) /\ open # {}
    <2>1. PICK k \in open : k = MostAbove(open, over)
      <3>1. open \in SUBSET (1..K)
        BY <1>2
      <3> QED
        BY <1>3, <1>6, <3>1, MostAboveIsOpen
    <2>2. k \in 1..K /\ q[k] > lo[k]
      BY <1>2
    <2>3. PICK r : r = [q EXCEPT ![k] = q[k] - 1]
      OBVIOUS
    <2>4. Trim(c, T, lo, q) = r
      BY <1>4, <1>6, <2>1, <2>3
    <2>5. r \in [1..K -> Int] /\ r[k] = q[k] - 1 /\ \A i \in (1..K) \ {k} : r[i] = q[i]
      BY <1>1, <2>2, <2>3
    <2>6. Total(r) = Total(q) + -1
      <3>1. PICK d \in Int : d = -1
        OBVIOUS
      <3>2. r[k] = q[k] + d
        <4>1. PICK v \in Int : v = q[k]
          BY <1>1, <2>2
        <4>2. v - 1 = v + d
          BY <3>1
        <4> QED
          BY <2>5, <4>1, <4>2
      <3>3. Total(r) = Total(q) + d
        <4>1. q \in [1..K -> Int] /\ k \in 1..K
          BY <1>1, <2>2
        <4>2. r \in [1..K -> Int] /\ \A i \in (1..K) \ {k} : r[i] = q[i]
          BY <2>5
        <4> QED
          BY <3>2, <4>1, <4>2, TotalChanges, ZenonT(60)
      <3> QED
        BY <3>1, <3>3
    <2>7. r \in QuotasIn(K, lo, hi)
      <3>1. ASSUME NEW i \in 1..K PROVE lo[i] <= r[i] /\ r[i] <= hi[i]
        <4>1. PICK u \in Int, v \in Int, w \in Int : u = lo[i] /\ v = q[i] /\ w = hi[i] /\ u <= v /\ v <= w
          BY <1>1
        <4>2. CASE i # k
          BY <2>5, <4>1, <4>2
        <4>3. CASE i = k
          <5>1. r[i] = v - 1 /\ u < v
            BY <2>2, <2>5, <4>1, <4>3
          <5> QED
            BY <4>1, <5>1, SMTT(30)
        <4> QED
          BY <4>2, <4>3
      <3> QED
        BY <2>5, <3>1 DEF QuotasIn
    <2> QED
      BY <1>6, <2>4, <2>6, <2>7 DEF TrimsTo
  <1> QED
    BY <1>5, <1>6

\* One round of Fill.
LEMMA FillsOne ==
  ASSUME NEW K \in Nat, NEW c \in [1..K -> Nat], NEW T \in Nat,
         NEW lo \in [1..K -> Int], NEW hi \in [1..K -> Int], \A k \in 1..K : hi[k] = c[k] - 1,
         NEW q \in QuotasIn(K, lo, hi)
  PROVE  FillsTo(K, T, lo, hi, q, Fill(c, T, q))
  <1>1. /\ q \in [1..K -> Int] /\ DOMAIN c = 1..K
        /\ \A k \in 1..K : lo[k] <= q[k] /\ q[k] <= hi[k] /\ lo[k] \in Int /\ hi[k] \in Int /\ q[k] \in Int
    BY DEF QuotasIn
  <1>2. PICK open : open = {k \in 1..K : q[k] < hi[k]}
    OBVIOUS
  <1>3. PICK over : over = Excess(c, T, q) /\ over \in [1..K -> Int]
    BY <1>1, ExcessIsNumber
  <1>4. Fill(c, T, q) = IF Total(q) >= T \/ open = {} THEN q
                        ELSE [q EXCEPT ![MostBelow(open, over)] = @ + 1]
    <2>1. open = {k \in DOMAIN c : q[k] < c[k] - 1}
      BY <1>1, <1>2
    <2> QED
      BY <1>3, <2>1, RowsInTotals DEF Fill
  <1>5. CASE Total(q) >= T \/ open = {}
    <2>1. open = {} => q = hi
      <3>1. ASSUME open = {}, NEW k \in 1..K PROVE q[k] = hi[k]
        <4>1. ~(q[k] < hi[k])
          BY <1>2, <3>1
        <4>2. PICK u \in Int, v \in Int, w \in Int : u = lo[k] /\ v = q[k] /\ w = hi[k] /\ u <= v /\ v <= w
          BY <1>1
        <4> QED
          BY <4>1, <4>2, SMTT(30)
      <3> QED
        BY <1>1, <3>1
    <2> QED
      BY <1>4, <1>5, <2>1 DEF FillsTo
  <1>6. CASE ~(Total(q) >= T) /\ open # {}
    <2>1. PICK k \in open : k = MostBelow(open, over)
      <3>1. open \in SUBSET (1..K)
        BY <1>2
      <3> QED
        BY <1>3, <1>6, <3>1, MostAboveIsOpen
    <2>2. k \in 1..K /\ q[k] < hi[k]
      BY <1>2
    <2>3. PICK r : r = [q EXCEPT ![k] = q[k] + 1]
      OBVIOUS
    <2>4. Fill(c, T, q) = r
      BY <1>4, <1>6, <2>1, <2>3
    <2>5. r \in [1..K -> Int] /\ r[k] = q[k] + 1 /\ \A i \in (1..K) \ {k} : r[i] = q[i]
      <3>1. q[k] + 1 \in Int
        BY <1>1, <2>2
      <3> QED
        BY <1>1, <2>2, <2>3, <3>1
    <2>6. Total(r) = Total(q) + 1
      <3>1. 1 \in Int
        OBVIOUS
      <3> QED
        BY <1>1, <2>2, <2>5, <3>1, TotalChanges, ZenonT(60)
    <2>7. r \in QuotasIn(K, lo, hi)
      <3>1. ASSUME NEW i \in 1..K PROVE lo[i] <= r[i] /\ r[i] <= hi[i]
        <4>1. PICK u \in Int, v \in Int, w \in Int : u = lo[i] /\ v = q[i] /\ w = hi[i] /\ u <= v /\ v <= w
          BY <1>1
        <4>2. CASE i # k
          BY <2>5, <4>1, <4>2
        <4>3. CASE i = k
          <5>1. r[i] = v + 1 /\ v < w
            BY <2>2, <2>5, <4>1, <4>3
          <5> QED
            BY <4>1, <5>1, SMTT(30)
        <4> QED
          BY <4>2, <4>3
      <3> QED
        BY <2>5, <3>1 DEF QuotasIn
    <2> QED
      BY <1>6, <2>4, <2>6, <2>7 DEF FillsTo
  <1> QED
    BY <1>5, <1>6

\* The greater of two numbers.
LEMMA GreaterOfTwo ==
  ASSUME NEW a \in Int, NEW b \in Int
  PROVE  Max({a, b}) \in {a, b} /\ a <= Max({a, b}) /\ b <= Max({a, b})
  <1>1. \E x \in {a, b} : \A y \in {a, b} : x >= y
    BY a <= b \/ b <= a
  <1>2. Max({a, b}) \in {a, b} /\ \A y \in {a, b} : Max({a, b}) >= y
    <2>1. PICK T : T = {a, b}
      OBVIOUS
    <2>2. Max(T) \in T /\ \A y \in T : Max(T) >= y
      BY <1>1, <2>1 DEF Max
    <2> QED
      BY <2>1, <2>2
  <1>3. PICK m : m = Max({a, b}) /\ m \in {a, b} /\ m >= a /\ m >= b
    BY <1>2
  <1>4. a <= m /\ b <= m
    BY <1>3
  <1> QED
    BY <1>3, <1>4

\* A table of K classes and n rows, each class with a row.
Counted(c, K, n) ==
  K \in Nat \ {0} /\ c \in Seq(Nat \ {0}) /\ Len(c) = K /\ n = RowsIn(c)

\* What a class can spare: all rows but one.
Spare(c) == [k \in DOMAIN c |-> c[k] - 1]

\* A table has as many rows to spare as there are rows beyond one per class.
LEMMA SpareRows ==
  ASSUME NEW c, NEW K, NEW n, Counted(c, K, n)
  PROVE  /\ n \in Nat \ {0} /\ n - K \in Nat /\ K \in Nat \ {0}
         /\ DOMAIN c = 1..K /\ c \in [1..K -> Nat] /\ \A k \in 1..K : c[k] \in Nat \ {0}
         /\ Spare(c) \in [1..K -> Nat] /\ Total(Spare(c)) = n - K
         /\ \A k \in 1..K : Spare(c)[k] = c[k] - 1
  <1>1. K \in Nat \ {0} /\ c \in Seq(Nat \ {0}) /\ Len(c) = K /\ n = RowsIn(c)
    BY DEF Counted
  <1>2. c \in [1..K -> Nat \ {0}] /\ DOMAIN c = 1..K
    <2>1. PICK S : S = Nat \ {0}
      OBVIOUS
    <2>2. c \in [1..K -> S]
      BY <1>1, <2>1, ListsOfLength
    <2> QED
      BY <2>1, <2>2
  <1>3. \A k \in 1..K : c[k] \in Nat \ {0} /\ c[k] - 1 \in Nat /\ c[k] \in Int
    <2> TAKE k \in 1..K
    <2>1. c[k] \in Nat \ {0}
      BY <1>2
    <2> QED
      BY <2>1
  <1>4. PICK s : s = Spare(c) /\ s = [k \in 1..K |-> c[k] - 1]
    BY <1>2 DEF Spare
  <1>5. s \in [1..K -> Nat] /\ s \in [1..K -> Int] /\ c \in [1..K -> Nat] /\ c \in [1..K -> Int]
    <2>1. s \in [1..K -> Nat]
      BY <1>3, <1>4
    <2>2. c \in [1..K -> Nat]
      BY <1>2, <1>3
    <2> QED
      BY <2>1, <2>2
  <1>6. \A k \in 1..K : s[k] = c[k] - 1
    BY <1>4
  <1>7. Total(s) = Total(c) - K /\ Total(c) = n
    <2>1. Total(s) = Total(c) - K
      BY <1>1, <1>5, <1>6, TotalLessOnes
    <2> QED
      BY <1>1, <2>1, RowsInTotals
  <1>8. Total(s) \in Nat /\ n \in Int
    BY <1>1, <1>5, <1>7, TotalIsNat, TotalIsNumber
  <1>9. n \in Nat \ {0} /\ n - K \in Nat
    BY <1>1, <1>7, <1>8
  <1> QED
    BY <1>1, <1>2, <1>3, <1>4, <1>5, <1>6, <1>7, <1>9

\* The floor of a rare class leaves it a row, and asks for one if it can.
LEMMA RareFloorFits ==
  ASSUME NEW c \in Nat \ {0}, NEW events \in Nat \ {0}
  PROVE  RareFloor(c, events) \in Nat /\ RareFloor(c, events) <= c - 1 /\ (c > 1 => RareFloor(c, events) >= 1)
  <1>1. c \div 3 \in Nat
    BY QuotientBounds
  <1>2. PICK m \in Nat : m = Max({0, c - 1}) /\ m = c - 1
    <2>1. c - 1 \in Nat
      OBVIOUS
    <2>2. Max({0, c - 1}) \in {0, c - 1} /\ 0 <= Max({0, c - 1}) /\ c - 1 <= Max({0, c - 1})
      BY <2>1, GreaterOfTwo
    <2> QED
      BY <2>1, <2>2
  <1>3. PICK t \in Nat : t = Max({1, c \div 3}) /\ 1 <= t
    <2>1. PICK d \in Nat : d = c \div 3
      BY <1>1
    <2>2. Max({1, d}) \in {1, d} /\ 1 <= Max({1, d})
      BY GreaterOfTwo
    <2> QED
      BY <2>1, <2>2
  <1>4. PICK r : r = Min({events, m, t})
    OBVIOUS
  <1>5. r \in {events, m, t} /\ r <= events /\ r <= m /\ r <= t
    BY <1>4, LeastOfThree
  <1>6. RareFloor(c, events) = r
    BY <1>2, <1>3, <1>4 DEF RareFloor
  <1> QED
    BY <1>2, <1>3, <1>5, <1>6

\* The floors leave every class a row, and ask one of each class that can spare it.
LEMMA FloorsFit ==
  ASSUME NEW c, NEW K, NEW n, Counted(c, K, n), NEW events \in Nat
  PROVE  /\ Floors(c, events) \in [1..K -> Nat]
         /\ \A k \in 1..K : /\ Floors(c, events)[k] <= Spare(c)[k]
                            /\ c[k] > 1 => Floors(c, events)[k] >= 1
  <1>1. /\ K \in Nat \ {0} /\ DOMAIN c = 1..K /\ \A k \in 1..K : c[k] \in Nat \ {0}
        /\ \A k \in 1..K : Spare(c)[k] = c[k] - 1
    BY SpareRows
  <1>2. PICK f : /\ f = Floors(c, events) /\ DOMAIN f = 1..K
                 /\ f = [k \in 1..K |-> IF HasFloor(c, events, k) THEN RareFloor(c[k], events)
                                        ELSE Min({1, c[k] - 1})]
    BY <1>1 DEF Floors
  <1>3. ASSUME NEW k \in 1..K PROVE f[k] \in Nat /\ f[k] <= c[k] - 1 /\ (c[k] > 1 => f[k] >= 1)
    <2>1. PICK d \in Nat \ {0} : d = c[k]
      BY <1>1
    <2>2. CASE HasFloor(c, events, k)
      <3>1. events \in Nat \ {0} /\ f[k] = RareFloor(d, events)
        BY <1>2, <2>1, <2>2 DEF HasFloor
      <3> QED
        BY <2>1, <3>1, RareFloorFits
    <2>3. CASE ~HasFloor(c, events, k)
      <3>1. f[k] = Min({1, d - 1})
        BY <1>2, <2>1, <2>3
      <3>2. d - 1 \in Int
        OBVIOUS
      <3>3. Min({1, d - 1}) \in {1, d - 1} /\ Min({1, d - 1}) <= d - 1
        BY <3>2, LesserOfTwo
      <3> QED
        BY <2>1, <3>1, <3>3
    <2> QED
      BY <2>2, <2>3
  <1>4. f \in [1..K -> Nat]
    BY <1>2, <1>3
  <1> QED
    BY <1>1, <1>2, <1>3, <1>4

\* The first quotas respect the floors and leave every class a row.
LEMMA StartFits ==
  ASSUME NEW c, NEW K, NEW n, Counted(c, K, n), NEW events \in Nat, NEW T \in Nat
  PROVE  StartQuotas(c, T, events) \in QuotasIn(K, Floors(c, events), Spare(c))
  <1>1. /\ n \in Nat \ {0} /\ DOMAIN c = 1..K /\ \A k \in 1..K : c[k] \in Nat \ {0}
        /\ \A k \in 1..K : Spare(c)[k] = c[k] - 1
    BY SpareRows
  <1>2. n = RowsIn(c)
    BY DEF Counted
  <1>3. PICK f : /\ f = Floors(c, events)
                 /\ f = [k \in 1..K |-> IF HasFloor(c, events, k) THEN RareFloor(c[k], events)
                                        ELSE Min({1, c[k] - 1})]
    BY <1>1 DEF Floors
  <1>4. PICK q : /\ q = StartQuotas(c, T, events) /\ DOMAIN q = 1..K
                 /\ q = [k \in 1..K |->
                          Max({Min({c[k] - 1, Max({(c[k] * T) \div n, 1})}),
                               IF HasFloor(c, events, k) THEN RareFloor(c[k], events) ELSE 0})]
    BY <1>1, <1>2 DEF StartQuotas
  <1>5. ASSUME NEW k \in 1..K PROVE q[k] \in Int /\ f[k] <= q[k] /\ q[k] <= c[k] - 1
    <2>1. PICK d \in Nat \ {0} : d = c[k]
      BY <1>1
    <2>2. PICK share \in Nat : share = (c[k] * T) \div n
      <3>1. d * T \in Nat
        OBVIOUS
      <3>2. (d * T) \div n \in Nat
        BY <1>1, <3>1, QuotientBounds
      <3> QED
        BY <2>1, <3>2
    <2>3. PICK m \in Int : m = Max({share, 1}) /\ 1 <= m
      <3>1. Max({share, 1}) \in {share, 1} /\ 1 <= Max({share, 1})
        BY GreaterOfTwo
      <3> QED
        BY <3>1
    <2>4. PICK a \in Int : a = Min({d - 1, m}) /\ a <= d - 1 /\ (a = d - 1 \/ a = m)
      <3>1. d - 1 \in Int
        OBVIOUS
      <3>2. Min({d - 1, m}) \in {d - 1, m} /\ Min({d - 1, m}) <= d - 1
        BY <3>1, LesserOfTwo
      <3> QED
        BY <3>1, <3>2
    <2>5. CASE HasFloor(c, events, k)
      <3>1. events \in Nat \ {0}
        BY <2>5 DEF HasFloor
      <3>2. PICK r \in Nat : r = RareFloor(d, events) /\ r <= d - 1
        BY <3>1, RareFloorFits
      <3>3. f[k] = r /\ q[k] = Max({a, r})
        BY <1>3, <1>4, <2>1, <2>2, <2>3, <2>4, <2>5, <3>2
      <3>4. Max({a, r}) \in {a, r} /\ r <= Max({a, r})
        <4>1. r \in Int
          OBVIOUS
        <4> QED
          BY <4>1, GreaterOfTwo
      <3> QED
        BY <2>1, <2>4, <3>2, <3>3, <3>4
    <2>6. CASE ~HasFloor(c, events, k)
      <3>1. f[k] = Min({1, d - 1}) /\ q[k] = Max({a, 0})
        BY <1>3, <1>4, <2>1, <2>2, <2>3, <2>4, <2>6
      <3>2. d - 1 \in Int
        OBVIOUS
      <3>3. PICK e \in Int : e = Min({1, d - 1}) /\ e <= 1 /\ e <= d - 1
        <4>1. Min({1, d - 1}) \in {1, d - 1} /\ Min({1, d - 1}) <= 1 /\ Min({1, d - 1}) <= d - 1
          <5>1. PICK one \in Int, x \in Int : one = 1 /\ x = d - 1
            BY <3>2
          <5>2. Min({one, x}) \in {one, x} /\ Min({one, x}) <= one /\ Min({one, x}) <= x
            BY LesserOfTwo
          <5> QED
            BY <5>1, <5>2
        <4> QED
          BY <3>2, <4>1
      <3>4. PICK b \in Int : b = Max({a, 0}) /\ (b = a \/ b = 0) /\ a <= b
        <4>1. Max({a, 0}) \in {a, 0} /\ a <= Max({a, 0})
          <5>1. PICK zero \in Int : zero = 0
            OBVIOUS
          <5>2. Max({a, zero}) \in {a, zero} /\ a <= Max({a, zero})
            BY GreaterOfTwo
          <5> QED
            BY <5>1, <5>2
        <4> QED
          BY <4>1
      <3>5. e <= a
        BY <2>3, <2>4, <3>3
      <3>6. e <= b /\ b <= d - 1
        BY <2>4, <3>4, <3>5
      <3> QED
        BY <2>1, <3>1, <3>3, <3>4, <3>6
    <2> QED
      BY <2>5, <2>6
  <1>6. q \in [1..K -> Int]
    BY <1>4, <1>5
  <1> QED
    BY <1>1, <1>3, <1>4, <1>5, <1>6 DEF QuotasIn

\* Rounds of Trim from some quotas.
AreTrims(f, c, n, T, lo, start) ==
  f[0] = start /\ \A i \in 1..n : f[i] = Trim(c, T, lo, f[i - 1])

\* Rounds of Fill from some quotas.
AreFills(f, c, n, T, start) ==
  f[0] = start /\ \A i \in 1..n : f[i] = Fill(c, T, f[i - 1])

\* TrimmedQuotas is the last round.
LEMMA TrimRounds ==
  ASSUME NEW c, NEW K, NEW n, Counted(c, K, n), NEW events \in Nat, NEW T \in Nat
  PROVE  \E f : /\ AreTrims(f, c, n, T, Floors(c, events), StartQuotas(c, T, events))
                /\ TrimmedQuotas(c, T, events) = f[n]
  <1>1. /\ n \in Nat /\ K \in Nat /\ c \in [1..K -> Nat] /\ Spare(c) \in [1..K -> Nat]
        /\ n = RowsIn(c)
    BY SpareRows DEF Counted
  <1>2. PICK lo, hi : /\ lo = Floors(c, events) /\ lo \in [1..K -> Int]
                      /\ hi = Spare(c) /\ hi \in [1..K -> Int]
    <2>1. Floors(c, events) \in [1..K -> Nat]
      BY FloorsFit
    <2>2. Floors(c, events) \in [1..K -> Int] /\ Spare(c) \in [1..K -> Int]
      BY <1>1, <2>1
    <2> QED
      BY <2>2
  <1>3. PICK D : D = QuotasIn(K, lo, hi)
    OBVIOUS
  <1>4. PICK start \in D : start = StartQuotas(c, T, events)
    BY <1>2, <1>3, StartFits
  <1>5. PICK A : A = (1..n) \X D
    OBVIOUS
  <1>6. PICK next : next = [e \in A |-> Trim(c, T, lo, e[2])]
    OBVIOUS
  <1>7. next \in [A -> D]
    <2>1. ASSUME NEW e \in A PROVE Trim(c, T, lo, e[2]) \in D
      <3>1. e[2] \in QuotasIn(K, lo, hi)
        BY <1>3, <1>5
      <3>2. TrimsTo(K, T, lo, hi, e[2], Trim(c, T, lo, e[2]))
        BY <1>1, <1>2, <3>1, TrimsOne
      <3> QED
        BY <1>3, <3>2 DEF TrimsTo
    <2> QED
      BY <1>6, <2>1
  <1>8. PICK h : Follows(h, n, D, start, next)
    BY <1>1, <1>5, <1>7, RecursionExists
  <1>9. h \in [0..n -> D] /\ h[0] = start /\ \A i \in 1..n : h[i] = Trim(c, T, lo, h[i - 1])
    <2>1. h \in [0..n -> D] /\ h[0] = start /\ \A i \in 1..n : h[i] = next[<<i, h[i - 1]>>]
      BY <1>8 DEF Follows
    <2>2. ASSUME NEW i \in 1..n PROVE h[i] = Trim(c, T, lo, h[i - 1])
      <3>1. i - 1 \in 0..n
        BY <1>1
      <3>2. h[i - 1] \in D
        BY <2>1, <3>1
      <3>3. <<i, h[i - 1]>> \in A /\ <<i, h[i - 1]>>[2] = h[i - 1]
        BY <1>5, <3>2
      <3> QED
        BY <1>6, <2>1, <3>3
    <2> QED
      BY <2>1, <2>2
  <1> DEFINE Solves(x) == x = [i \in 0..n |-> IF i = 0 THEN start ELSE Trim(c, T, lo, x[i - 1])]
  <1>10. Solves(h)
    <2>1. \A i \in 0..n : h[i] = IF i = 0 THEN start ELSE Trim(c, T, lo, h[i - 1])
      <3> TAKE i \in 0..n
      <3>1. i = 0 \/ i \in 1..n
        BY <1>1
      <3>2. i \in 1..n => i # 0
        BY <1>1
      <3> QED
        BY <1>9, <3>1, <3>2
    <2> QED
      BY <1>9, <2>1
  <1>11. PICK f : f = CHOOSE x : Solves(x)
    OBVIOUS
  <1>12. Solves(f)
    <2> HIDE DEF Solves
    <2> QED
      BY <1>10, <1>11
  <1>13. TrimmedQuotas(c, T, events) = f[n]
    BY <1>1, <1>2, <1>4, <1>11 DEF TrimmedQuotas
  <1>14. f[0] = start /\ \A i \in 1..n : f[i] = Trim(c, T, lo, f[i - 1])
    <2>1. 0 \in 0..n /\ \A i \in 1..n : i \in 0..n /\ i # 0
      BY <1>1
    <2> QED
      BY <1>12, <2>1
  <1> QED
    BY <1>2, <1>4, <1>13, <1>14 DEF AreTrims

\* QuotasFor is the last round of Fill, after those of Trim.
LEMMA FillRounds ==
  ASSUME NEW c, NEW K, NEW n, Counted(c, K, n), NEW events \in Nat, NEW T \in Nat,
         NEW q \in QuotasIn(K, Floors(c, events), Spare(c)), q = TrimmedQuotas(c, T, events)
  PROVE  \E f : AreFills(f, c, n, T, q) /\ QuotasFor(c, T, events) = f[n]
  <1>1. /\ n \in Nat /\ K \in Nat /\ c \in [1..K -> Nat] /\ Spare(c) \in [1..K -> Nat]
        /\ n = RowsIn(c)
    BY SpareRows DEF Counted
  <1>2. PICK lo, hi : /\ lo = Floors(c, events) /\ lo \in [1..K -> Int]
                      /\ hi = Spare(c) /\ hi \in [1..K -> Int]
    <2>1. Floors(c, events) \in [1..K -> Nat]
      BY FloorsFit
    <2>2. Floors(c, events) \in [1..K -> Int] /\ Spare(c) \in [1..K -> Int]
      BY <1>1, <2>1
    <2> QED
      BY <2>2
  <1>14. \A k \in 1..K : hi[k] = c[k] - 1
    BY <1>2, SpareRows
  <1>3. PICK D : D = QuotasIn(K, lo, hi)
    OBVIOUS
  <1>4. PICK start \in D : start = q
    BY <1>2, <1>3
  <1>5. PICK A : A = (1..n) \X D
    OBVIOUS
  <1>6. PICK next : next = [e \in A |-> Fill(c, T, e[2])]
    OBVIOUS
  <1>7. next \in [A -> D]
    <2>1. ASSUME NEW e \in A PROVE Fill(c, T, e[2]) \in D
      <3>1. e[2] \in QuotasIn(K, lo, hi)
        BY <1>3, <1>5
      <3>2. FillsTo(K, T, lo, hi, e[2], Fill(c, T, e[2]))
        BY <1>1, <1>2, <1>14, <3>1, FillsOne
      <3> QED
        BY <1>3, <3>2 DEF FillsTo
    <2> QED
      BY <1>6, <2>1
  <1>8. PICK h : Follows(h, n, D, start, next)
    BY <1>1, <1>5, <1>7, RecursionExists
  <1>9. h \in [0..n -> D] /\ h[0] = start /\ \A i \in 1..n : h[i] = Fill(c, T, h[i - 1])
    <2>1. h \in [0..n -> D] /\ h[0] = start /\ \A i \in 1..n : h[i] = next[<<i, h[i - 1]>>]
      BY <1>8 DEF Follows
    <2>2. ASSUME NEW i \in 1..n PROVE h[i] = Fill(c, T, h[i - 1])
      <3>1. i - 1 \in 0..n
        BY <1>1
      <3>2. h[i - 1] \in D
        BY <2>1, <3>1
      <3>3. <<i, h[i - 1]>> \in A /\ <<i, h[i - 1]>>[2] = h[i - 1]
        BY <1>5, <3>2
      <3> QED
        BY <1>6, <2>1, <3>3
    <2> QED
      BY <2>1, <2>2
  <1> DEFINE Solves(x) == x = [i \in 0..n |-> IF i = 0 THEN start ELSE Fill(c, T, x[i - 1])]
  <1>10. Solves(h)
    <2>1. \A i \in 0..n : h[i] = IF i = 0 THEN start ELSE Fill(c, T, h[i - 1])
      <3> TAKE i \in 0..n
      <3>1. i = 0 \/ i \in 1..n
        BY <1>1
      <3>2. i \in 1..n => i # 0
        BY <1>1
      <3> QED
        BY <1>9, <3>1, <3>2
    <2> QED
      BY <1>9, <2>1
  <1>11. PICK f : f = CHOOSE x : Solves(x)
    OBVIOUS
  <1>12. Solves(f)
    <2> HIDE DEF Solves
    <2> QED
      BY <1>10, <1>11
  <1>13. QuotasFor(c, T, events) = f[n]
    BY <1>1, <1>2, <1>4, <1>11 DEF QuotasFor
  <1>15. f[0] = start /\ \A i \in 1..n : f[i] = Fill(c, T, f[i - 1])
    <2>1. 0 \in 0..n /\ \A i \in 1..n : i \in 0..n /\ i # 0
      BY <1>1
    <2> QED
      BY <1>12, <2>1
  <1> QED
    BY <1>2, <1>4, <1>13, <1>15 DEF AreFills

\* After the rounds of Trim there are no more rows than asked, unless the floors ask for more.
LEMMA TrimmedFit ==
  ASSUME NEW c, NEW K, NEW n, Counted(c, K, n), NEW events \in Nat, NEW T \in Nat,
         NEW q, q = TrimmedQuotas(c, T, events)
  PROVE  q \in QuotasIn(K, Floors(c, events), Spare(c)) /\ (Total(q) <= T \/ q = Floors(c, events))
  <1>1. /\ n \in Nat /\ K \in Nat /\ n - K \in Nat /\ c \in [1..K -> Nat]
        /\ Spare(c) \in [1..K -> Nat] /\ Total(Spare(c)) = n - K
    BY SpareRows
  <1>2. PICK lo, hi : /\ lo = Floors(c, events) /\ lo \in [1..K -> Int]
                      /\ hi = Spare(c) /\ hi \in [1..K -> Int]
    <2>1. Floors(c, events) \in [1..K -> Nat]
      BY FloorsFit
    <2>2. Floors(c, events) \in [1..K -> Int] /\ Spare(c) \in [1..K -> Int]
      BY <1>1, <2>1
    <2> QED
      BY <2>2
  <1>3. PICK f : AreTrims(f, c, n, T, lo, StartQuotas(c, T, events)) /\ q = f[n]
    BY <1>2, TrimRounds
  <1>4. PICK S : S = {i \in 0..n : /\ f[i] \in QuotasIn(K, lo, hi)
                                   /\ \/ Total(f[i]) <= T
                                      \/ f[i] = lo
                                      \/ Total(f[i]) <= n - i}
    OBVIOUS
  <1>5. \A r \in QuotasIn(K, lo, hi) : Total(r) \in Int /\ Total(r) <= n - K
    <2> TAKE r \in QuotasIn(K, lo, hi)
    <2>1. r \in [1..K -> Int] /\ \A k \in 1..K : r[k] <= hi[k]
      BY DEF QuotasIn
    <2>2. Total(r) \in Int /\ Total(r) <= Total(hi)
      BY <1>1, <1>2, <2>1, TotalGrows, TotalIsNumber
    <2> QED
      BY <1>1, <1>2, <2>2
  <1>6. 0..n \subseteq S
    <2>1. 0 \in S
      <3>1. f[0] \in QuotasIn(K, lo, hi)
        BY <1>2, <1>3, StartFits DEF AreTrims
      <3>2. Total(f[0]) <= n - 0 /\ 0 \in 0..n
        BY <1>1, <1>5, <3>1
      <3> QED
        BY <1>4, <3>1, <3>2
    <2>2. ASSUME NEW i \in 1..n, i - 1 \in S PROVE i \in S
      <3>1. PICK p \in QuotasIn(K, lo, hi) :
               p = f[i - 1] /\ (Total(p) <= T \/ p = lo \/ Total(p) <= n - (i - 1))
        BY <1>4, <2>2
      <3>2. TrimsTo(K, T, lo, hi, p, f[i])
        <4>1. TrimsTo(K, T, lo, hi, p, Trim(c, T, lo, p))
          BY <1>1, <1>2, TrimsOne
        <4> QED
          BY <1>3, <3>1, <4>1 DEF AreTrims
      <3>3. f[i] \in QuotasIn(K, lo, hi)
        BY <3>2 DEF TrimsTo
      <3>4. CASE f[i] = p /\ (Total(p) <= T \/ p = lo)
        BY <1>4, <3>3, <3>4
      <3>5. CASE ~(Total(p) <= T) /\ Total(f[i]) = Total(p) + -1
        <4>1. CASE p = lo
          <5>1. PICK r \in QuotasIn(K, lo, hi) : r = f[i]
            BY <3>3
          <5>2. r \in [1..K -> Int] /\ \A k \in 1..K : lo[k] <= r[k]
            BY DEF QuotasIn
          <5>3. Total(lo) <= Total(r)
            BY <1>1, <1>2, <5>2, TotalGrows
          <5>4. PICK t \in Int : t = Total(p)
            BY <1>5
          <5>5. ~(t <= t + -1)
            OBVIOUS
          <5> QED
            BY <3>5, <4>1, <5>1, <5>3, <5>4, <5>5
        <4>2. CASE Total(p) <= n - (i - 1)
          <5>1. PICK t \in Int : t = Total(p)
            BY <1>5
          <5>2. t <= n - (i - 1) => t + -1 <= n - i
            BY <1>1
          <5>3. Total(f[i]) <= n - i
            BY <3>5, <4>2, <5>1, <5>2
          <5> QED
            BY <1>4, <3>3, <5>3
        <4> QED
          BY <3>1, <3>5, <4>1, <4>2
      <3> QED
        BY <3>2, <3>4, <3>5 DEF TrimsTo
    <2> QED
      BY <1>1, <2>1, <2>2, Upward
  <1>7. n \in S
    BY <1>1, <1>6
  <1>8. f[n] \in QuotasIn(K, lo, hi) /\ (Total(f[n]) <= T \/ f[n] = lo \/ Total(f[n]) <= n - n)
    BY <1>4, <1>7
  <1>9. Total(f[n]) \in Int
    BY <1>5, <1>8
  <1> QED
    BY <1>1, <1>2, <1>3, <1>8, <1>9

\* After the rounds of Fill there are as many rows as asked, or as the floors ask for.
LEMMA QuotasFit ==
  ASSUME NEW c, NEW K, NEW n, Counted(c, K, n), NEW events \in Nat, NEW T \in Nat, T <= n - K,
         NEW r, r = QuotasFor(c, T, events)
  PROVE  /\ r \in QuotasIn(K, Floors(c, events), Spare(c))
         /\ Total(r) = Max({T, Total(Floors(c, events))})
  <1>1. /\ n \in Nat /\ K \in Nat /\ n - K \in Nat /\ c \in [1..K -> Nat]
        /\ Spare(c) \in [1..K -> Nat] /\ Total(Spare(c)) = n - K
        /\ \A k \in 1..K : Spare(c)[k] = c[k] - 1
    BY SpareRows
  <1>2. PICK lo, hi : /\ lo = Floors(c, events) /\ lo \in [1..K -> Int] /\ Total(lo) \in Nat
                      /\ hi = Spare(c) /\ hi \in [1..K -> Int]
                      /\ \A k \in 1..K : hi[k] = c[k] - 1
    <2>1. Floors(c, events) \in [1..K -> Nat]
      BY FloorsFit
    <2>2. Floors(c, events) \in [1..K -> Int] /\ Spare(c) \in [1..K -> Int]
      BY <1>1, <2>1
    <2>3. Total(Floors(c, events)) \in Nat
      BY <1>1, <2>1, TotalIsNat
    <2> QED
      BY <1>1, <2>2, <2>3
  <1>3. PICK q \in QuotasIn(K, lo, hi) :
           q = TrimmedQuotas(c, T, events) /\ (Total(q) <= T \/ q = lo)
    BY <1>2, TrimmedFit
  <1>4. PICK f : AreFills(f, c, n, T, q) /\ r = f[n]
    BY <1>2, <1>3, FillRounds
  <1>5. \A p \in QuotasIn(K, lo, hi) : Total(p) \in Int /\ Total(lo) <= Total(p)
    <2> TAKE p \in QuotasIn(K, lo, hi)
    <2>1. p \in [1..K -> Int] /\ \A k \in 1..K : lo[k] <= p[k]
      BY DEF QuotasIn
    <2> QED
      BY <1>1, <1>2, <2>1, TotalGrows, TotalIsNumber
  <1>6. ASSUME NEW i \in 1..n, NEW p \in QuotasIn(K, lo, hi), p = f[i - 1]
        PROVE  FillsTo(K, T, lo, hi, p, f[i])
    <2>1. FillsTo(K, T, lo, hi, p, Fill(c, T, p))
      BY <1>1, <1>2, FillsOne
    <2> QED
      BY <1>4, <1>6, <2>1 DEF AreFills
  <1>7. PICK sum \in Int, least \in Nat : sum = Total(q) /\ least = Total(lo) /\ least <= sum
    BY <1>2, <1>3, <1>5
  <1>8. CASE sum >= T
    <2>1. PICK S : S = {i \in 0..n : f[i] = q}
      OBVIOUS
    <2>2. 0..n \subseteq S
      <3>1. 0 \in S
        BY <1>1, <1>4, <2>1 DEF AreFills
      <3>2. ASSUME NEW i \in 1..n, i - 1 \in S PROVE i \in S
        <4>1. FillsTo(K, T, lo, hi, q, f[i])
          BY <1>3, <1>6, <2>1, <3>2
        <4>2. f[i] = q
          BY <1>7, <1>8, <4>1 DEF FillsTo
        <4> QED
          BY <2>1, <4>2
      <3> QED
        BY <1>1, <3>1, <3>2, Upward
    <2>3. r = q
      BY <1>1, <1>4, <2>1, <2>2
    <2>4. sum = T \/ sum = least
      BY <1>3, <1>7, <1>8
    <2>5. Max({T, least}) \in {T, least} /\ T <= Max({T, least}) /\ least <= Max({T, least})
      <3>1. T \in Int /\ least \in Int
        OBVIOUS
      <3> QED
        BY <3>1, GreaterOfTwo
    <2>6. sum = Max({T, least})
      BY <1>7, <1>8, <2>4, <2>5
    <2> QED
      BY <1>2, <1>3, <1>7, <2>3, <2>6
  <1>9. CASE ~(sum >= T)
    <2>1. PICK S : S = {i \in 0..n : f[i] \in QuotasIn(K, lo, hi) /\ Total(f[i]) <= T
                                    /\ (Total(f[i]) = T \/ i <= Total(f[i]))}
      OBVIOUS
    <2>2. 0..n \subseteq S
      <3>1. 0 \in S
        <4>1. f[0] = q /\ 0 \in 0..n
          BY <1>1, <1>4 DEF AreFills
        <4>2. sum <= T /\ 0 <= sum
          BY <1>7, <1>9
        <4> QED
          BY <1>3, <1>7, <2>1, <4>1, <4>2
      <3>2. ASSUME NEW i \in 1..n, i - 1 \in S PROVE i \in S
        <4>1. PICK p \in QuotasIn(K, lo, hi) :
                 p = f[i - 1] /\ Total(p) <= T /\ (Total(p) = T \/ i - 1 <= Total(p))
          BY <2>1, <3>2
        <4>2. FillsTo(K, T, lo, hi, p, f[i])
          BY <1>6, <4>1
        <4>3. PICK t \in Int : t = Total(p)
          BY <1>5
        <4>4. f[i] \in QuotasIn(K, lo, hi)
          BY <4>2 DEF FillsTo
        <4>5. CASE f[i] = p /\ (t >= T \/ p = hi)
          <5>1. p = hi => t = n - K
            BY <1>1, <1>2, <4>3
          <5>2. t = T
            BY <1>1, <4>1, <4>3, <4>5, <5>1
          <5>3. Total(f[i]) = T /\ T <= T
            BY <4>3, <4>5, <5>2
          <5> QED
            BY <2>1, <4>4, <5>3
        <4>6. CASE ~(t >= T) /\ Total(f[i]) = t + 1
          <5>1. t + 1 <= T /\ i <= t + 1
            <6>1. t # T /\ t + 1 <= T
              BY <4>6
            <6>2. i - 1 <= t
              BY <4>1, <4>3, <6>1
            <6> QED
              BY <6>1, <6>2
          <5> QED
            BY <2>1, <4>4, <4>6, <5>1
        <4> QED
          BY <4>2, <4>3, <4>5, <4>6 DEF FillsTo
      <3> QED
        BY <1>1, <3>1, <3>2, Upward
    <2>3. n \in S
      BY <1>1, <2>2
    <2>4. r \in QuotasIn(K, lo, hi) /\ Total(r) <= T /\ (Total(r) = T \/ n <= Total(r))
      BY <1>4, <2>1, <2>3
    <2>5. PICK t \in Int : t = Total(r) /\ least <= t
      BY <1>5, <1>7, <2>4
    <2>6. t = T
      BY <1>1, <2>4, <2>5
    <2>7. Max({T, least}) \in {T, least} /\ T <= Max({T, least}) /\ least <= Max({T, least})
      <3>1. T \in Int /\ least \in Int
        OBVIOUS
      <3> QED
        BY <3>1, GreaterOfTwo
    <2>8. t = Max({T, least})
      BY <2>5, <2>6, <2>7
    <2> QED
      BY <1>2, <1>7, <2>4, <2>5, <2>8
  <1> QED
    BY <1>8, <1>9

\* The verifier may ask for its share and leave a row of each class.
LEMMA TargetFits ==
  ASSUME NEW n \in Nat, NEW K \in Nat, n - K \in Nat, NEW percent \in 0..100
  PROVE  TargetRows(n, K, percent) \in Nat /\ TargetRows(n, K, percent) <= n - K
  <1>1. PICK u \in Nat : u = (100 - percent) * n
    <2>1. PICK a \in Nat : a = 100 - percent
      OBVIOUS
    <2>2. a * n \in Nat
      OBVIOUS
    <2> QED
      BY <2>1, <2>2
  <1>2. PICK v \in Int : v = n - (u \div 100)
    <2>1. PICK hundred \in Nat \ {0} : hundred = 100
      OBVIOUS
    <2>2. u \div hundred \in Nat
      BY QuotientBounds
    <2> QED
      BY <2>1, <2>2
  <1>3. PICK m \in Int : m = Max({v, K}) /\ K <= m
    <2>1. K \in Int
      OBVIOUS
    <2>2. Max({v, K}) \in {v, K} /\ K <= Max({v, K})
      BY <2>1, GreaterOfTwo
    <2> QED
      BY <2>1, <2>2
  <1>4. PICK h \in Int : h = n - K /\ 0 <= h
    OBVIOUS
  <1>5. Min({m, h}) \in {m, h} /\ Min({m, h}) <= h
    BY LesserOfTwo
  <1>6. TargetRows(n, K, percent) = Min({m, h})
    BY <1>1, <1>2, <1>3, <1>4 DEF TargetRows, ClipTo
  <1> QED
    BY <1>3, <1>4, <1>5, <1>6

\* What the verifier holds of a table of K classes and n rows.
IsHeld(c, K, n, percent, events, q) ==
  /\ q \in [1..K -> Nat]
  /\ \A k \in 1..K : q[k] < c[k] /\ (c[k] > 1 => q[k] > 0)
  /\ RowsIn(q) = Max({TargetRows(n, K, percent), RowsIn(Floors(c, events))})

\* The verifier leaves a row of each class and holds one of each that can spare it.
LEMMA VerifierFits ==
  ASSUME NEW c, NEW K, NEW n, Counted(c, K, n), NEW percent \in 0..100, NEW events \in Nat
  PROVE  IsHeld(c, K, n, percent, events, VerifierQuotas(c, percent, events))
  <1>1. /\ n \in Nat /\ K \in Nat /\ n - K \in Nat /\ n = RowsIn(c) /\ K = Len(c)
        /\ \A k \in 1..K : Spare(c)[k] = c[k] - 1 /\ c[k] \in Nat
    BY SpareRows DEF Counted
  <1>2. PICK T \in Nat : T = TargetRows(n, K, percent) /\ T <= n - K
    BY <1>1, TargetFits
  <1>3. PICK q : q = VerifierQuotas(c, percent, events) /\ q = QuotasFor(c, T, events)
    BY <1>1, <1>2 DEF VerifierQuotas
  <1>4. PICK lo : /\ lo = Floors(c, events) /\ lo \in [1..K -> Nat]
                  /\ \A k \in 1..K : c[k] > 1 => lo[k] >= 1
    BY FloorsFit
  <1>5. q \in QuotasIn(K, lo, Spare(c)) /\ Total(q) = Max({T, Total(lo)})
    BY <1>2, <1>3, <1>4, QuotasFit
  <1>6. q \in [1..K -> Int] /\ \A k \in 1..K : lo[k] <= q[k] /\ q[k] <= Spare(c)[k]
    BY <1>5 DEF QuotasIn
  <1>7. ASSUME NEW k \in 1..K PROVE q[k] \in Nat /\ q[k] < c[k] /\ (c[k] > 1 => q[k] > 0)
    <2>1. PICK u \in Nat, v \in Int, d \in Nat : /\ u = lo[k] /\ v = q[k] /\ d = c[k]
                                                  /\ u <= v /\ v <= d - 1
      BY <1>1, <1>4, <1>6
    <2>2. d > 1 => u >= 1
      BY <1>4, <2>1
    <2> QED
      BY <2>1, <2>2
  <1>8. q \in [1..K -> Nat]
    BY <1>6, <1>7
  <1>9. RowsIn(q) = Max({T, RowsIn(lo)})
    BY <1>5, RowsInTotals
  <1> QED
    BY <1>2, <1>3, <1>4, <1>7, <1>8, <1>9 DEF IsHeld

\* A row kept for the checkpoint and one for the calibration, of each class that was held.
IsHalved(K, held, part) ==
  /\ \A k \in 1..K : held[k] = part.checkpoint[k]
                               + (IF part.calibration = <<>> THEN 0 ELSE part.calibration[k])
  /\ part.calibration # <<>> =>
        \A k \in 1..K : held[k] > 0 => part.checkpoint[k] > 0 /\ part.calibration[k] > 0

\* The classes that are held, listed: their halves keep them on both sides.
LEMMA HalvesFit ==
  ASSUME NEW K \in Nat, NEW held \in [1..K -> Nat], NEW events \in Nat, NEW present,
         present = {k \in 1..K : held[k] > 0}, present # {}, \A k \in present : held[k] >= 2,
         NEW half, half = SecondHalf(held, Ascending(present), events)
  PROVE  /\ half \in [1..K -> Nat]
         /\ \A k \in 1..K : held[k] > 0 => half[k] > 0 /\ half[k] < held[k]
  <1>1. present \in SUBSET Int /\ present \subseteq 1..K /\ IsFiniteSet(present)
    <2>1. present \subseteq 1..K /\ IsFiniteSet(1..K)
      BY FS_Interval
    <2> QED
      BY <2>1, FS_Subset
  <1>2. PICK P : P = Ascending(present) /\ IsListed(present, P)
    BY <1>1, AscendingLists
  <1>3. PICK m : m = Len(P)
    OBVIOUS
  <1>4. /\ m \in Nat \ {0} /\ DOMAIN P = 1..m /\ \A i \in 1..m : P[i] \in present
        /\ \A k \in present : \E i \in 1..m : P[i] = k
        /\ \A i, j \in 1..m : i < j => P[i] < P[j]
    <2>1. P \in Seq(present) /\ Range(P) = present /\ \A i, j \in 1..Len(P) : i < j => P[i] < P[j]
      BY <1>2 DEF IsListed
    <2>2. Len(P) \in Nat /\ DOMAIN P = 1..Len(P) /\ \A i \in 1..Len(P) : P[i] \in present
      BY <2>1
    <2>3. \A k \in present : \E i \in 1..m : P[i] = k
      BY <1>3, <2>1, <2>2 DEF Range
    <2>4. m # 0
      <3>1. PICK k \in present : TRUE
        OBVIOUS
      <3>2. PICK i \in 1..m : P[i] = k
        BY <2>3, <3>1
      <3>3. 1..0 = {}
        OBVIOUS
      <3> QED
        BY <3>2, <3>3
    <2> QED
      BY <1>3, <2>1, <2>2, <2>3, <2>4
  <1>5. PICK d : d = [i \in 1..m |-> held[P[i]]]
    OBVIOUS
  <1>6. \A i \in 1..m : d[i] \in Nat /\ d[i] >= 2 /\ d[i] = held[P[i]]
    <2> TAKE i \in 1..m
    <2>1. P[i] \in 1..K /\ held[P[i]] >= 2
      BY <1>1, <1>4
    <2>2. held[P[i]] \in Nat
      BY <2>1
    <2> QED
      BY <1>5, <2>1, <2>2
  <1>7. Counted(d, m, RowsIn(d))
    <2>1. PICK S : S = Nat \ {0}
      OBVIOUS
    <2>2. \A i \in 1..m : d[i] \in S
      BY <1>6, <2>1
    <2>3. d \in [1..m -> S]
      BY <1>5, <2>2
    <2>4. m \in Nat
      BY <1>4
    <2>5. d \in Seq(S) /\ Len(d) = m
      BY <2>3, <2>4, ListsAreSequences
    <2> QED
      BY <1>4, <2>1, <2>5 DEF Counted
  <1>8. PICK q : q = VerifierQuotas(d, 50, events)
    OBVIOUS
  <1>9. q \in [1..m -> Nat] /\ \A i \in 1..m : q[i] < d[i] /\ q[i] > 0
    <2>1. PICK percent \in 0..100 : percent = 50
      OBVIOUS
    <2>2. PICK rows : rows = RowsIn(d)
      OBVIOUS
    <2>3. IsHeld(d, m, rows, percent, events, VerifierQuotas(d, percent, events))
      BY <1>7, <2>2, VerifierFits
    <2>4. q \in [1..m -> Nat] /\ \A i \in 1..m : q[i] < d[i] /\ (d[i] > 1 => q[i] > 0)
      BY <1>8, <2>1, <2>3 DEF IsHeld
    <2>5. \A i \in 1..m : d[i] > 1
      BY <1>6
    <2> QED
      BY <2>4, <2>5
  <1>10. PICK D, E : D = DOMAIN held /\ E = DOMAIN P /\ D = 1..K /\ E = 1..m
    BY <1>4
  <1>11. half = [k \in D |-> IF held[k] = 0 THEN 0 ELSE q[CHOOSE i \in E : P[i] = k]]
    <2>1. half = CalibrationRows(held, P, q)
      BY <1>2, <1>4, <1>5, <1>8 DEF SecondHalf
    <2>2. half = [k \in DOMAIN held |-> IF held[k] = 0 THEN 0 ELSE q[CHOOSE i \in DOMAIN P : P[i] = k]]
      BY <2>1 DEF CalibrationRows
    <2>3. DOMAIN held = D /\ DOMAIN P = E
      BY <1>10
    <2> QED
      BY <2>2, <2>3, ZenonT(60)
  <1>12. ASSUME NEW k \in 1..K
         PROVE  half[k] \in Nat /\ (held[k] > 0 => half[k] > 0 /\ half[k] < held[k])
    <2>1. CASE held[k] = 0
      <3>1. k \in D /\ half[k] = 0
        BY <1>10, <1>11, <2>1
      <3>2. ~(held[k] > 0)
        BY <2>1
      <3> QED
        BY <3>1, <3>2
    <2>2. CASE held[k] # 0
      <3>1. k \in present
        <4>1. held[k] \in Nat
          OBVIOUS
        <4> QED
          BY <2>2, <4>1
      <3>2. PICK i \in 1..m : i = (CHOOSE j \in E : P[j] = k) /\ P[i] = k
        BY <1>4, <1>10, <3>1
      <3>3. half[k] = q[i] /\ d[i] = held[k]
        BY <1>6, <1>11, <1>10, <2>2, <3>2
      <3>4. q[i] \in Nat /\ q[i] < d[i] /\ q[i] > 0
        BY <1>9
      <3> QED
        BY <3>3, <3>4
    <2> QED
      BY <2>1, <2>2
  <1> QED
    BY <1>11, <1>12, <1>10

\* What is held is halved, or kept whole for the checkpoint.
LEMMA HalvedFits ==
  ASSUME NEW K \in Nat \ {0}, NEW held \in [1..K -> Nat], NEW events \in Nat, NEW independent,
         NEW part, part = Halved(held, events, independent)
  PROVE  IsHalved(K, held, part)
  <1>1. PICK present : present = {k \in DOMAIN held : held[k] > 0} /\ present = {k \in 1..K : held[k] > 0}
    OBVIOUS
  <1>2. CASE ~independent \/ Cardinality(present) < 2 \/ \E k \in present : held[k] < 2
    <2>1. part = [checkpoint |-> held, calibration |-> <<>>]
      BY <1>1, <1>2 DEF Halved
    <2>2. part.checkpoint = held /\ part.calibration = <<>>
      BY <2>1
    <2>3. \A k \in 1..K : held[k] = held[k] + 0
      OBVIOUS
    <2> QED
      BY <2>2, <2>3 DEF IsHalved
  <1>3. CASE ~(~independent \/ Cardinality(present) < 2 \/ \E k \in present : held[k] < 2)
    <2>1. PICK half : half = SecondHalf(held, Ascending(present), events)
      OBVIOUS
    <2>2. part = Divided(held, half)
      BY <1>1, <1>3, <2>1 DEF Halved
    <2>3. part.checkpoint = [k \in 1..K |-> held[k] - half[k]] /\ part.calibration = half
      BY <2>2 DEF Divided
    <2>4. present # {}
      BY <1>3, FS_EmptySet
    <2>5. \A k \in present : held[k] >= 2
      <3> TAKE k \in present
      <3>1. held[k] \in Nat /\ ~(held[k] < 2)
        BY <1>1, <1>3
      <3> QED
        BY <3>1
    <2>6. half \in [1..K -> Nat] /\ \A k \in 1..K : held[k] > 0 => half[k] > 0 /\ half[k] < held[k]
      <3>1. K \in Nat
        OBVIOUS
      <3> QED
        BY <1>1, <2>1, <2>4, <2>5, <3>1, HalvesFit
    <2>7. half # <<>>
      <3>1. DOMAIN half = 1..K /\ 1 \in 1..K
        BY <2>6
      <3>2. DOMAIN <<>> = {}
        OBVIOUS
      <3> QED
        BY <3>1, <3>2
    <2>8. ASSUME NEW k \in 1..K
          PROVE  /\ held[k] = part.checkpoint[k] + half[k]
                 /\ held[k] > 0 => part.checkpoint[k] > 0 /\ half[k] > 0
      <3>1. PICK u \in Nat, v \in Nat : u = held[k] /\ v = half[k]
        BY <2>6
      <3>2. part.checkpoint[k] = u - v /\ (u > 0 => v > 0 /\ v < u)
        BY <2>3, <2>6, <3>1
      <3>3. u = (u - v) + v
        OBVIOUS
      <3> QED
        BY <3>1, <3>2, <3>3
    <2> QED
      BY <2>3, <2>7, <2>8 DEF IsHalved
  <1> QED
    BY <1>2, <1>3

-----------------------------------------------------------------------------
(* Paired verification blocks.                                             *)

\* The rows of a class, those of them before a row, and the order of the rows.
Members(y, c) == {r \in DOMAIN y : y[r] = c}
Preceding(y, r) == {s \in 1..r - 1 : y[s] = y[r]}
InOrder(n) == {p \in (1..n) \X (1..n) : p[1] <= p[2]}

\* The rows of a class, counted in their order: each is preceded by fewer than there are,
\* and every smaller number of them precedes one.
LEMMA ClassIsCounted ==
  ASSUME NEW n \in Nat, NEW y, DOMAIN y = 1..n, NEW c
  PROVE  /\ IsFiniteSet(Members(y, c)) /\ Cardinality(Members(y, c)) \in Nat
         /\ \A r \in Members(y, c) : Cardinality(Preceding(y, r)) \in Nat
         /\ \A b \in 0..Cardinality(Members(y, c)) - 1 :
               \E r \in Members(y, c) : Cardinality(Preceding(y, r)) = b
  <1>1. PICK S : S = Members(y, c) /\ S \subseteq 1..n
    BY DEF Members
  <1>2. IsFiniteSet(S)
    <2>1. IsFiniteSet(1..n)
      BY FS_Interval
    <2> QED
      BY <1>1, <2>1, FS_Subset
  <1>3. PICK R : R = InOrder(n)
    OBVIOUS
  <1>4. \A a, b \in S : <<a, b>> \in R <=> a <= b
    BY <1>1, <1>3 DEF InOrder
  <1>5. \A a \in S : a \in Int
    BY <1>1
  <1>6. /\ Cardinality(S) \in Nat
        /\ \A a \in S : Cardinality(Below(S, R, a)) \in 1..Cardinality(S)
        /\ \A k \in 1..Cardinality(S) : \E a \in S : Cardinality(Below(S, R, a)) = k
    <2>1. \A a \in S : <<a, a>> \in R
      BY <1>4, <1>5
    <2>2. \A a, b \in S : <<a, b>> \in R /\ <<b, a>> \in R => a = b
      BY <1>4, <1>5
    <2>3. \A a, b, d \in S : <<a, b>> \in R /\ <<b, d>> \in R => <<a, d>> \in R
      <3> TAKE a, b, d \in S
      <3>1. (<<a, b>> \in R <=> a <= b) /\ (<<b, d>> \in R <=> b <= d) /\ (<<a, d>> \in R <=> a <= d)
        BY <1>4
      <3>2. a \in Int /\ b \in Int /\ d \in Int
        BY <1>5
      <3> QED
        BY <3>1, <3>2
    <2>4. \A a, b \in S : <<a, b>> \in R \/ <<b, a>> \in R
      <3> TAKE a, b \in S
      <3>1. (<<a, b>> \in R <=> a <= b) /\ (<<b, a>> \in R <=> b <= a)
        BY <1>4
      <3>2. a \in Int /\ b \in Int
        BY <1>5
      <3> QED
        BY <3>1, <3>2
    <2> QED
      BY <1>2, <2>1, <2>2, <2>3, <2>4, PlacesAreTaken
  <1>7. ASSUME NEW r \in S
        PROVE  Cardinality(Preceding(y, r)) = Cardinality(Below(S, R, r)) - 1
    <2>1. r \in 1..n /\ y[r] = c
      BY <1>1 DEF Members
    <2>2. PICK U : U = Below(S, R, r) /\ U = {s \in S : s <= r}
      BY <1>4 DEF Below
    <2>3. r \in U /\ U \subseteq S
      BY <1>5, <2>2
    <2>4. IsFiniteSet(U)
      BY <1>2, <2>3, FS_Subset
    <2>5. Cardinality(U \ {r}) = Cardinality(U) - 1
      BY <2>3, <2>4, FS_RemoveElement
    <2>6. Preceding(y, r) = U \ {r}
      <3>1. \A s : s \in 1..r - 1 /\ y[s] = y[r] <=> s \in S /\ s <= r /\ s # r
        <4>1. \A s : s \in 1..r - 1 <=> s \in 1..n /\ s <= r /\ s # r
          BY <2>1
        <4> QED
          BY <1>1, <2>1, <4>1 DEF Members
      <3> QED
        BY <2>2, <3>1 DEF Preceding
    <2> QED
      BY <2>2, <2>5, <2>6
  <1>8. PICK m \in Nat : m = Cardinality(S)
    BY <1>6
  <1>9. ASSUME NEW r \in S PROVE Cardinality(Preceding(y, r)) \in Nat
    BY <1>6, <1>7, <1>8
  <1>10. ASSUME NEW b \in 0..m - 1 PROVE \E r \in S : Cardinality(Preceding(y, r)) = b
    <2>1. b + 1 \in 1..m
      OBVIOUS
    <2>2. PICK r \in S : Cardinality(Below(S, R, r)) = b + 1
      BY <1>6, <1>8, <2>1
    <2>3. Cardinality(Preceding(y, r)) = b
      BY <1>7, <2>2
    <2> QED
      BY <2>3
  <1> QED
    BY <1>1, <1>2, <1>8, <1>9, <1>10

\* There is a block, and no more blocks than rows of a class.
LEMMA BlocksAreFew ==
  ASSUME NEW n \in Nat \ {0}, NEW y, y \in Seq(Range(y)), Len(y) = n,
         NEW most \in Nat \ {0}, NEW least \in Nat \ {0}
  PROVE  /\ BlockCount(y, most, least) \in Nat \ {0}
         /\ \A c \in Range(y) : BlockCount(y, most, least) <= Cardinality(Members(y, c))
  <1>0. DOMAIN y = 1..n
    OBVIOUS
  <1>1. PICK g : g = Max({1, n \div least}) /\ g \in Nat \ {0}
    <2>1. PICK one \in Nat : one = 1
      OBVIOUS
    <2>2. PICK d \in Nat : d = n \div least
      <3>1. n \div least \in Nat
        BY QuotientBounds
      <3> QED
        BY <3>1
    <2>3. PICK g : g = Max({one, d})
      OBVIOUS
    <2>4. g \in {one, d} /\ one <= g
      <3>1. one \in Int /\ d \in Int
        OBVIOUS
      <3>2. Max({one, d}) \in {one, d} /\ one <= Max({one, d})
        BY <3>1, GreaterOfTwo
      <3> QED
        BY <2>3, <3>2
    <2> QED
      BY <2>1, <2>2, <2>3, <2>4
  <1>2. PICK sizes : sizes = {Cardinality(Members(y, c)) : c \in Range(y)}
    OBVIOUS
  <1>3. \A c \in Range(y) : Cardinality(Members(y, c)) \in Nat \ {0}
    <2> TAKE c \in Range(y)
    <2>1. n \in Nat /\ DOMAIN y = 1..n
      BY <1>0
    <2>2. IsFiniteSet(Members(y, c)) /\ Cardinality(Members(y, c)) \in Nat
      BY <2>1, ClassIsCounted
    <2>3. Members(y, c) # {}
      BY DEF Range, Members
    <2> QED
      BY <2>2, <2>3, FS_EmptySet
  <1>4. PICK T : T = {most, g} \cup sizes
    OBVIOUS
  <1>5. T \in SUBSET Nat /\ T # {} /\ 0 \notin T
    BY <1>1, <1>2, <1>3, <1>4
  <1>6. PICK m \in T : \A x \in T : m <= x
    BY <1>5, LeastNatural
  <1>7. Min(T) \in T /\ \A x \in T : Min(T) <= x
    BY <1>6 DEF Min
  <1>8. BlockCount(y, most, least) = Min(T)
    BY <1>1, <1>2, <1>4 DEF BlockCount, Members
  <1>9. \A c \in Range(y) : Cardinality(Members(y, c)) \in T
    BY <1>2, <1>4
  <1> QED
    BY <1>5, <1>7, <1>8, <1>9

\* Blocks part the rows, and each holds the classes of all.
ArePaired(y, blocks) ==
  /\ UNION Range(blocks) = DOMAIN y
  /\ \A i, j \in DOMAIN blocks : i # j => blocks[i] \cap blocks[j] = {}
  /\ \A i \in DOMAIN blocks : {y[r] : r \in blocks[i]} = Range(y)

\* The block of a row depends on how many rows of its class precede it, so that every
\* class, with rows for all the blocks, comes to each in turn.
LEMMA BlocksArePaired ==
  ASSUME NEW n \in Nat \ {0}, NEW y, y \in Seq(Range(y)), Len(y) = n,
         NEW most \in Nat \ {0}, NEW least \in Nat \ {0}
  PROVE  ArePaired(y, VerificationBlocks(y, most, least))
  <1>1. PICK k \in Nat \ {0} : /\ k = BlockCount(y, most, least)
                                /\ \A c \in Range(y) : k <= Cardinality(Members(y, c))
    BY BlocksAreFew
  <1>2. PICK at : at = [r \in 1..n |-> Cardinality(Preceding(y, r)) % k]
    OBVIOUS
  <1>3. DOMAIN y = 1..n
    OBVIOUS
  <1>4. PICK blocks : /\ blocks = VerificationBlocks(y, most, least)
                      /\ blocks = [b \in 1..k |-> {r \in 1..n : at[r] = b - 1}]
    BY <1>1, <1>2, <1>3 DEF VerificationBlocks, Preceding
  <1>5. ASSUME NEW r \in 1..n PROVE at[r] \in 0..k - 1 /\ at[r] + 1 \in 1..k
    <2>1. n \in Nat /\ r \in Members(y, y[r])
      BY <1>3 DEF Members
    <2>2. PICK u \in Nat : u = Cardinality(Preceding(y, r))
      BY <1>3, <2>1, ClassIsCounted
    <2>3. PICK v \in 0..k - 1 : v = u % k
      BY QuotientBounds
    <2>4. at[r] = v
      BY <1>2, <2>2, <2>3
    <2> QED
      BY <2>3, <2>4
  <1>6. UNION Range(blocks) = 1..n
    <2>1. ASSUME NEW r \in 1..n PROVE r \in blocks[at[r] + 1]
      <3>1. PICK b \in 1..k : b = at[r] + 1 /\ at[r] = b - 1
        <4>1. PICK v \in 0..k - 1 : v = at[r]
          BY <1>5
        <4>2. v + 1 \in 1..k /\ v = (v + 1) - 1
          OBVIOUS
        <4> QED
          BY <4>1, <4>2
      <3> QED
        BY <1>4, <3>1
    <2> QED
      BY <1>4, <1>5, <2>1 DEF Range
  <1>7. \A i, j \in 1..k : i # j => blocks[i] \cap blocks[j] = {}
    BY <1>4
  <1>8. ASSUME NEW b \in 1..k PROVE {y[r] : r \in blocks[b]} = Range(y)
    <2>1. \A r \in blocks[b] : y[r] \in Range(y)
      BY <1>4
    <2>2. ASSUME NEW c \in Range(y) PROVE \E r \in blocks[b] : y[r] = c
      <3>1. PICK m \in Nat : m = Cardinality(Members(y, c))
        <4>1. n \in Nat
          OBVIOUS
        <4> QED
          BY <1>3, <4>1, ClassIsCounted
      <3>2. b - 1 \in 0..m - 1 /\ b - 1 \in 0..k - 1
        BY <1>1, <3>1
      <3>3. PICK r \in Members(y, c) : Cardinality(Preceding(y, r)) = b - 1
        <4>1. n \in Nat
          OBVIOUS
        <4> QED
          BY <1>3, <3>1, <3>2, <4>1, ClassIsCounted
      <3>4. r \in 1..n /\ y[r] = c
        BY <1>3 DEF Members
      <3>5. (b - 1) % k = b - 1
        BY <3>2
      <3>6. at[r] = b - 1
        BY <1>2, <3>3, <3>4, <3>5
      <3> QED
        BY <1>4, <3>4, <3>6
    <2> QED
      BY <2>1, <2>2
  <1> QED
    BY <1>3, <1>4, <1>6, <1>7, <1>8 DEF ArePaired

\* What the verifier holds of a table: its classes are kept, also by its halves.
KeepsClassesOf(c, percent, events, independent, part) ==
  LET held == [k \in DOMAIN c |-> part.checkpoint[k]
                  + (IF part.calibration = <<>> THEN 0 ELSE part.calibration[k])]
      asked == IF independent THEN 2 * events ELSE events
  IN  /\ \A k \in DOMAIN c : held[k] < c[k] /\ (c[k] > 1 => held[k] > 0)
      /\ RowsIn(held) = Max({TargetRows(RowsIn(c), Len(c), percent), RowsIn(Floors(c, asked))})
      /\ part.calibration # <<>> => \A k \in DOMAIN c :
            held[k] > 0 => part.checkpoint[k] > 0 /\ part.calibration[k] > 0

\* The quotas fit, and so do their halves, which sum to the quotas.
LEMMA VerifierKeeps ==
  ASSUME NEW c \in Seq(Nat \ {0}), c # <<>>, NEW percent \in 0..100, NEW events \in Nat,
         NEW independent \in BOOLEAN,
         NEW part, part = CheckpointCalibration(c, percent, events, independent)
  PROVE  KeepsClassesOf(c, percent, events, independent, part)
  <1>0. PICK n : n = RowsIn(c)
    OBVIOUS
  <1>1. PICK K \in Nat \ {0} : K = Len(c) /\ DOMAIN c = 1..K
    <2>1. Len(c) \in Nat /\ Len(c) # 0 /\ DOMAIN c = 1..Len(c)
      OBVIOUS
    <2> QED
      BY <2>1
  <1>2. Counted(c, K, n)
    BY <1>0, <1>1 DEF Counted
  <1>3. PICK asked \in Nat : asked = IF independent THEN 2 * events ELSE events
    OBVIOUS
  <1>4. PICK q : q = VerifierQuotas(c, percent, asked)
    OBVIOUS
  <1>5. /\ q \in [1..K -> Nat]
        /\ \A k \in 1..K : q[k] < c[k] /\ (c[k] > 1 => q[k] > 0)
        /\ RowsIn(q) = Max({TargetRows(n, K, percent), RowsIn(Floors(c, asked))})
    <2>1. IsHeld(c, K, n, percent, asked, VerifierQuotas(c, percent, asked))
      BY <1>2, VerifierFits
    <2>2. IsHeld(c, K, n, percent, asked, q)
      BY <1>4, <2>1
    <2> QED
      BY <2>2 DEF IsHeld
  <1>6. part = Halved(q, events, independent)
    BY <1>3, <1>4 DEF CheckpointCalibration
  <1>7. IsHalved(K, q, part)
    BY <1>5, <1>6, HalvedFits
  <1>8. PICK held : held = [k \in 1..K |-> part.checkpoint[k]
                              + (IF part.calibration = <<>> THEN 0 ELSE part.calibration[k])]
    OBVIOUS
  <1>9. held = q
    <2>1. \A k \in 1..K : held[k] = q[k]
      BY <1>7, <1>8 DEF IsHalved
    <2>2. DOMAIN held = 1..K /\ DOMAIN q = 1..K
      BY <1>5, <1>8
    <2>3. held = [k \in 1..K |-> held[k]]
      BY <1>8
    <2>4. q = [k \in 1..K |-> q[k]]
      BY <1>5
    <2> QED
      BY <2>1, <2>3, <2>4
  <1>10. \A k \in 1..K : held[k] < c[k] /\ (c[k] > 1 => held[k] > 0)
    BY <1>5, <1>9
  <1>11. RowsIn(held) = Max({TargetRows(RowsIn(c), Len(c), percent), RowsIn(Floors(c, asked))})
    BY <1>0, <1>1, <1>5, <1>9
  <1>12. part.calibration # <<>> => \A k \in 1..K :
            held[k] > 0 => part.checkpoint[k] > 0 /\ part.calibration[k] > 0
    BY <1>7, <1>9 DEF IsHalved
  <1> QED
    BY <1>1, <1>3, <1>8, <1>10, <1>11, <1>12 DEF KeepsClassesOf

\* Whatever the classes, the holdout and the events asked for, the fit, the verifier and
\* the calibration keep every class they can, and so does every verification block.
THEOREM KeepsClasses == DecisionSpec => []VerifierKeepsClasses
  <1>1. ASSUME AnswerOf, Answered("verifier")
        PROVE  KeepsClassesOf(call.counts, call.percent, call.events, call.independent, answer.is)
    <2>1. PICK c \in Asked : /\ call = c
                             /\ answer = Pending \/ answer = [is |-> DecisionAnswer(c)]
      BY <1>1 DEF AnswerOf
    <2>2. /\ answer.is = CheckpointCalibration(c.counts, c.percent, c.events, c.independent)
          /\ c \in Asks("verifier")
      BY <1>1, <2>1 DEF Answered, DecisionAnswer, Asked, Asks
    <2>3. /\ c.counts \in Seq(Nat \ {0}) /\ c.counts # <<>>
          /\ c.percent \in 0..100 /\ c.events \in Nat /\ c.independent \in BOOLEAN
      BY <2>2, VerifiersAreOfClasses
    <2> QED
      BY <2>1, <2>2, <2>3, VerifierKeeps
  <1>2. ASSUME AnswerOf, Answered("blocks")
        PROVE  ArePaired(call.y, answer.is)
    <2>1. PICK c \in Asked : /\ call = c
                             /\ answer = Pending \/ answer = [is |-> DecisionAnswer(c)]
      BY <1>2 DEF AnswerOf
    <2>2. answer.is = VerificationBlocks(c.y, c.max, c.min) /\ c \in Asks("blocks")
      BY <1>2, <2>1 DEF Answered, DecisionAnswer, Asked, Asks
    <2>3. PICK y, n, most, least : y = c.y /\ n = Len(y) /\ most = c.max /\ least = c.min
      OBVIOUS
    <2>4. y \in Seq(Range(y)) /\ y # <<>> /\ most \in Nat \ {0} /\ least \in Nat \ {0}
      BY <2>2, <2>3, BlocksAreOfLabels
    <2>5. n \in Nat \ {0}
      BY <2>3, <2>4
    <2> QED
      BY <2>1, <2>2, <2>3, <2>4, <2>5, BlocksArePaired
  <1>3. AnswerOf => BlocksKeepClasses
    BY <1>2 DEF BlocksKeepClasses, ArePaired
  <1>4. ASSUME AnswerOf, Answered("verifier")
        PROVE  LET c == call.counts  part == answer.is
                   held == [k \in DOMAIN c |-> part.checkpoint[k]
                              + (IF part.calibration = <<>> THEN 0 ELSE part.calibration[k])]
                   asked == IF call.independent THEN 2 * call.events ELSE call.events
                   least == RowsIn(Floors(c, asked))
               IN  /\ \A k \in DOMAIN c : held[k] < c[k] /\ (c[k] > 1 => held[k] > 0)
                   /\ RowsIn(held) = Max({TargetRows(RowsIn(c), Len(c), call.percent), least})
                   /\ part.calibration # <<>> => \A k \in DOMAIN c :
                         held[k] > 0 => part.checkpoint[k] > 0 /\ part.calibration[k] > 0
    BY <1>1, <1>4 DEF KeepsClassesOf
  <1>5. AnswerOf => VerifierKeepsClasses
    BY <1>3, <1>4 DEF VerifierKeepsClasses
  <1> QED
    BY <1>5, Answering, PTL

-----------------------------------------------------------------------------
(* Literals and the domains of their keys.                                 *)

\* The common part of two intervals.
LEMMA IntersectsBoth ==
  ASSUME NEW s \in Interval, NEW t \in Interval
  PROVE  /\ Intersect(s, t) \in Interval
         /\ \A v \in Int : Inside(v, Intersect(s, t)) <=> Inside(v, s) /\ Inside(v, t)
  BY DEF Interval, Intersect, Span, Inside, Larger, Lesser

\* The intervals of the literals of a key, of which Bound is the common part.
AreBoundsOf(path, k) ==
  \A i \in DOMAIN path : Key(path[i]) = k => path[i].op \in {"<=", ">"} /\ path[i].thr \in Int

\* A value is inside the bound of a key when each literal of the key admits it.
LEMMA BoundIsCommon ==
  ASSUME NEW S, NEW path \in Seq(S), NEW k, AreBoundsOf(path, k)
  PROVE  /\ Bound(path, k) \in Interval
         /\ \A v \in Int : NegInf < v /\ v < PosInf =>
               (Inside(v, Bound(path, k)) <=>
                  \A i \in DOMAIN path : Key(path[i]) = k => Inside(v, OfLiteral(path[i].op, path[i].thr)))
  <1>1. PICK n \in Nat : n = Len(path) /\ DOMAIN path = 1..n
    OBVIOUS
  <1>2. NegInf \in Int /\ PosInf \in Int
    BY InfinitiesAssumption
  <1>3. Everything \in Interval
    BY <1>2 DEF Everything, Interval, Span
  <1>4. ASSUME NEW i \in 1..n, Key(path[i]) = k PROVE OfLiteral(path[i].op, path[i].thr) \in Interval
    BY <1>1, <1>2, <1>4 DEF AreBoundsOf, OfLiteral, Interval, Span
  <1> DEFINE Step(s, i) == IF Key(path[i]) = k THEN Intersect(s, OfLiteral(path[i].op, path[i].thr)) ELSE s
  <1>5. ASSUME NEW i \in 1..n, NEW s \in Interval
        PROVE  /\ Step(s, i) \in Interval
               /\ \A v \in Int : Inside(v, Step(s, i)) <=>
                     /\ Inside(v, s)
                     /\ Key(path[i]) = k => Inside(v, OfLiteral(path[i].op, path[i].thr))
    <2>1. CASE Key(path[i]) = k
      BY <1>4, <2>1, IntersectsBoth
    <2>2. CASE Key(path[i]) # k
      BY <2>2
    <2> QED
      BY <2>1, <2>2
  <1>6. PICK D, A : D = Interval /\ A = (1..n) \X D
    OBVIOUS
  <1>7. PICK next : next = [e \in A |-> Step(e[2], e[1])]
    OBVIOUS
  <1>8. next \in [A -> D]
    <2>1. ASSUME NEW e \in A PROVE Step(e[2], e[1]) \in D
      <3>1. e[1] \in 1..n /\ e[2] \in Interval
        BY <1>6
      <3> QED
        BY <1>5, <1>6, <3>1
    <2> HIDE DEF Step
    <2> QED
      BY <1>7, <2>1
  <1>9. PICK h : Follows(h, n, D, Everything, next)
    BY <1>3, <1>6, <1>8, RecursionExists
  <1>10. h \in [0..n -> D] /\ h[0] = Everything /\ \A i \in 1..n : h[i] = Step(h[i - 1], i)
    <2>1. h \in [0..n -> D] /\ h[0] = Everything /\ \A i \in 1..n : h[i] = next[<<i, h[i - 1]>>]
      BY <1>9 DEF Follows
    <2>2. ASSUME NEW i \in 1..n PROVE h[i] = Step(h[i - 1], i)
      <3>1. i - 1 \in 0..n
        OBVIOUS
      <3>2. h[i - 1] \in D
        BY <2>1, <3>1
      <3>3. <<i, h[i - 1]>> \in A /\ <<i, h[i - 1]>>[2] = h[i - 1] /\ <<i, h[i - 1]>>[1] = i
        BY <1>6, <3>2
      <3> HIDE DEF Step
      <3> QED
        BY <1>7, <2>1, <3>3
    <2> QED
      BY <2>1, <2>2
  <1> DEFINE Value0(x, i) == IF i = 0 THEN Everything ELSE Step(x[i - 1], i)
             Solves(x) == x = [i \in 0..n |-> Value0(x, i)]
  <1>11. Solves(h)
    <2>1. \A i \in 0..n : h[i] = Value0(h, i)
      <3> TAKE i \in 0..n
      <3>1. i = 0 \/ (i \in 1..n /\ i # 0)
        OBVIOUS
      <3> HIDE DEF Step
      <3> QED
        BY <1>10, <3>1
    <2> DEFINE Next(i) == Value0(h, i)
    <2>2. h = [i \in 0..n |-> h[i]]
      BY <1>10
    <2>3. \A i \in 0..n : h[i] = Next(i)
      BY <2>1
    <2>4. h = [i \in 0..n |-> Next(i)]
      <3> HIDE DEF Next
      <3> QED
        BY <2>2, <2>3
    <2> QED
      BY <2>4
  <1>12. PICK f : f = CHOOSE x : Solves(x)
    OBVIOUS
  <1>13. Solves(f)
    <2> HIDE DEF Solves
    <2> QED
      BY <1>11, <1>12
  <1>14. Bound(path, k) = f[n]
    BY <1>1, <1>12 DEF Bound
  <1>15. \A i \in 0..n : f[i] = Value0(f, i)
    BY <1>13
  <1>16. f[0] = Everything /\ \A i \in 1..n : f[i] = Step(f[i - 1], i)
    <2>1. 0 \in 0..n /\ \A i \in 1..n : i \in 0..n /\ i # 0
      OBVIOUS
    <2> HIDE DEF Step
    <2> QED
      BY <1>15, <2>1
  <1> DEFINE Shares(i) == /\ f[i] \in Interval
                        /\ \A v \in Int : NegInf < v /\ v < PosInf =>
                              (Inside(v, f[i]) <=>
                                 \A j \in 1..i : Key(path[j]) = k => Inside(v, OfLiteral(path[j].op, path[j].thr)))
  <1>17. PICK T : T = {i \in 0..n : Shares(i)}
    OBVIOUS
  <1>18. 0..n \subseteq T
    <2>1. 0 \in T
      <3>1. \A v \in Int : NegInf < v /\ v < PosInf => Inside(v, Everything)
        BY <1>2 DEF Inside, Everything, Span
      <3>2. 1..0 = {} /\ 0 \in 0..n
        OBVIOUS
      <3>3. Shares(0)
        BY <1>3, <1>16, <3>1, <3>2
      <3> QED
        BY <1>17, <3>2, <3>3
    <2>2. ASSUME NEW i \in 1..n, i - 1 \in T PROVE i \in T
      <3>1. Shares(i - 1)
        BY <1>17, <2>2
      <3>2. PICK s \in Interval : s = f[i - 1]
        BY <3>1
      <3>3. f[i] = Step(s, i)
        BY <1>16, <3>2
      <3>4. /\ f[i] \in Interval
            /\ \A v \in Int : Inside(v, f[i]) <=>
                     /\ Inside(v, s)
                     /\ Key(path[i]) = k => Inside(v, OfLiteral(path[i].op, path[i].thr))
        <4> HIDE DEF Step
        <4> QED
          BY <1>5, <3>3
      <3>5. \A j : j \in 1..i <=> j \in 1..i - 1 \/ j = i
        OBVIOUS
      <3>6. ASSUME NEW v \in Int, NegInf < v, v < PosInf
            PROVE  Inside(v, f[i]) <=>
                     \A j \in 1..i : Key(path[j]) = k => Inside(v, OfLiteral(path[j].op, path[j].thr))
        <4>1. Inside(v, s) <=>
                \A j \in 1..i - 1 : Key(path[j]) = k => Inside(v, OfLiteral(path[j].op, path[j].thr))
          BY <3>1, <3>2, <3>6
        <4>2. Inside(v, f[i]) <=>
                Inside(v, s) /\ (Key(path[i]) = k => Inside(v, OfLiteral(path[i].op, path[i].thr)))
          BY <3>4
        <4> QED
          BY <3>5, <4>1, <4>2, Zenon
      <3>7. Shares(i)
        BY <3>4, <3>6
      <3> QED
        BY <1>17, <3>7
    <2> HIDE DEF Shares
    <2> QED
      BY <2>1, <2>2, Upward
  <1>19. Shares(n)
    BY <1>17, <1>18
  <1> QED
    BY <1>1, <1>14, <1>19

\* A path is a sequence of literals, on a row that has the columns they mention.
IsPath(path) == path \in Seq(Range(path)) /\ \A p \in Range(path) : IsLiteral(p)
HasRow(path, x) == \A p \in Range(path) : IsRow(x, Range(p.cols))

\* Level is the level of the column with the greatest number, or the unseen level.
LEMMA LevelOfBlock ==
  ASSUME NEW cols, cols \in Seq(Range(cols)), cols # <<>>, NEW x, IsRow(x, Range(cols))
  PROVE  /\ Level(x, cols) \in Universe(Len(cols))
         /\ \E top \in 1..Len(cols) :
               /\ \A c \in 1..Len(cols) : x[cols[c]] \in Int /\ x[cols[c]] <= x[cols[top]]
               /\ Level(x, cols) = IF 2 * x[cols[top]] > One THEN top - 1 ELSE Unseen
  <1>1. PICK n \in Nat \ {0} : n = Len(cols) /\ DOMAIN cols = 1..n
    OBVIOUS
  <1>2. PICK s : s = [i \in 1..n |-> x[cols[i]]]
    OBVIOUS
  <1>3. ASSUME NEW i \in 1..n PROVE x[cols[i]] \in Int
    <2>1. cols[i] \in Range(cols)
      BY <1>1 DEF Range
    <2> QED
      BY <2>1 DEF IsRow
  <1>4. s \in [1..n -> Int]
    BY <1>2, <1>3
  <1>5. PICK top \in 1..n : top = ArgMax(s) /\ \A c \in 1..n : s[c] <= s[top]
    BY <1>4, ArgMaxOf
  <1>6. Level(x, cols) = IF 2 * x[cols[top]] > One THEN top - 1 ELSE Unseen
    BY <1>1, <1>2, <1>5 DEF Level
  <1>7. \A c \in 1..n : x[cols[c]] <= x[cols[top]]
    BY <1>2, <1>5
  <1>8. Level(x, cols) \in Universe(n)
    <2>1. top - 1 \in 0..n - 1
      OBVIOUS
    <2> QED
      BY <1>6, <2>1 DEF Universe
  <1> QED
    BY <1>1, <1>3, <1>6, <1>7, <1>8

\* What the literals of a key say of a row.
HoldsOf(path, k, x) == \A i \in DOMAIN path : Key(path[i]) = k => Holds(path[i], x)

\* A literal of a number holds when the number is inside its interval.
LEMMA NumberHolds ==
  ASSUME NEW p, IsLiteral(p), p.kind = "num", NEW x, IsRow(x, Range(p.cols))
  PROVE  /\ p.op \in {"<=", ">"} /\ p.thr \in Int /\ p.cols = <<p.cols[1]>>
         /\ x[p.cols[1]] \in Int /\ NegInf < x[p.cols[1]] /\ x[p.cols[1]] < PosInf
         /\ Holds(p, x) <=> Inside(x[p.cols[1]], OfLiteral(p.op, p.thr))
  <1>1. p.op \in {"<=", ">"} /\ p.thr \in Int /\ Len(p.cols) = 1 /\ p.cols \in Seq(Range(p.cols))
    BY DEF IsLiteral
  <1>2. p.cols = <<p.cols[1]>> /\ p.cols[1] \in Range(p.cols)
    BY <1>1
  <1>3. PICK v \in Int : v = x[p.cols[1]] /\ NegInf < v /\ v < PosInf
    BY <1>2 DEF IsRow
  <1>4. Holds(p, x) <=> IF p.op = ">" THEN v > p.thr ELSE v <= p.thr
    BY <1>3 DEF Holds
  <1>5. Inside(v, OfLiteral(p.op, p.thr)) <=> IF p.op = ">" THEN v > p.thr ELSE v <= p.thr
    <2>1. NegInf \in Int /\ PosInf \in Int
      BY InfinitiesAssumption
    <2> QED
      BY <1>1, <1>3, <2>1 DEF Inside, OfLiteral, Span
  <1> QED
    BY <1>1, <1>2, <1>3, <1>4, <1>5

\* A literal of a block holds when the level of the row is one that it admits.
LEMMA LevelHolds ==
  ASSUME NEW p, IsLiteral(p), p.kind = "cat", NEW x, IsRow(x, Range(p.cols))
  PROVE  /\ p.op \in {"in", "not in"} /\ Level(x, p.cols) \in Universe(Len(p.cols))
         /\ Holds(p, x) <=> Level(x, p.cols) \in LevelsOf(Len(p.cols), p.op, p.levels)
  <1>1. p.op \in {"in", "not in"} /\ p.cols \in Seq(Range(p.cols)) /\ p.cols # <<>>
    BY DEF IsLiteral
  <1>2. Level(x, p.cols) \in Universe(Len(p.cols))
    BY <1>1, LevelOfBlock
  <1>3. Holds(p, x) <=> IF p.op = "in" THEN Level(x, p.cols) \in p.levels
                        ELSE Level(x, p.cols) \notin p.levels
    BY DEF Holds
  <1> QED
    BY <1>1, <1>2, <1>3 DEF LevelsOf

\* The domain of a key admits the rows that all literals of the key hold of.
LEMMA DomainOfKey ==
  ASSUME NEW path, IsPath(path), NEW a \in DOMAIN path, NEW k, k = Key(path[a]), NEW x, HasRow(path, x)
  PROVE  /\ k.kind = "cat" => (HoldsOf(path, k, x) <=> Level(x, k.cols) \in Allowed(path, k))
         /\ k.kind # "cat" =>
               /\ x[k.cols[1]] \in Int /\ NegInf < x[k.cols[1]] /\ x[k.cols[1]] < PosInf
               /\ k.kind = "num" /\ k.cols = <<k.cols[1]>> /\ AreBoundsOf(path, k)
               /\ HoldsOf(path, k, x) <=> Inside(x[k.cols[1]], Bound(path, k))
  <1>1. k = Key(path[a]) /\ k.kind = path[a].kind /\ k.cols = path[a].cols
    BY DEF Key
  <1>2. ASSUME NEW i \in DOMAIN path, Key(path[i]) = k
        PROVE  /\ path[i].kind = k.kind /\ path[i].cols = k.cols
               /\ IsLiteral(path[i]) /\ IsRow(x, Range(path[i].cols))
    <2>1. path[i] \in Range(path)
      BY DEF Range
    <2> QED
      BY <1>1, <1>2, <2>1 DEF Key, IsPath, HasRow
  <1>3. IsLiteral(path[a]) /\ IsRow(x, Range(k.cols)) /\ path[a].kind \in {"num", "cat"}
    BY <1>1, <1>2 DEF IsLiteral
  <1>4. CASE k.kind = "cat"
    <2>1. Level(x, k.cols) \in Universe(Len(k.cols))
      BY <1>1, <1>3, <1>4, LevelHolds
    <2>2. ASSUME NEW i \in DOMAIN path, Key(path[i]) = k
          PROVE  Holds(path[i], x) <=>
                   Level(x, k.cols) \in LevelsOf(Len(k.cols), path[i].op, path[i].levels)
      <3>1. path[i].kind = "cat" /\ path[i].cols = k.cols /\ IsLiteral(path[i]) /\ IsRow(x, Range(path[i].cols))
        BY <1>2, <1>4, <2>2
      <3> QED
        BY <3>1, LevelHolds
    <2>3. HoldsOf(path, k, x) <=> Level(x, k.cols) \in Allowed(path, k)
      BY <2>1, <2>2 DEF HoldsOf, Allowed
    <2> QED
      BY <1>1, <1>4, <2>3
  <1>5. CASE k.kind # "cat"
    <2>1. k.kind = "num"
      BY <1>1, <1>3, <1>5
    <2>2. /\ k.cols = <<k.cols[1]>> /\ x[k.cols[1]] \in Int
          /\ NegInf < x[k.cols[1]] /\ x[k.cols[1]] < PosInf
      BY <1>1, <1>3, <2>1, NumberHolds
    <2>3. ASSUME NEW i \in DOMAIN path, Key(path[i]) = k
          PROVE  /\ path[i].op \in {"<=", ">"} /\ path[i].thr \in Int
                 /\ Holds(path[i], x) <=> Inside(x[k.cols[1]], OfLiteral(path[i].op, path[i].thr))
      <3>1. path[i].kind = "num" /\ path[i].cols = k.cols /\ IsLiteral(path[i]) /\ IsRow(x, Range(path[i].cols))
        BY <1>2, <2>1, <2>3
      <3> QED
        BY <3>1, NumberHolds
    <2>4. AreBoundsOf(path, k)
      BY <2>3 DEF AreBoundsOf
    <2>5. Inside(x[k.cols[1]], Bound(path, k)) <=>
            \A i \in DOMAIN path : Key(path[i]) = k => Inside(x[k.cols[1]], OfLiteral(path[i].op, path[i].thr))
      BY <2>2, <2>4, BoundIsCommon DEF IsPath
    <2>6. HoldsOf(path, k, x) <=> Inside(x[k.cols[1]], Bound(path, k))
      BY <2>3, <2>5 DEF HoldsOf
    <2> QED
      BY <1>1, <1>5, <2>1, <2>2, <2>4, <2>6
  <1> QED
    BY <1>4, <1>5

\* The keys of a path, and the literals that can stand for them.
KeyColumns(path) == {path[i].cols : i \in DOMAIN path}
LiteralsOn(C) ==
  [kind : {"num", "cat"}, cols : C, op : {"<=", ">", "in", "not in"}, thr : Int, levels : SUBSET Int]

\* A key is of a number with bounds, or of a block.
LEMMA KeysOfPaths ==
  ASSUME NEW path, IsPath(path), NEW a \in DOMAIN path, NEW k, k = Key(path[a])
  PROVE  /\ k = [kind |-> k.kind, cols |-> k.cols] /\ k.cols \in KeyColumns(path)
         /\ k.kind \in {"num", "cat"} /\ k.cols \in Seq(Range(k.cols)) /\ k.cols # <<>>
         /\ k.kind = "num" => k.cols = <<k.cols[1]>> /\ Len(k.cols) = 1 /\ AreBoundsOf(path, k)
  <1>1. k = [kind |-> path[a].kind, cols |-> path[a].cols] /\ k.kind = path[a].kind /\ k.cols = path[a].cols
    BY DEF Key
  <1>2. ASSUME NEW i \in DOMAIN path, Key(path[i]) = k
        PROVE  path[i].kind = k.kind /\ path[i].cols = k.cols /\ IsLiteral(path[i])
    <2>1. path[i] \in Range(path)
      BY DEF Range
    <2> QED
      BY <1>1, <1>2, <2>1 DEF Key, IsPath
  <1>3. IsLiteral(path[a])
    BY <1>2
  <1>4. k.kind \in {"num", "cat"} /\ k.cols \in Seq(Range(k.cols)) /\ k.cols # <<>>
    BY <1>1, <1>3 DEF IsLiteral
  <1>5. ASSUME k.kind = "num" PROVE k.cols = <<k.cols[1]>> /\ Len(k.cols) = 1 /\ AreBoundsOf(path, k)
    <2>1. Len(k.cols) = 1
      BY <1>1, <1>3, <1>5 DEF IsLiteral
    <2>2. k.cols = <<k.cols[1]>>
      BY <1>4, <2>1
    <2>3. ASSUME NEW i \in DOMAIN path, Key(path[i]) = k
          PROVE  path[i].op \in {"<=", ">"} /\ path[i].thr \in Int
      <3>1. path[i].kind = "num" /\ IsLiteral(path[i])
        BY <1>2, <1>5, <2>3
      <3> QED
        BY <3>1 DEF IsLiteral
    <2> QED
      BY <2>1, <2>2, <2>3 DEF AreBoundsOf
  <1> QED
    BY <1>1, <1>4, <1>5 DEF KeyColumns

\* The literals that are written for a key.
AreOfKey(q, k, C) ==
  /\ q \in Seq(LiteralsOn(C))
  /\ \A b \in DOMAIN q : Key(q[b]) = k /\ IsLiteral(q[b])
  /\ \A b, c \in DOMAIN q : b # c => q[b].op # q[c].op

\* The literals of an interval bound each side of the column once.
LEMMA BoundsAreLiterals ==
  ASSUME NEW C, NEW j, <<j>> \in C, NEW s \in Interval
  PROVE  /\ AreOfKey(BoundLiterals(j, s), [kind |-> "num", cols |-> <<j>>], C)
         /\ \A x : /\ x[j] \in Int /\ NegInf < x[j] /\ x[j] < PosInf
                   => (Means(BoundLiterals(j, s), x) <=> Inside(x[j], s))
  <1>1. NegInf \in Int /\ PosInf \in Int /\ s.lower \in Int /\ s.upper \in Int
    BY InfinitiesAssumption DEF Interval
  <1>2. PICK p, q : p = Num(j, ">", s.lower) /\ q = Num(j, "<=", s.upper)
    OBVIOUS
  <1>3. /\ p.kind = "num" /\ p.cols = <<j>> /\ p.op = ">" /\ p.thr = s.lower
        /\ q.kind = "num" /\ q.cols = <<j>> /\ q.op = "<=" /\ q.thr = s.upper
    BY <1>2 DEF Num
  <1>4. PICK D : D = LiteralsOn(C)
    OBVIOUS
  <1>5. p \in D /\ q \in D
    BY <1>1, <1>2, <1>4 DEF Num, LiteralsOn
  <1>6. /\ Key(p) = [kind |-> "num", cols |-> <<j>>] /\ IsLiteral(p)
        /\ Key(q) = [kind |-> "num", cols |-> <<j>>] /\ IsLiteral(q)
    <2>1. <<j>> \in Seq(Range(<<j>>)) /\ <<j>> # <<>> /\ Len(<<j>>) = 1
      BY DEF Range
    <2> QED
      BY <1>1, <1>3, <2>1 DEF Key, IsLiteral
  <1>7. ASSUME NEW x, x[j] \in Int
        PROVE  (Holds(p, x) <=> s.lower < x[j]) /\ (Holds(q, x) <=> x[j] <= s.upper)
    <2>1. <<j>>[1] = j
      OBVIOUS
    <2>2. (Holds(p, x) <=> x[j] > s.lower) /\ (Holds(q, x) <=> x[j] <= s.upper)
      BY <1>3, <2>1 DEF Holds
    <2> QED
      BY <1>1, <1>7, <2>2
  <1>8. PICK o : o = BoundLiterals(j, s)
    OBVIOUS
  <1>9. o = (IF s.lower # NegInf THEN <<p>> ELSE <<>>) \o (IF s.upper # PosInf THEN <<q>> ELSE <<>>)
    BY <1>2, <1>8 DEF BoundLiterals
  <1>10. ASSUME NEW x, x[j] \in Int, NegInf < x[j], x[j] < PosInf
         PROVE  Inside(x[j], s) <=> /\ s.lower # NegInf => Holds(p, x)
                                    /\ s.upper # PosInf => Holds(q, x)
    BY <1>1, <1>7, <1>10 DEF Inside
  <1>11. CASE s.lower # NegInf /\ s.upper # PosInf
    <2>1. PICK u, v : u = <<p>> /\ v = <<q>> /\ o = u \o v
      BY <1>9, <1>11
    <2>2. o \in Seq(D) /\ DOMAIN o = 1..2 /\ o[1] = p /\ o[2] = q
      <3>1. u \in Seq(D) /\ Len(u) = 1 /\ u[1] = p /\ v \in Seq(D) /\ Len(v) = 1 /\ v[1] = q
        BY <1>5, <2>1
      <3>2. o \in Seq(D) /\ Len(o) = 2 /\ o[1] = p /\ o[1 + 1] = q
        BY <2>1, <3>1, Joins
      <3> QED
        BY <3>2
    <2>3. \A b \in DOMAIN o : b = 1 \/ b = 2
      BY <2>2
    <2>4. \A b, c \in DOMAIN o : b # c => o[b].op # o[c].op
      BY <1>3, <2>2, <2>3
    <2>5. AreOfKey(o, [kind |-> "num", cols |-> <<j>>], C)
      BY <1>4, <1>6, <2>2, <2>3, <2>4 DEF AreOfKey
    <2>6. \A x : Means(o, x) <=> Holds(p, x) /\ Holds(q, x)
      BY <2>2, <2>3 DEF Means
    <2> QED
      BY <1>8, <1>10, <1>11, <2>5, <2>6
  <1>12. CASE s.lower # NegInf /\ s.upper = PosInf
    <2>1. o = <<p>>
      BY <1>9, <1>12
    <2>2. o \in Seq(D) /\ DOMAIN o = 1..1 /\ o[1] = p
      BY <1>5, <2>1
    <2>3. \A b \in DOMAIN o : b = 1
      BY <2>2
    <2>4. AreOfKey(o, [kind |-> "num", cols |-> <<j>>], C)
      BY <1>4, <1>6, <2>2, <2>3 DEF AreOfKey
    <2>5. \A x : Means(o, x) <=> Holds(p, x)
      BY <2>2, <2>3 DEF Means
    <2> QED
      BY <1>8, <1>10, <1>12, <2>4, <2>5
  <1>13. CASE s.lower = NegInf /\ s.upper # PosInf
    <2>1. o = <<q>>
      BY <1>9, <1>13
    <2>2. o \in Seq(D) /\ DOMAIN o = 1..1 /\ o[1] = q
      BY <1>5, <2>1
    <2>3. \A b \in DOMAIN o : b = 1
      BY <2>2
    <2>4. AreOfKey(o, [kind |-> "num", cols |-> <<j>>], C)
      BY <1>4, <1>6, <2>2, <2>3 DEF AreOfKey
    <2>5. \A x : Means(o, x) <=> Holds(q, x)
      BY <2>2, <2>3 DEF Means
    <2> QED
      BY <1>8, <1>10, <1>13, <2>4, <2>5
  <1>14. CASE s.lower = NegInf /\ s.upper = PosInf
    <2>1. o = <<>>
      BY <1>9, <1>14
    <2>2. o \in Seq(D) /\ DOMAIN o = {}
      BY <2>1
    <2>4. AreOfKey(o, [kind |-> "num", cols |-> <<j>>], C)
      BY <1>4, <2>2 DEF AreOfKey
    <2>5. \A x : Means(o, x)
      BY <2>2 DEF Means
    <2> QED
      BY <1>8, <1>10, <1>14, <2>4, <2>5
  <1> QED
    BY <1>11, <1>12, <1>13, <1>14

\* At most one literal is written for a set of levels, and it admits those levels.
LEMMA LevelsAreLiterals ==
  ASSUME NEW C, NEW cols \in C, cols \in Seq(Range(cols)), cols # <<>>,
         NEW allowed \in SUBSET Universe(Len(cols))
  PROVE  /\ AreOfKey(LevelLiterals(cols, allowed), [kind |-> "cat", cols |-> cols], C)
         /\ \A x : IsRow(x, Range(cols)) =>
               (Means(LevelLiterals(cols, allowed), x) <=> Level(x, cols) \in allowed)
  <1>1. PICK U : U = Universe(Len(cols)) /\ U \subseteq Int
    <2>1. PICK n \in Nat : n = Len(cols)
      OBVIOUS
    <2>2. Unseen \in Int
      BY DEF Unseen
    <2>3. {Unseen} \cup (0..n - 1) \subseteq Int
      BY <2>2
    <2> QED
      BY <2>1, <2>3 DEF Universe
  <1>2. PICK o : o = LevelLiterals(cols, allowed)
    OBVIOUS
  <1>3. CASE allowed = U
    <2>1. o = <<>>
      BY <1>1, <1>2, <1>3 DEF LevelLiterals
    <2>2. o \in Seq(LiteralsOn(C)) /\ DOMAIN o = {}
      BY <2>1
    <2>3. AreOfKey(o, [kind |-> "cat", cols |-> cols], C) /\ \A x : Means(o, x)
      BY <2>2 DEF AreOfKey, Means
    <2>4. \A x : IsRow(x, Range(cols)) => Level(x, cols) \in allowed
      BY <1>1, <1>3, LevelOfBlock
    <2> QED
      BY <1>2, <2>3, <2>4
  <1>4. CASE allowed # U
    <2>1. PICK op, levels : /\ op \in {"in", "not in"} /\ levels \in SUBSET U
                            /\ op = "in" => levels = allowed
                            /\ op = "not in" => levels = U \ allowed
                            /\ o = <<Cat(cols, op, levels)>>
      <3>1. CASE Unseen \in allowed
        <4>1. o = <<Cat(cols, "not in", U \ allowed)>>
          BY <1>1, <1>2, <1>4, <3>1 DEF LevelLiterals
        <4> QED
          BY <4>1
      <3>2. CASE Unseen \notin allowed
        <4>1. o = <<Cat(cols, "in", allowed)>>
          BY <1>1, <1>2, <1>4, <3>2 DEF LevelLiterals
        <4> QED
          BY <1>1, <4>1
      <3> QED
        BY <3>1, <3>2
    <2>2. PICK p : p = Cat(cols, op, levels)
      OBVIOUS
    <2>3. /\ p.kind = "cat" /\ p.cols = cols /\ p.op = op /\ p.levels = levels
          /\ p \in LiteralsOn(C)
      <3>1. p = [kind |-> "cat", cols |-> cols, op |-> op, thr |-> 0, levels |-> levels]
        BY <2>2 DEF Cat
      <3>2. levels \in SUBSET Int
        BY <1>1, <2>1
      <3>3. op \in {"<=", ">", "in", "not in"}
        <4>1. op \in {"in", "not in"}
          BY <2>1
        <4> QED
          BY <4>1
      <3>4. /\ DOMAIN p = {"kind", "cols", "op", "thr", "levels"}
            /\ p.kind = "cat" /\ p.cols = cols /\ p.op = op /\ p.thr = 0 /\ p.levels = levels
        BY <3>1
      <3>5. p \in LiteralsOn(C)
        <4>1. PICK K, O, L : K = {"num", "cat"} /\ O = {"<=", ">", "in", "not in"} /\ L = SUBSET Int
          OBVIOUS
        <4>2. "cat" \in K
          BY <4>1, Zenon
        <4>3. 0 \in Int
          OBVIOUS
        <4>4. p \in [kind : K, cols : C, op : O, thr : Int, levels : L]
          BY <3>1, <3>2, <3>3, <4>1, <4>2, <4>3
        <4> QED
          BY <4>1, <4>4 DEF LiteralsOn
      <3> QED
        BY <3>4, <3>5
    <2>4. Key(p) = [kind |-> "cat", cols |-> cols] /\ IsLiteral(p)
      BY <2>1, <2>3 DEF Key, IsLiteral
    <2>5. o \in Seq(LiteralsOn(C)) /\ DOMAIN o = 1..1 /\ o[1] = p /\ \A b \in DOMAIN o : b = 1
      <3>1. PICK D : D = LiteralsOn(C) /\ p \in D /\ o = <<p>>
        BY <2>1, <2>2, <2>3
      <3>2. o \in Seq(D) /\ DOMAIN o = 1..1 /\ o[1] = p /\ \A b \in 1..1 : b = 1
        BY <3>1
      <3> QED
        BY <3>1, <3>2
    <2>6. AreOfKey(o, [kind |-> "cat", cols |-> cols], C)
      BY <2>4, <2>5 DEF AreOfKey
    <2>7. \A x : Means(o, x) <=> Holds(p, x)
      BY <2>5 DEF Means
    <2>8. ASSUME NEW x, IsRow(x, Range(cols)) PROVE Holds(p, x) <=> Level(x, cols) \in allowed
      <3>1. /\ Level(x, cols) \in U
            /\ Holds(p, x) <=> Level(x, cols) \in LevelsOf(Len(cols), op, levels)
        BY <1>1, <2>3, <2>4, <2>8, LevelHolds
      <3>2. LevelsOf(Len(cols), op, levels) = allowed
        BY <1>1, <2>1 DEF LevelsOf
      <3> QED
        BY <3>1, <3>2
    <2> QED
      BY <1>2, <2>6, <2>7, <2>8
  <1> QED
    BY <1>3, <1>4

\* The literals that are written for a key hold of the rows that its literals hold of.
LEMMA DomainIsWritten ==
  ASSUME NEW path, IsPath(path), NEW a \in DOMAIN path, NEW k, k = Key(path[a])
  PROVE  /\ AreOfKey(DomainLiterals(path, k), k, KeyColumns(path))
         /\ \A x : HasRow(path, x) => (Means(DomainLiterals(path, k), x) <=> HoldsOf(path, k, x))
  <1>1. /\ k = [kind |-> k.kind, cols |-> k.cols] /\ k.cols \in KeyColumns(path)
        /\ k.kind \in {"num", "cat"} /\ k.cols \in Seq(Range(k.cols)) /\ k.cols # <<>>
        /\ k.kind = "num" => k.cols = <<k.cols[1]>> /\ Len(k.cols) = 1 /\ AreBoundsOf(path, k)
    BY KeysOfPaths
  <1>2. CASE k.kind = "cat"
    <2>1. DomainLiterals(path, k) = LevelLiterals(k.cols, Allowed(path, k))
      BY <1>2 DEF DomainLiterals
    <2>2. Allowed(path, k) \in SUBSET Universe(Len(k.cols))
      BY DEF Allowed
    <2>3. /\ AreOfKey(DomainLiterals(path, k), k, KeyColumns(path))
          /\ \A x : IsRow(x, Range(k.cols)) =>
                (Means(DomainLiterals(path, k), x) <=> Level(x, k.cols) \in Allowed(path, k))
      BY <1>1, <1>2, <2>1, <2>2, LevelsAreLiterals
    <2>4. ASSUME NEW x, HasRow(path, x)
          PROVE  IsRow(x, Range(k.cols)) /\ (HoldsOf(path, k, x) <=> Level(x, k.cols) \in Allowed(path, k))
      <3>1. path[a] \in Range(path) /\ k.cols = path[a].cols
        BY DEF Range, Key
      <3>2. IsRow(x, Range(k.cols))
        BY <2>4, <3>1 DEF HasRow
      <3> QED
        BY <1>2, <2>4, <3>2, DomainOfKey
    <2> QED
      BY <2>3, <2>4
  <1>3. CASE k.kind = "num"
    <2>1. PICK s \in Interval : s = Bound(path, k)
      BY <1>1, <1>3, BoundIsCommon DEF IsPath
    <2>2. DomainLiterals(path, k) = BoundLiterals(k.cols[1], s)
      BY <1>3, <2>1 DEF DomainLiterals
    <2>3. PICK j : j = k.cols[1] /\ k.cols = <<j>> /\ <<j>> \in KeyColumns(path)
      BY <1>1, <1>3
    <2>4. /\ AreOfKey(DomainLiterals(path, k), k, KeyColumns(path))
          /\ \A x : x[j] \in Int /\ NegInf < x[j] /\ x[j] < PosInf =>
                (Means(DomainLiterals(path, k), x) <=> Inside(x[j], s))
      BY <1>1, <1>3, <2>1, <2>2, <2>3, BoundsAreLiterals
    <2>5. ASSUME NEW x, HasRow(path, x)
          PROVE  /\ x[j] \in Int /\ NegInf < x[j] /\ x[j] < PosInf
                 /\ HoldsOf(path, k, x) <=> Inside(x[j], s)
      <3>1. k.kind # "cat"
        BY <1>3
      <3> QED
        BY <2>1, <2>3, <2>5, <3>1, DomainOfKey
    <2> QED
      BY <2>4, <2>5
  <1> QED
    BY <1>1, <1>2, <1>3

-----------------------------------------------------------------------------
(* The canonical form of a path.                                           *)

\* The members of the first k sequences, two by two in R, one after the other.
IsFlat(S, R, k, seqs, flat) ==
  /\ flat \in Seq(S)
  /\ \A b \in DOMAIN flat : \E i \in 1..k : \E d \in DOMAIN seqs[i] : flat[b] = seqs[i][d]
  /\ \A i \in 1..k : \A d \in DOMAIN seqs[i] : \E b \in DOMAIN flat : flat[b] = seqs[i][d]
  /\ \A b, c \in DOMAIN flat : b # c => <<flat[b], flat[c]>> \in R

\* The members of p and then those of q.
IsJoin(S, p, q, o) ==
  /\ o \in Seq(S)
  /\ \A b \in DOMAIN p : b \in DOMAIN o /\ o[b] = p[b]
  /\ \A d \in DOMAIN q : Len(p) + d \in DOMAIN o /\ o[Len(p) + d] = q[d]
  /\ \A b \in DOMAIN o : b \in DOMAIN p \/ \E d \in DOMAIN q : b = Len(p) + d

\* Where the members of a join are.
LEMMA JoinedPlaces ==
  ASSUME NEW S, NEW p \in Seq(S), NEW q \in Seq(S)
  PROVE  IsJoin(S, p, q, p \o q)
  <1> DEFINE o == p \o q
  <1>1. PICK n \in Nat, m \in Nat : n = Len(p) /\ m = Len(q) /\ DOMAIN p = 1..n /\ DOMAIN q = 1..m
    OBVIOUS
  <1>2. /\ o \in Seq(S) /\ DOMAIN o = 1..n + m
        /\ (\A i \in 1..n : o[i] = p[i]) /\ (\A i \in 1..m : o[n + i] = q[i])
    <2>1. o \in Seq(S) /\ Len(o) = n + m /\ (\A i \in 1..n : o[i] = p[i]) /\ \A i \in 1..m : o[n + i] = q[i]
      BY <1>1, Joins
    <2> HIDE DEF o
    <2> QED
      BY <2>1
  <1>3. ASSUME NEW b \in 1..n + m PROVE b \in 1..n \/ \E d \in 1..m : b = n + d
    <2>1. b \in 1..n \/ (b - n \in 1..m /\ b = n + (b - n))
      OBVIOUS
    <2> QED
      BY <2>1
  <1>4. (\A i \in 1..n : i \in 1..n + m) /\ \A i \in 1..m : n + i \in 1..n + m
    OBVIOUS
  <1>5. IsJoin(S, p, q, o)
    <2> HIDE DEF o
    <2>1. \A b \in DOMAIN p : b \in DOMAIN o /\ o[b] = p[b]
      BY <1>1, <1>2, <1>4
    <2>2. \A d \in DOMAIN q : Len(p) + d \in DOMAIN o /\ o[Len(p) + d] = q[d]
      BY <1>1, <1>2, <1>4
    <2>3. \A b \in DOMAIN o : b \in DOMAIN p \/ \E d \in DOMAIN q : b = Len(p) + d
      <3>1. \A b \in 1..n + m : b \in 1..n \/ \E d \in 1..m : b = n + d
        BY <1>3
      <3>2. n = Len(p) /\ 1..n = DOMAIN p /\ 1..m = DOMAIN q /\ 1..n + m = DOMAIN o
        BY <1>1, <1>2
      <3> QED
        BY <3>1, <3>2, Zenon
    <2> QED
      BY <1>2, <2>1, <2>2, <2>3 DEF IsJoin
  <1> QED
    BY <1>5

\* FlattenSeq keeps the members of the sequences, and what relates them two by two.
LEMMA FlatMembers ==
  ASSUME NEW S, NEW n \in Nat \ {0}, NEW seqs \in [1..n -> Seq(S)], NEW R,
         \A i, j \in 1..n : \A d \in DOMAIN seqs[i], e \in DOMAIN seqs[j] :
            i # j \/ d # e => <<seqs[i][d], seqs[j][e]>> \in R
  PROVE  IsFlat(S, R, n, seqs, FlattenSeq(seqs))
  <1>1. PICK f : AreJoinedTo(S, n, seqs, f) /\ FlattenSeq(seqs) = f[n]
    BY FlattensByJoining
  <1>2. /\ f \in [1..n -> Seq(S)] /\ f[1] = seqs[1]
        /\ \A i \in 2..n : f[i] = f[i - 1] \o seqs[i]
    BY <1>1 DEF AreJoinedTo
  <1>3. PICK m \in Nat : n = m + 1
    <2>1. n - 1 \in Nat /\ n = (n - 1) + 1
      OBVIOUS
    <2> QED
      BY <2>1
  <1>4. PICK T : T = {k \in 0..m : IsFlat(S, R, k + 1, seqs, f[k + 1])}
    OBVIOUS
  <1>5. 0 \in T
    <2>1. 1 \in 1..n /\ 0 + 1 = 1 /\ 0 \in 0..m /\ \A i \in 1..1 : i = 1
      BY <1>3
    <2>2. seqs[1] \in Seq(S)
      BY <2>1
    <2>3. \A b, c \in DOMAIN seqs[1] : b # c => <<seqs[1][b], seqs[1][c]>> \in R
      BY <2>1
    <2>4. IsFlat(S, R, 1, seqs, f[1])
      BY <1>2, <2>1, <2>2, <2>3 DEF IsFlat
    <2> QED
      BY <1>4, <2>1, <2>4
  <1>6. ASSUME NEW k \in 1..m, k - 1 \in T PROVE k \in T
    <2>1. k \in 1..n /\ k + 1 \in 2..n /\ (k + 1) - 1 = k /\ (k - 1) + 1 = k /\ k + 1 \in 1..n
      BY <1>3
    <2>2. PICK p, q, o : p = f[k] /\ q = seqs[k + 1] /\ o = f[k + 1] /\ p \in Seq(S) /\ q \in Seq(S)
      BY <1>2, <2>1
    <2>3. o = p \o q
      BY <1>2, <2>1, <2>2
    <2>4. /\ \A b \in DOMAIN p : \E i \in 1..k : \E d \in DOMAIN seqs[i] : p[b] = seqs[i][d]
          /\ \A i \in 1..k : \A d \in DOMAIN seqs[i] : \E b \in DOMAIN p : p[b] = seqs[i][d]
          /\ \A b, c \in DOMAIN p : b # c => <<p[b], p[c]>> \in R
      <3>1. IsFlat(S, R, k, seqs, p)
        BY <1>4, <1>6, <2>1, <2>2
      <3> QED
        BY <3>1 DEF IsFlat
    <2>5. \A i : i \in 1..k + 1 <=> i \in 1..k \/ i = k + 1
      OBVIOUS
    <2>6. (\A i \in 1..k : i \in 1..n /\ i # k + 1)
      BY <2>1
    <2>7. /\ o \in Seq(S)
          /\ \A b \in DOMAIN p : b \in DOMAIN o /\ o[b] = p[b]
          /\ \A d \in DOMAIN q : Len(p) + d \in DOMAIN o /\ o[Len(p) + d] = q[d]
          /\ \A b \in DOMAIN o : b \in DOMAIN p \/ \E d \in DOMAIN q : b = Len(p) + d
      <3>1. IsJoin(S, p, q, o)
        BY <2>2, <2>3, JoinedPlaces, Zenon
      <3> QED
        BY <3>1 DEF IsJoin
    <2>8. ASSUME NEW b \in DOMAIN o
          PROVE \E i \in 1..k + 1 : \E d \in DOMAIN seqs[i] : o[b] = seqs[i][d]
      <3>1. CASE b \in DOMAIN p
        <4>1. PICK i \in 1..k : \E d \in DOMAIN seqs[i] : p[b] = seqs[i][d]
          BY <2>4, <3>1
        <4>2. o[b] = p[b] /\ i \in 1..k + 1
          BY <2>5, <2>7, <3>1
        <4> QED
          BY <4>1, <4>2
      <3>2. CASE \E d \in DOMAIN q : b = Len(p) + d
        <4>1. PICK d \in DOMAIN q : b = Len(p) + d
          BY <3>2
        <4>2. o[b] = seqs[k + 1][d] /\ d \in DOMAIN seqs[k + 1]
          BY <2>2, <2>7, <4>1
        <4> QED
          BY <2>5, <4>2
      <3> QED
        BY <2>7, <3>1, <3>2
    <2>9. ASSUME NEW i \in 1..k + 1, NEW d \in DOMAIN seqs[i]
          PROVE \E b \in DOMAIN o : o[b] = seqs[i][d]
      <3>1. CASE i \in 1..k
        <4>1. PICK b \in DOMAIN p : p[b] = seqs[i][d]
          BY <2>4, <3>1
        <4> QED
          BY <2>7, <4>1
      <3>2. CASE i = k + 1
        BY <2>2, <2>7, <3>2
      <3> QED
        BY <2>5, <3>1, <3>2
    <2>10. ASSUME NEW b \in DOMAIN o, NEW c \in DOMAIN o, b # c PROVE <<o[b], o[c]>> \in R
      <3>1. CASE b \in DOMAIN p /\ c \in DOMAIN p
        BY <2>4, <2>7, <2>10, <3>1
      <3>2. ASSUME b \in DOMAIN p, NEW d \in DOMAIN q, c = Len(p) + d PROVE <<o[b], o[c]>> \in R
        <4>1. PICK i \in 1..k : \E e \in DOMAIN seqs[i] : p[b] = seqs[i][e]
          BY <2>4, <3>2
        <4>2. PICK e \in DOMAIN seqs[i] : p[b] = seqs[i][e]
          BY <4>1
        <4>3. o[b] = seqs[i][e] /\ o[c] = seqs[k + 1][d] /\ d \in DOMAIN seqs[k + 1]
          BY <2>2, <2>7, <3>2, <4>2
        <4> QED
          BY <2>1, <2>6, <4>3
      <3>3. ASSUME NEW d \in DOMAIN q, b = Len(p) + d, c \in DOMAIN p PROVE <<o[b], o[c]>> \in R
        <4>1. PICK i \in 1..k : \E e \in DOMAIN seqs[i] : p[c] = seqs[i][e]
          BY <2>4, <3>3
        <4>2. PICK e \in DOMAIN seqs[i] : p[c] = seqs[i][e]
          BY <4>1
        <4>3. o[c] = seqs[i][e] /\ o[b] = seqs[k + 1][d] /\ d \in DOMAIN seqs[k + 1]
          BY <2>2, <2>7, <3>3, <4>2
        <4> QED
          BY <2>1, <2>6, <4>3
      <3>4. ASSUME NEW d \in DOMAIN q, b = Len(p) + d, NEW e \in DOMAIN q, c = Len(p) + e
            PROVE <<o[b], o[c]>> \in R
        <4>1. d # e
          BY <2>10, <3>4
        <4>2. o[b] = seqs[k + 1][d] /\ o[c] = seqs[k + 1][e] /\ {d, e} \subseteq DOMAIN seqs[k + 1]
          BY <2>2, <2>7, <3>4
        <4> QED
          BY <2>1, <4>1, <4>2
      <3> QED
        BY <2>7, <3>1, <3>2, <3>3, <3>4
    <2>11. IsFlat(S, R, k + 1, seqs, o)
      BY <2>7, <2>8, <2>9, <2>10 DEF IsFlat
    <2> QED
      BY <1>4, <2>2, <2>11
  <1>7. 0..m \subseteq T
    BY <1>5, <1>6, Upward
  <1>8. m \in T
    BY <1>7
  <1> QED
    BY <1>1, <1>3, <1>4, <1>8

\* A path means what its keys say, each where it first occurs.
LEMMA FirstKeysSuffice ==
  ASSUME NEW path, IsPath(path), NEW x
  PROVE  Means(path, x) <=>
           \A i \in DOMAIN path : IsFirst(path, i) => HoldsOf(path, Key(path[i]), x)
  <1>1. PICK n \in Nat : DOMAIN path = 1..n
    <2>1. path \in Seq(Range(path))
      BY DEF IsPath
    <2> QED
      BY <2>1
  <1>2. ASSUME \A i \in DOMAIN path : IsFirst(path, i) => HoldsOf(path, Key(path[i]), x),
               NEW j \in DOMAIN path
        PROVE  Holds(path[j], x)
    <2>1. PICK k : k = Key(path[j])
      OBVIOUS
    <2>2. PICK S \in SUBSET Nat : S = {i \in 1..n : Key(path[i]) = k} /\ j \in S
      <3>1. {i \in 1..n : Key(path[i]) = k} \in SUBSET Nat
        OBVIOUS
      <3> QED
        BY <1>1, <1>2, <2>1, <3>1
    <2>3. PICK i \in S : \A l \in S : i <= l
      BY <2>2, LeastNatural
    <2>4. i \in 1..n /\ Key(path[i]) = k
      BY <2>2, <2>3
    <2>5. ASSUME NEW l \in 1..i - 1 PROVE Key(path[l]) # k
      <3>1. l \in 1..n /\ ~(i <= l)
        BY <2>4
      <3> QED
        BY <2>2, <2>3, <3>1
    <2>6. IsFirst(path, i)
      BY <2>4, <2>5 DEF IsFirst
    <2> QED
      BY <1>1, <1>2, <2>1, <2>4, <2>6 DEF HoldsOf
  <1> QED
    BY <1>2 DEF Means, HoldsOf

\* Each side of each column is bounded once, by a literal or by Never.
AreDistinct(q) ==
  \A i, j \in DOMAIN q : i # j => Key(q[i]) # Key(q[j]) \/ q[i].op # q[j].op
AreLiteralsOf(q, path) ==
  q \in Seq(Range(q)) /\ \A p \in Range(q) : p = Never \/ (IsLiteral(p) /\ p.cols \in KeyColumns(path))

\* Canonicalize keeps the rows of a path.
LEMMA CanonicalKeepsRows ==
  ASSUME NEW path, IsPath(path)
  PROVE  /\ AreDistinct(Canonicalize(path)) /\ AreLiteralsOf(Canonicalize(path), path)
         /\ \A x : HasRow(path, x) => (Means(Canonicalize(path), x) <=> Means(path, x))
  <1>1. PICK n \in Nat : n = Len(path) /\ DOMAIN path = 1..n
    <2>1. path \in Seq(Range(path))
      BY DEF IsPath
    <2> QED
      BY <2>1
  <1>2. CASE \E i \in DOMAIN path : Impossible(path, Key(path[i]))
    <2>1. PICK i \in DOMAIN path : Impossible(path, Key(path[i]))
      BY <1>2
    <2>2. PICK k : k = Key(path[i])
      OBVIOUS
    <2>3. PICK p : p = Never /\ p.kind = "never"
      <3>1. Never.kind = "never"
        BY DEF Never
      <3> QED
        BY <3>1
    <2>4. Canonicalize(path) = <<p>>
      BY <2>1, <2>3 DEF Canonicalize
    <2>5. <<p>> \in Seq(Range(<<p>>)) /\ DOMAIN <<p>> = {1} /\ <<p>>[1] = p /\ Range(<<p>>) = {p}
      BY DEF Range
    <2>6. PICK q : q = <<p>> /\ q \in Seq(Range(q)) /\ DOMAIN q = {1} /\ q[1] = p /\ Range(q) = {p}
      BY <2>5
    <2>7. AreDistinct(q) /\ AreLiteralsOf(q, path)
      BY <2>3, <2>6 DEF AreDistinct, AreLiteralsOf
    <2>8. ASSUME NEW x PROVE ~Means(q, x)
      BY <2>3, <2>6 DEF Means, Holds
    <2>9. ASSUME NEW x, HasRow(path, x) PROVE ~HoldsOf(path, k, x)
      <3>1. CASE k.kind = "cat"
        <4>1. Allowed(path, k) = {}
          BY <2>1, <2>2, <3>1 DEF Impossible
        <4> QED
          BY <2>2, <2>9, <3>1, <4>1, DomainOfKey
      <3>2. CASE k.kind # "cat"
        <4>1. /\ x[k.cols[1]] \in Int /\ AreBoundsOf(path, k)
              /\ HoldsOf(path, k, x) <=> Inside(x[k.cols[1]], Bound(path, k))
          BY <2>2, <2>9, <3>2, DomainOfKey
        <4>2. PICK s \in Interval : s = Bound(path, k)
          BY <4>1, BoundIsCommon DEF IsPath
        <4>3. Empty(s)
          BY <2>1, <2>2, <3>2, <4>2 DEF Impossible
        <4>4. ~Inside(x[k.cols[1]], s)
          BY <4>1, <4>2, <4>3 DEF Empty, Inside, Interval
        <4> QED
          BY <4>1, <4>2, <4>4
      <3> QED
        BY <3>1, <3>2
    <2>10. ASSUME NEW x, HasRow(path, x) PROVE ~Means(path, x)
      BY <2>9, <2>10 DEF Means, HoldsOf
    <2> QED
      BY <2>4, <2>6, <2>7, <2>8, <2>10
  <1>3. CASE ~\E i \in DOMAIN path : Impossible(path, Key(path[i]))
    <2>1. PICK blocks : blocks = [i \in DOMAIN path |->
                           IF IsFirst(path, i) THEN DomainLiterals(path, Key(path[i])) ELSE <<>>]
      OBVIOUS
    <2>2. PICK q : q = Canonicalize(path) /\ q = FlattenSeq(blocks)
      BY <1>3, <2>1 DEF Canonicalize
    <2>3. CASE n = 0
      <3>1. q = <<>>
        BY <1>1, <2>1, <2>2, <2>3 DEF FlattenSeq
      <3>2. q \in Seq(Range(q)) /\ DOMAIN q = {} /\ Range(q) = {} /\ DOMAIN path = {}
        BY <1>1, <2>3, <3>1 DEF Range
      <3>3. AreDistinct(q) /\ AreLiteralsOf(q, path) /\ \A x : Means(q, x) /\ Means(path, x)
        BY <3>2 DEF AreDistinct, AreLiteralsOf, Means
      <3> QED
        BY <2>2, <3>3
    <2>4. CASE n # 0
      <3>1. PICK C, S, R : /\ C = KeyColumns(path) /\ S = LiteralsOn(C)
                           /\ R = {e \in S \X S : Key(e[1]) # Key(e[2]) \/ e[1].op # e[2].op}
        OBVIOUS
      <3>2. ASSUME NEW i \in 1..n
            PROVE  /\ blocks[i] \in Seq(S)
                   /\ \A d \in DOMAIN blocks[i] :
                        IsFirst(path, i) /\ Key(blocks[i][d]) = Key(path[i]) /\ IsLiteral(blocks[i][d])
                   /\ \A d, e \in DOMAIN blocks[i] : d # e => blocks[i][d].op # blocks[i][e].op
                   /\ \A x : HasRow(path, x) =>
                        (Means(blocks[i], x) <=> (IsFirst(path, i) => HoldsOf(path, Key(path[i]), x)))
        <4>1. CASE IsFirst(path, i)
          <5>1. blocks[i] = DomainLiterals(path, Key(path[i]))
            BY <1>1, <2>1, <4>1
          <5>2. /\ AreOfKey(blocks[i], Key(path[i]), C)
                /\ \A x : HasRow(path, x) => (Means(blocks[i], x) <=> HoldsOf(path, Key(path[i]), x))
            BY <1>1, <3>1, <5>1, DomainIsWritten
          <5> QED
            BY <3>1, <4>1, <5>2 DEF AreOfKey
        <4>2. CASE ~IsFirst(path, i)
          <5>1. blocks[i] = <<>>
            BY <1>1, <2>1, <4>2
          <5>2. blocks[i] \in Seq(S) /\ DOMAIN blocks[i] = {}
            BY <5>1
          <5> QED
            BY <4>2, <5>2 DEF Means
        <4> QED
          BY <4>1, <4>2
      <3>3. blocks \in [1..n -> Seq(S)]
        BY <1>1, <2>1, <3>2
      <3>4. ASSUME NEW i \in 1..n, NEW j \in 1..n, NEW d \in DOMAIN blocks[i], NEW e \in DOMAIN blocks[j],
                   i # j \/ d # e
            PROVE  <<blocks[i][d], blocks[j][e]>> \in R
        <4>1. PICK a \in S, b \in S : a = blocks[i][d] /\ b = blocks[j][e]
          BY <3>2
        <4>2. CASE i = j
          <5>1. a.op # b.op
            BY <3>2, <3>4, <4>1, <4>2
          <5> QED
            BY <3>1, <4>1, <5>1
        <4>3. CASE i # j
          <5>1. Key(a) = Key(path[i]) /\ Key(b) = Key(path[j]) /\ IsFirst(path, i) /\ IsFirst(path, j)
            BY <3>2, <4>1
          <5>2. i \in 1..j - 1 \/ j \in 1..i - 1
            BY <4>3
          <5>3. Key(a) # Key(b)
            BY <5>1, <5>2 DEF IsFirst
          <5> QED
            BY <3>1, <4>1, <5>3
        <4> QED
          BY <4>2, <4>3
      <3>5. IsFlat(S, R, n, blocks, q)
        BY <2>2, <2>4, <3>3, <3>4, FlatMembers
      <3>6. /\ q \in Seq(S)
            /\ \A b \in DOMAIN q : \E i \in 1..n : \E d \in DOMAIN blocks[i] : q[b] = blocks[i][d]
            /\ \A i \in 1..n : \A d \in DOMAIN blocks[i] : \E b \in DOMAIN q : q[b] = blocks[i][d]
            /\ \A b, c \in DOMAIN q : b # c => <<q[b], q[c]>> \in R
        BY <3>5 DEF IsFlat
      <3>7. AreDistinct(q)
        BY <3>1, <3>6 DEF AreDistinct
      <3>8. AreLiteralsOf(q, path)
        <4>1. q \in Seq(Range(q))
          BY <3>6 DEF Range
        <4>2. ASSUME NEW p \in Range(q) PROVE IsLiteral(p) /\ p.cols \in C
          <5>1. PICK b \in DOMAIN q : p = q[b] /\ p \in S
            BY <3>6 DEF Range
          <5>2. PICK i \in 1..n : \E d \in DOMAIN blocks[i] : p = blocks[i][d]
            BY <3>6, <5>1
          <5>3. IsLiteral(p)
            BY <3>2, <5>2
          <5>4. p.cols \in C
            BY <3>1, <5>1 DEF LiteralsOn
          <5> QED
            BY <5>3, <5>4
        <4> QED
          BY <3>1, <4>1, <4>2 DEF AreLiteralsOf
      <3>9. ASSUME NEW x, HasRow(path, x) PROVE Means(q, x) <=> Means(path, x)
        <4>1. Means(q, x) <=> \A i \in 1..n : Means(blocks[i], x)
          <5>1. ASSUME Means(q, x), NEW i \in 1..n, NEW d \in DOMAIN blocks[i] PROVE Holds(blocks[i][d], x)
            <6>1. PICK b \in DOMAIN q : q[b] = blocks[i][d]
              BY <3>6
            <6> QED
              BY <5>1, <6>1 DEF Means
          <5>2. ASSUME \A i \in 1..n : Means(blocks[i], x), NEW b \in DOMAIN q PROVE Holds(q[b], x)
            <6>1. PICK i \in 1..n : \E d \in DOMAIN blocks[i] : q[b] = blocks[i][d]
              BY <3>6
            <6>2. PICK d \in DOMAIN blocks[i] : q[b] = blocks[i][d]
              BY <6>1
            <6> QED
              BY <5>2, <6>2 DEF Means
          <5> QED
            BY <5>1, <5>2 DEF Means
        <4>2. (\A i \in 1..n : Means(blocks[i], x)) <=>
                \A i \in DOMAIN path : IsFirst(path, i) => HoldsOf(path, Key(path[i]), x)
          BY <1>1, <3>2, <3>9
        <4> QED
          BY <4>1, <4>2, FirstKeysSuffice
      <3> QED
        BY <2>2, <3>7, <3>8, <3>9
    <2> QED
      BY <2>3, <2>4
  <1> QED
    BY <1>2, <1>3

-----------------------------------------------------------------------------
(* The clauses of a stage.                                                 *)

\* The clause of a region fires on the rows that its path holds of.
LEMMA FiresAsMeant ==
  ASSUME NEW path, IsPath(path), NEW x, HasRow(path, x)
  PROVE  Fires(path, x) <=> Means(path, x)
  <1>1. PICK q : q = Canonicalize(path)
    OBVIOUS
  <1>2. AreLiteralsOf(q, path) /\ (Means(q, x) <=> Means(path, x))
    BY <1>1, CanonicalKeepsRows
  <1> DEFINE Fits(p) == CASE p.kind = "never" -> FALSE
                          [] p.kind = "cat"   -> Level(x, p.cols) \in LevelsOf(Len(p.cols), p.op, p.levels)
                          [] p.kind = "num"   -> Inside(x[p.cols[1]], OfLiteral(p.op, p.thr))
  <1>3. ASSUME NEW p \in Range(q) PROVE Fits(p) <=> Holds(p, x)
    <2>1. CASE p = Never
      BY <2>1 DEF Never, Holds
    <2>2. CASE IsLiteral(p) /\ p.cols \in KeyColumns(path)
      <3>1. IsRow(x, Range(p.cols))
        BY <2>2 DEF KeyColumns, HasRow, Range
      <3>2. CASE p.kind = "num"
        <4>1. Holds(p, x) <=> Inside(x[p.cols[1]], OfLiteral(p.op, p.thr))
          BY <2>2, <3>1, <3>2, NumberHolds
        <4> QED
          BY <3>2, <4>1
      <3>3. CASE p.kind = "cat"
        <4>1. Holds(p, x) <=> Level(x, p.cols) \in LevelsOf(Len(p.cols), p.op, p.levels)
          BY <2>2, <3>1, <3>3, LevelHolds
        <4> QED
          BY <3>3, <4>1
      <3> QED
        BY <2>2, <3>2, <3>3 DEF IsLiteral
    <2> QED
      BY <1>2, <2>1, <2>2 DEF AreLiteralsOf
  <1>4. Fires(path, x) <=> \A p \in Range(q) : Fits(p)
    BY <1>1 DEF Fires
  <1>5. Means(q, x) <=> \A p \in Range(q) : Holds(p, x)
    BY DEF Means, Range
  <1> QED
    BY <1>2, <1>3, <1>4, <1>5

\* A literal put before a path.
LEMMA PathBehind ==
  ASSUME NEW p, IsLiteral(p), NEW x, IsRow(x, Range(p.cols)), NEW q, IsPath(q), HasRow(q, x)
  PROVE  /\ IsPath(<<p>> \o q) /\ HasRow(<<p>> \o q, x)
         /\ Means(<<p>> \o q, x) <=> Holds(p, x) /\ Means(q, x)
  <1>1. PICK S : S = Range(q) \cup {p}
    OBVIOUS
  <1>2. PICK n \in Nat : q \in Seq(S) /\ n = Len(q) /\ DOMAIN q = 1..n /\ \A i \in 1..n : q[i] \in Range(q)
    <2>1. q \in Seq(Range(q))
      BY DEF IsPath
    <2> QED
      BY <1>1, <2>1
  <1>3. PICK a : a = <<p>> /\ a \in Seq(S) /\ Len(a) = 1 /\ DOMAIN a = {1} /\ a[1] = p
    <2>1. p \in S
      BY <1>1
    <2>2. <<p>> \in Seq(S) /\ Len(<<p>>) = 1 /\ DOMAIN <<p>> = {1} /\ <<p>>[1] = p
      BY <2>1
    <2> QED
      BY <2>2
  <1>4. PICK o : o = a \o q
    OBVIOUS
  <1>5. IsJoin(S, a, q, o)
    BY <1>2, <1>3, <1>4, JoinedPlaces, Zenon
  <1>6. /\ o \in Seq(S) /\ 1 \in DOMAIN o /\ o[1] = p
        /\ \A d \in DOMAIN q : 1 + d \in DOMAIN o /\ o[1 + d] = q[d]
        /\ \A b \in DOMAIN o : b = 1 \/ \E d \in DOMAIN q : b = 1 + d
    BY <1>3, <1>5 DEF IsJoin
  <1>7. \A b \in DOMAIN o : o[b] = p \/ \E d \in DOMAIN q : o[b] = q[d]
    BY <1>6
  <1>8. o \in Seq(Range(o)) /\ \A r \in Range(o) : r = p \/ r \in Range(q)
    BY <1>6, <1>7 DEF Range
  <1>9. IsPath(o) /\ HasRow(o, x)
    BY <1>8 DEF IsPath, HasRow
  <1>10. Means(o, x) <=> Holds(p, x) /\ Means(q, x)
    <2>1. ASSUME Means(o, x) PROVE Holds(p, x) /\ \A d \in DOMAIN q : Holds(q[d], x)
      <3>1. Holds(o[1], x) /\ \A d \in DOMAIN q : Holds(o[1 + d], x)
        BY <1>6, <2>1 DEF Means
      <3> QED
        BY <1>6, <3>1
    <2>2. ASSUME Holds(p, x), Means(q, x), NEW b \in DOMAIN o PROVE Holds(o[b], x)
      BY <1>7, <2>2 DEF Means
    <2> QED
      BY <2>1, <2>2 DEF Means
  <1> QED
    BY <1>3, <1>4, <1>9, <1>10

\* The literal of a side of a split holds of the rows that take that side.
LEMMA LiteralOfSide ==
  ASSUME NEW node, IsSplit(node), NEW x, IsRow(x, SplitColumns(node)), One \in Int,
         node.kind = "cat" => OneHot(x, node.cols), NEW left \in BOOLEAN
  PROVE  /\ IsLiteral(Literal(node, left)) /\ IsRow(x, Range(Literal(node, left).cols))
         /\ Holds(Literal(node, left), x) <=> (GoesLeft(node, x) <=> left)
  <1>1. PICK p : p = Literal(node, left)
    OBVIOUS
  <1>2. CASE node.kind = "num"
    <2>1. PICK j, t : j = node.feat /\ t = node.thr /\ t \in Int
      BY <1>2 DEF IsSplit
    <2>2. p.kind = "num" /\ p.cols = <<j>> /\ p.op = (IF left THEN "<=" ELSE ">") /\ p.thr = t
      BY <1>1, <1>2, <2>1 DEF Literal, Num
    <2>3. <<j>> \in Seq(Range(<<j>>)) /\ <<j>> # <<>> /\ Len(<<j>>) = 1 /\ Range(<<j>>) = {j} /\ <<j>>[1] = j
      <3>1. <<j>> \in Seq(Range(<<j>>)) /\ <<j>> # <<>> /\ Len(<<j>>) = 1
        BY DEF Range
      <3>2. Range(<<j>>) = {j} /\ <<j>>[1] = j
        BY DEF Range
      <3> QED
        BY <3>1, <3>2
    <2>4. IsLiteral(p)
      <3>1. p.op \in {"<=", ">"}
        BY <2>2
      <3>2. p.cols \in Seq(Range(p.cols)) /\ p.cols # <<>> /\ Len(p.cols) = 1 /\ p.thr \in Int
        BY <2>1, <2>2, <2>3
      <3> QED
        BY <2>2, <3>1, <3>2 DEF IsLiteral
    <2>5. IsRow(x, {j})
      BY <1>2, <2>1 DEF SplitColumns
    <2>6. x[j] \in Int
      BY <2>5 DEF IsRow
    <2>7. GoesLeft(node, x) <=> x[j] <= t
      BY <1>2, <2>1 DEF GoesLeft
    <2>8. Holds(p, x) <=> IF left THEN x[j] <= t ELSE x[j] > t
      BY <2>2, <2>3 DEF Holds
    <2>9. x[j] > t <=> ~(x[j] <= t)
      BY <2>1, <2>6
    <2> QED
      BY <1>1, <2>2, <2>3, <2>4, <2>5, <2>7, <2>8, <2>9
  <1>3. CASE node.kind = "cat"
    <2>1. PICK cols, levels, n : /\ cols = node.cols /\ levels = node.levels /\ n = Len(cols)
                                 /\ cols \in Seq(Range(cols)) /\ cols # <<>> /\ DOMAIN cols = 1..n
                                 /\ levels \subseteq 0..n - 1 /\ n \in Nat
      <3>1. /\ node.cols \in Seq(Range(node.cols)) /\ node.cols # <<>>
            /\ node.levels \subseteq 0..Len(node.cols) - 1
        BY <1>3 DEF IsSplit
      <3>2. Len(node.cols) \in Nat /\ DOMAIN node.cols = 1..Len(node.cols)
        BY <3>1
      <3> QED
        BY <3>1, <3>2
    <2>2. /\ p.kind = "cat" /\ p.cols = cols /\ p.levels = levels
          /\ p.op = (IF left THEN "in" ELSE "not in")
      BY <1>1, <1>3, <2>1 DEF Literal, Cat
    <2>3. IsLiteral(p)
      BY <2>1, <2>2 DEF IsLiteral
    <2>4. IsRow(x, Range(cols))
      BY <1>3, <2>1 DEF SplitColumns
    <2>5. PICK top \in 1..n :
            /\ \A c \in 1..n : x[cols[c]] \in Int /\ x[cols[c]] <= x[cols[top]]
            /\ Level(x, cols) = IF 2 * x[cols[top]] > One THEN top - 1 ELSE Unseen
      BY <2>1, <2>4, LevelOfBlock
    <2>6. GoesLeft(node, x) <=> \E v \in levels : 2 * x[cols[v + 1]] > One
      BY <1>3, <2>1 DEF GoesLeft
    <2>7. \A i, j \in 1..n : 2 * x[cols[i]] > One /\ 2 * x[cols[j]] > One => i = j
      BY <1>3, <2>1 DEF OneHot
    <2>8. ASSUME NEW v \in levels, 2 * x[cols[v + 1]] > One PROVE Level(x, cols) \in levels
      <3>1. v + 1 \in 1..n /\ (v + 1) - 1 = v
        BY <2>1
      <3>2. x[cols[v + 1]] <= x[cols[top]] /\ x[cols[v + 1]] \in Int /\ x[cols[top]] \in Int
        BY <2>5, <3>1
      <3>3. 2 * x[cols[top]] > One
        BY <2>8, <3>2
      <3>4. top = v + 1
        BY <2>7, <2>8, <3>1, <3>3
      <3> QED
        BY <2>5, <3>1, <3>3, <3>4
    <2>9. ASSUME Level(x, cols) \in levels PROVE \E v \in levels : 2 * x[cols[v + 1]] > One
      <3>1. Level(x, cols) # Unseen
        BY <2>1, <2>9 DEF Unseen
      <3>2. 2 * x[cols[top]] > One /\ Level(x, cols) = top - 1
        BY <2>5, <3>1
      <3>3. (top - 1) + 1 = top
        BY <2>1
      <3> QED
        BY <2>9, <3>2, <3>3
    <2>10. GoesLeft(node, x) <=> Level(x, cols) \in levels
      BY <2>6, <2>8, <2>9
    <2>11. Holds(p, x) <=> IF left THEN Level(x, cols) \in levels ELSE Level(x, cols) \notin levels
      BY <2>2 DEF Holds
    <2> QED
      BY <1>1, <2>2, <2>3, <2>4, <2>10, <2>11
  <1> QED
    BY <1>2, <1>3 DEF IsSplit

\* A side of a split, and the regions of that side behind its literal.
Side(tree, n, left) == IF left THEN tree[n].left ELSE tree[n].right
Under(tree, n, left, regions) ==
  {[r EXCEPT !.path = <<Literal(tree[n], left)>> \o @] : r \in regions}

\* The regions under each node, from those under its sides.
AreRegions(tree, u) ==
  \A n \in DOMAIN tree :
    u[n] = IF tree[n].kind = "leaf" THEN {[leaf |-> n, path |-> <<>>]}
           ELSE UNION {Under(tree, n, left, u[Side(tree, n, left)]) : left \in BOOLEAN}

\* LeafRegions gathers the regions node by node.
LEMMA RegionsBySides ==
  ASSUME NEW tree, IsTable(tree)
  PROVE  \E u : AreRegions(tree, u) /\ LeafRegions(tree) = u[1]
  <1>1. PICK N \in Nat \ {0} : N = Len(tree) /\ DOMAIN tree = 1..N
    BY DEF IsTable
  <1>2. \A n \in 1..N : tree[n].kind # "leaf" =>
          \A left \in BOOLEAN : Side(tree, n, left) \in n + 1..N
    BY <1>1 DEF IsTable, Side
  <1> DEFINE Step(f, n) == IF tree[n].kind = "leaf" THEN {[leaf |-> n, path |-> <<>>]}
                           ELSE UNION {Under(tree, n, left, f[Side(tree, n, left)]) : left \in BOOLEAN}
             Solves(f, i) == f = [n \in i..N |-> Step(f, n)]
  <1>3. PICK S : S = {i \in 1..N : \E f : Solves(f, i)}
    OBVIOUS
  <1>4. 1..N \subseteq S
    <2>1. ASSUME NEW i \in 1..N, i + 1..N \subseteq S PROVE i \in S
      <3>1. PICK f : i < N => Solves(f, i + 1)
        <4>1. CASE i < N
          <5>1. i + 1 \in i + 1..N
            BY <4>1
          <5>2. i + 1 \in S
            BY <2>1, <5>1
          <5> QED
            BY <1>3, <5>2
        <4> QED
          BY <4>1
      <3>2. PICK h : h = [n \in i..N |-> IF n = i THEN Step(f, i) ELSE f[n]]
        OBVIOUS
      <3>3. ASSUME NEW n \in i..N PROVE h[n] = Step(h, n)
        <4>1. n \in 1..N
          OBVIOUS
        <4>2. ASSUME tree[n].kind # "leaf" PROVE \A left \in BOOLEAN : h[Side(tree, n, left)] = f[Side(tree, n, left)]
          <5> TAKE left \in BOOLEAN
          <5>1. Side(tree, n, left) \in n + 1..N
            BY <1>2, <4>1, <4>2
          <5>2. Side(tree, n, left) \in i..N /\ Side(tree, n, left) # i
            BY <5>1
          <5> QED
            BY <3>2, <5>2
        <4>3. CASE n = i
          <5>1. h[n] = Step(f, n)
            BY <3>2, <4>3
          <5> QED
            BY <4>2, <5>1
        <4>4. CASE n # i
          <5>1. i < N /\ n \in i + 1..N
            BY <4>4
          <5>2. f[n] = Step(f, n)
            BY <3>1, <5>1
          <5>3. h[n] = f[n]
            BY <3>2, <4>4
          <5> QED
            BY <4>2, <5>2, <5>3
        <4> QED
          BY <4>3, <4>4
      <3>4. Solves(h, i)
        <4> DEFINE Next(n) == Step(h, n)
        <4>1. \A n \in i..N : h[n] = Next(n)
          BY <3>3
        <4>2. h = [n \in i..N |-> h[n]]
          BY <3>2
        <4>3. h = [n \in i..N |-> Next(n)]
          <5> HIDE DEF Next
          <5> QED
            BY <4>1, <4>2
        <4> QED
          BY <4>3
      <3> QED
        BY <1>3, <3>4
    <2> HIDE DEF Solves, Step
    <2> QED
      BY <2>1, Downward
  <1>5. PICK c : c = CHOOSE f : Solves(f, 1)
    OBVIOUS
  <1>6. Solves(c, 1)
    <2>1. 1 \in S
      BY <1>4
    <2>2. \E f : Solves(f, 1)
      BY <1>3, <2>1
    <2> HIDE DEF Solves
    <2> QED
      BY <1>5, <2>2
  <1>7. LeafRegions(tree) = c[1]
    <2>1. LeafRegions(tree) =
            (CHOOSE f : f = [n \in DOMAIN tree |->
                IF tree[n].kind = "leaf" THEN {[leaf |-> n, path |-> <<>>]}
                ELSE UNION {{[r EXCEPT !.path = <<Literal(tree[n], left)>> \o @] :
                                 r \in f[IF left THEN tree[n].left ELSE tree[n].right]} :
                            left \in BOOLEAN}])[1]
      BY DEF LeafRegions
    <2> QED
      BY <1>1, <1>5, <2>1 DEF Under, Side
  <1>8. \A n \in 1..N : c[n] = Step(c, n)
    BY <1>6
  <1>9. AreRegions(tree, c)
    BY <1>1, <1>8 DEF AreRegions
  <1> QED
    BY <1>7, <1>9

\* Of the regions under a node, that of the leaf a row ends in holds of it, and no other.
AreLocated(tree, x, regions, nodes) ==
  /\ EndsInLeaf(tree, nodes)
  /\ \A r \in regions :
        /\ r = [leaf |-> r.leaf, path |-> r.path] /\ IsPath(r.path) /\ HasRow(r.path, x)
        /\ Means(r.path, x) => r.leaf = Last(nodes)
  /\ \E r \in regions : Means(r.path, x)

\* Of the clauses of a stage, that of the leaf a row is routed to fires on it, and no other.
LEMMA OneClauseFires ==
  ASSUME NEW tree, NEW x, Routes(tree, x), One \in Int
  PROVE  ProofLeaf(tree, x) = {Last(Route(tree, x))}
  <1>1. IsTable(tree)
    BY DEF Routes
  <1>2. PICK N \in Nat \ {0} : N = Len(tree) /\ DOMAIN tree = 1..N
    BY <1>1 DEF IsTable
  <1>3. PICK c : AreSteps(tree, x, c) /\ Route(tree, x) = c[1]
    BY <1>1, RouteBySteps
  <1>4. PICK u : AreRegions(tree, u) /\ LeafRegions(tree) = u[1]
    BY <1>1, RegionsBySides
  <1>5. PICK T : T = {n \in 1..N : AreLocated(tree, x, u[n], c[n])}
    OBVIOUS
  <1>6. ASSUME NEW n \in 1..N, n + 1..N \subseteq T PROVE n \in T
    <2>1. CASE tree[n].kind = "leaf"
      <3>1. c[n] = <<n>> /\ u[n] = {[leaf |-> n, path |-> <<>>]}
        BY <1>2, <1>3, <1>4, <2>1 DEF AreSteps, AreRegions
      <3>2. <<n>> \in Seq(1..N) /\ <<n>> # <<>> /\ Last(<<n>>) = n /\ n \in LeafNodes(tree)
        BY <1>2, <2>1 DEF Last, LeafNodes
      <3>3. IsPath(<<>>) /\ HasRow(<<>>, x) /\ Means(<<>>, x)
        <4>1. <<>> \in Seq(Range(<<>>)) /\ DOMAIN <<>> = {} /\ Range(<<>>) = {}
          BY DEF Range
        <4> QED
          BY <4>1 DEF IsPath, HasRow, Means
      <3>4. PICK r : /\ r = [leaf |-> n, path |-> <<>>] /\ r.leaf = n /\ r.path = <<>>
                     /\ u[n] = {r} /\ r = [leaf |-> r.leaf, path |-> r.path]
        BY <3>1
      <3>5. EndsInLeaf(tree, c[n]) /\ Last(c[n]) = n
        BY <1>2, <3>1, <3>2 DEF EndsInLeaf
      <3>6. AreLocated(tree, x, u[n], c[n])
        BY <3>3, <3>4, <3>5 DEF AreLocated
      <3> QED
        BY <1>5, <3>6
    <2>2. CASE tree[n].kind # "leaf"
      <3>1. PICK side \in BOOLEAN : side <=> GoesLeft(tree[n], x)
        <4>1. GoesLeft(tree[n], x) \/ ~GoesLeft(tree[n], x)
          OBVIOUS
        <4> QED
          BY <4>1
      <3>2. PICK k : k = Side(tree, n, side) /\ c[n] = <<n>> \o c[k]
        BY <1>2, <1>3, <2>2, <3>1 DEF AreSteps, Child, Side
      <3>3. \A left \in BOOLEAN : Side(tree, n, left) \in n + 1..N
        BY <1>1, <1>2, <2>2 DEF IsTable, Side
      <3>4. \A left \in BOOLEAN :
              AreLocated(tree, x, u[Side(tree, n, left)], c[Side(tree, n, left)])
        BY <1>5, <1>6, <3>3
      <3>5. /\ IsSplit(tree[n]) /\ IsRow(x, SplitColumns(tree[n]))
            /\ tree[n].kind = "cat" => OneHot(x, tree[n].cols)
        BY <1>2, <2>2 DEF Routes
      <3>6. \A left \in BOOLEAN :
              /\ IsLiteral(Literal(tree[n], left)) /\ IsRow(x, Range(Literal(tree[n], left).cols))
              /\ Holds(Literal(tree[n], left), x) <=> (side <=> left)
        BY <3>1, <3>5, LiteralOfSide
      <3>7. PICK q : q = c[k] /\ EndsInLeaf(tree, q)
        BY <3>2, <3>4 DEF AreLocated
      <3>8. EndsInLeaf(tree, c[n]) /\ Last(c[n]) = Last(q)
        <4>1. q \in Seq(1..N) /\ q # <<>> /\ Last(q) \in LeafNodes(tree)
          BY <1>2, <3>7 DEF EndsInLeaf
        <4>2. <<n>> \o q \in Seq(1..N) /\ <<n>> \o q # <<>> /\ Last(<<n>> \o q) = Last(q)
          BY <4>1, LastBehind
        <4> QED
          BY <1>2, <3>2, <3>7, <4>1, <4>2 DEF EndsInLeaf
      <3>9. u[n] = UNION {Under(tree, n, left, u[Side(tree, n, left)]) : left \in BOOLEAN}
        BY <1>2, <1>4, <2>2 DEF AreRegions
      <3> DEFINE Behind(left, s) == [s EXCEPT !.path = <<Literal(tree[n], left)>> \o @]
                 Carries(left, s, r) ==
                    /\ r = [leaf |-> r.leaf, path |-> r.path] /\ r.leaf = s.leaf
                    /\ IsPath(r.path) /\ HasRow(r.path, x)
                    /\ Means(r.path, x) <=> (side <=> left) /\ Means(s.path, x)
      <3>10. ASSUME NEW left \in BOOLEAN, NEW s \in u[Side(tree, n, left)]
             PROVE  Carries(left, s, Behind(left, s))
        <4>1. s = [leaf |-> s.leaf, path |-> s.path] /\ IsPath(s.path) /\ HasRow(s.path, x)
          BY <3>4 DEF AreLocated
        <4>2. PICK r : r = Behind(left, s)
          OBVIOUS
        <4>3. r = [leaf |-> s.leaf, path |-> <<Literal(tree[n], left)>> \o s.path]
          BY <4>1, <4>2
        <4>4. r = [leaf |-> r.leaf, path |-> r.path] /\ r.leaf = s.leaf /\ r.path = <<Literal(tree[n], left)>> \o s.path
          BY <4>3
        <4>5. /\ IsPath(r.path) /\ HasRow(r.path, x)
              /\ Means(r.path, x) <=> Holds(Literal(tree[n], left), x) /\ Means(s.path, x)
          BY <3>6, <4>1, <4>4, PathBehind
        <4>6. Carries(left, s, r)
          BY <3>6, <4>4, <4>5
        <4> HIDE DEF Behind, Carries
        <4> QED
          BY <4>2, <4>6
      <3>11. ASSUME NEW r \in u[n]
             PROVE  /\ r = [leaf |-> r.leaf, path |-> r.path] /\ IsPath(r.path) /\ HasRow(r.path, x)
                    /\ Means(r.path, x) => r.leaf = Last(c[n])
        <4>1. PICK left \in BOOLEAN : r \in Under(tree, n, left, u[Side(tree, n, left)])
          BY <3>9
        <4>2. PICK s \in u[Side(tree, n, left)] : r = Behind(left, s)
          BY <4>1 DEF Under
        <4>3. Carries(left, s, r)
          <5> HIDE DEF Behind, Carries
          <5> QED
            BY <3>10, <4>2
        <4>4. ASSUME Means(r.path, x) PROVE r.leaf = Last(c[n])
          <5>1. left = side /\ Means(s.path, x)
            BY <4>3, <4>4
          <5>2. s \in u[k]
            BY <3>2, <5>1
          <5>3. AreLocated(tree, x, u[k], q)
            BY <3>2, <3>4, <3>7
          <5>4. s.leaf = Last(q)
            BY <5>1, <5>2, <5>3 DEF AreLocated
          <5> QED
            BY <3>8, <4>3, <5>4
        <4> QED
          BY <4>3, <4>4
      <3>12. \E r \in u[n] : Means(r.path, x)
        <4>1. PICK s \in u[k] : Means(s.path, x)
          BY <3>2, <3>4 DEF AreLocated
        <4>2. PICK r : r = Behind(side, s)
          OBVIOUS
        <4>3. r \in Under(tree, n, side, u[Side(tree, n, side)]) /\ s \in u[Side(tree, n, side)]
          BY <3>2, <4>1, <4>2 DEF Under
        <4>4. r \in u[n]
          BY <3>9, <4>3
        <4>5. Means(r.path, x)
          <5>1. Carries(side, s, r)
            <6> HIDE DEF Behind, Carries
            <6> QED
              BY <3>10, <4>2, <4>3
          <5> QED
            BY <4>1, <5>1
        <4> QED
          BY <4>4, <4>5
      <3>13. AreLocated(tree, x, u[n], c[n])
        BY <3>8, <3>11, <3>12 DEF AreLocated
      <3> QED
        BY <1>5, <3>13
    <2> QED
      BY <2>1, <2>2
  <1>7. 1..N \subseteq T
    BY <1>6, Downward
  <1>8. AreLocated(tree, x, LeafRegions(tree), Route(tree, x))
    <2>1. 1 \in T
      BY <1>7
    <2> QED
      BY <1>3, <1>4, <1>5, <2>1
  <1>9. ASSUME NEW r \in LeafRegions(tree) PROVE Fires(r.path, x) <=> Means(r.path, x)
    <2>1. IsPath(r.path) /\ HasRow(r.path, x)
      BY <1>8 DEF AreLocated
    <2> QED
      BY <2>1, FiresAsMeant
  <1>10. \A r \in LeafRegions(tree) : Fires(r.path, x) => r.leaf = Last(Route(tree, x))
    BY <1>8, <1>9 DEF AreLocated
  <1>11. PICK r \in LeafRegions(tree) : Fires(r.path, x)
    BY <1>8, <1>9 DEF AreLocated
  <1> QED
    BY <1>10, <1>11 DEF ProofLeaf

-----------------------------------------------------------------------------
(* Unions and differences of intervals.                                    *)

\* A finite set of intervals, listed by their lower ends.
AreSorted(S, a) ==
  /\ a \in Seq(S) /\ Range(a) = S
  /\ \A i, j \in 1..Len(a) : i < j => a[i].lower <= a[j].lower

\* SortedSpans lists a set of intervals by their ends.
LEMMA SpansAreSorted ==
  ASSUME NEW S \in SUBSET Interval, IsFiniteSet(S)
  PROVE  AreSorted(S, SortedSpans(S))
  <1>1. PICK R : R = {e \in S \X S : SortsFirst(e[1], e[2])}
    OBVIOUS
  <1>2. \A a, b \in S : <<a, b>> \in R <=> SortsFirst(a, b)
    BY <1>1
  <1>3. PICK n \in Nat : n = Cardinality(S)
    BY FS_CardinalityType
  <1>4. /\ \A a, b \in S :
              <<a, b>> \in R <=> Cardinality(Below(S, R, a)) <= Cardinality(Below(S, R, b))
        /\ \A a \in S : Cardinality(Below(S, R, a)) \in 1..n
        /\ \A k \in 1..n : \E a \in S : Cardinality(Below(S, R, a)) = k
    <2>1. \A a \in Interval : SortsFirst(a, a)
      BY DEF SortsFirst, Interval
    <2>2. ASSUME NEW a \in Interval, NEW b \in Interval, SortsFirst(a, b), SortsFirst(b, a) PROVE a = b
      <3>1. a.lower = b.lower /\ a.upper = b.upper
        BY <2>2 DEF SortsFirst, Interval
      <3> QED
        BY <3>1 DEF Interval
    <2>3. \A a, b, c \in Interval : SortsFirst(a, b) /\ SortsFirst(b, c) => SortsFirst(a, c)
      BY DEF SortsFirst, Interval
    <2>4. \A a, b \in Interval : SortsFirst(a, b) \/ SortsFirst(b, a)
      BY DEF SortsFirst, Interval
    <2>5. /\ \A a \in S : <<a, a>> \in R
          /\ \A a, b \in S : <<a, b>> \in R /\ <<b, a>> \in R => a = b
          /\ \A a, b, c \in S : <<a, b>> \in R /\ <<b, c>> \in R => <<a, c>> \in R
          /\ \A a, b \in S : <<a, b>> \in R \/ <<b, a>> \in R
      <3>1. \A a \in S : a \in Interval
        OBVIOUS
      <3> QED
        BY <1>2, <2>1, <2>2, <2>3, <2>4, <3>1
    <2> QED
      BY <1>3, <2>5, PlacesAreTaken
  <1>5. PICK place : place = [x \in S |-> Cardinality({t \in S : SortsFirst(t, x)})]
    OBVIOUS
  <1>6. \A x \in S : Cardinality(Below(S, R, x)) = place[x]
    <2>1. \A x \in S : Below(S, R, x) = {t \in S : SortsFirst(t, x)}
      BY <1>2 DEF Below
    <2> QED
      BY <1>5, <2>1
  <1>7. /\ \A x \in S : place[x] \in 1..n
        /\ \A x, z \in S : SortsFirst(x, z) <=> place[x] <= place[z]
        /\ \A k \in 1..n : \E x \in S : place[x] = k
    <2>1. ASSUME NEW x \in S, NEW z \in S PROVE SortsFirst(x, z) <=> place[x] <= place[z]
      <3>1. <<x, z>> \in R <=> Cardinality(Below(S, R, x)) <= Cardinality(Below(S, R, z))
        BY <1>4
      <3>2. Cardinality(Below(S, R, x)) = place[x] /\ Cardinality(Below(S, R, z)) = place[z]
        BY <1>6
      <3> QED
        BY <1>2, <3>1, <3>2
    <2> QED
      BY <1>4, <1>6, <2>1
  <1>8. PICK a : a = SortedSpans(S)
    OBVIOUS
  <1>9. a = [k \in 1..n |-> CHOOSE x \in S : place[x] = k]
    <2> DEFINE Listed(k) == CHOOSE x \in S : Cardinality({t \in S : SortsFirst(t, x)}) = k
               Placed(k) == CHOOSE x \in S : place[x] = k
    <2>1. \A k \in 1..n : Listed(k) = Placed(k)
      BY <1>5
    <2>2. a = [k \in 1..n |-> Listed(k)]
      BY <1>3, <1>8 DEF SortedSpans
    <2>3. a = [k \in 1..n |-> Placed(k)]
      <3> HIDE DEF Listed, Placed
      <3> QED
        BY <2>1, <2>2
    <2> QED
      BY <2>3
  <1>10. \A k \in 1..n : a[k] \in S /\ place[a[k]] = k
    BY <1>7, <1>9
  <1>11. a \in Seq(S) /\ Len(a) = n /\ DOMAIN a = 1..n
    BY <1>9, <1>10
  <1>12. ASSUME NEW i \in 1..n, NEW j \in 1..n, i < j PROVE a[i].lower <= a[j].lower
    <2>1. PICK x \in S, z \in S : x = a[i] /\ z = a[j] /\ place[x] = i /\ place[z] = j
      BY <1>10
    <2>2. SortsFirst(x, z)
      BY <1>7, <1>12, <2>1
    <2>3. x.lower \in Int /\ z.lower \in Int
      BY <2>1 DEF Interval
    <2> QED
      BY <2>1, <2>2, <2>3 DEF SortsFirst
  <1>13. ASSUME NEW x \in S PROVE \E k \in 1..n : a[k] = x
    <2>1. PICK k \in 1..n : k = place[x]
      BY <1>7
    <2>2. PICK z \in S : z = a[k] /\ place[z] = place[x]
      BY <1>10, <2>1
    <2>3. SortsFirst(x, z) /\ SortsFirst(z, x)
      BY <1>7, <2>2, <2>1
    <2>4. x.lower = z.lower /\ x.upper = z.upper /\ x \in Interval /\ z \in Interval
      BY <2>2, <2>3 DEF SortsFirst, Interval
    <2>5. x = z
      BY <2>4 DEF Interval
    <2> QED
      BY <2>2, <2>5
  <1>14. Range(a) = S
    BY <1>10, <1>11, <1>13 DEF Range
  <1> QED
    BY <1>8, <1>11, <1>12, <1>14 DEF AreSorted

\* A number is in a branch of a union.
Covers(m, v) == \E b \in Range(m) : Inside(v, b)

\* A union that takes up an interval which begins no earlier than its last branch.
Takes(m, s, o) ==
  /\ o \in Seq(Interval) /\ o # <<>> /\ ValidUnion(o) /\ Last(o).lower <= s.lower
  /\ \A v \in Int : Covers(o, v) <=> Covers(m, v) \/ Inside(v, s)

\* Merge absorbs an interval, or adds it behind a gap.
LEMMA MergeTakes ==
  ASSUME NEW m \in Seq(Interval), ValidUnion(m), NEW s \in Interval, ~Empty(s),
         m # <<>> => Last(m).lower <= s.lower
  PROVE  Takes(m, s, Merge(m, s))
  <1>1. PICK n \in Nat : n = Len(m) /\ DOMAIN m = 1..n
    OBVIOUS
  <1>2. /\ \A i \in 1..n : m[i] \in Interval /\ ~Empty(m[i])
        /\ \A i \in 1..n - 1 : m[i].upper < m[i + 1].lower
    BY <1>1 DEF ValidUnion
  <1>3. PICK o : o = Merge(m, s)
    OBVIOUS
  <1>4. CASE m = <<>> \/ s.lower > Last(m).upper
    <2>1. o = Append(m, s)
      BY <1>3, <1>4 DEF Merge
    <2>2. o \in Seq(Interval) /\ Len(o) = n + 1 /\ DOMAIN o = 1..n + 1
      BY <1>1, <2>1
    <2>3. (\A i \in 1..n : o[i] = m[i]) /\ o[n + 1] = s
      BY <1>1, <2>1
    <2>4. \A i : i \in 1..n + 1 <=> i \in 1..n \/ i = n + 1
      BY <1>1
    <2>5. \A i \in DOMAIN o : ~Empty(o[i])
      BY <1>2, <2>2, <2>3, <2>4
    <2>6. ASSUME NEW i \in 1..Len(o) - 1 PROVE o[i].upper < o[i + 1].lower
      <3>1. i \in 1..n /\ (i = n \/ (i \in 1..n - 1 /\ i + 1 \in 1..n))
        BY <2>2
      <3>2. CASE i = n
        <4>1. m # <<>> /\ Last(m) = m[n] /\ m[n] \in Interval
          BY <1>1, <3>1, <3>2 DEF Last
        <4>2. m[n].upper < s.lower
          BY <1>4, <4>1 DEF Interval
        <4> QED
          BY <2>3, <3>1, <3>2, <4>2
      <3>3. CASE i \in 1..n - 1 /\ i + 1 \in 1..n
        BY <1>2, <2>3, <3>1, <3>3
      <3> QED
        BY <3>1, <3>2, <3>3
    <2>7. ValidUnion(o)
      BY <2>5, <2>6 DEF ValidUnion
    <2>8. o # <<>> /\ Last(o) = s /\ s.lower <= s.lower
      <3>1. s.lower \in Int
        BY DEF Interval
      <3> QED
        BY <2>2, <2>3, <3>1 DEF Last
    <2>9. Range(o) = Range(m) \cup {s}
      BY <1>1, <2>2, <2>3, <2>4 DEF Range
    <2>10. \A v \in Int : Covers(o, v) <=> Covers(m, v) \/ Inside(v, s)
      BY <2>9 DEF Covers
    <2> QED
      BY <1>3, <2>2, <2>7, <2>8, <2>10 DEF Takes
  <1>5. CASE ~(m = <<>> \/ s.lower > Last(m).upper)
    <2>1. n \in 1..n /\ n - 1 \in Nat /\ n - 1 < n
      BY <1>1, <1>5
    <2>2. PICK l \in Interval : l = m[n] /\ l = Last(m)
      BY <1>1, <2>1 DEF Last
    <2>3. PICK t : t = Span(l.lower, Larger(l.upper, s.upper))
      OBVIOUS
    <2>4. l.lower <= s.lower /\ s.lower <= l.upper /\ s.lower < s.upper /\ l.lower < l.upper
      <3>1. m # <<>> /\ ~(s.lower > l.upper) /\ ~Empty(l)
        BY <1>2, <1>5, <2>1, <2>2
      <3>2. l.lower <= s.lower
        BY <2>2, <3>1
      <3>3. l.lower \in Int /\ l.upper \in Int /\ s.lower \in Int /\ s.upper \in Int
        BY <2>2 DEF Interval
      <3> QED
        BY <3>1, <3>2, <3>3 DEF Empty
    <2>5. /\ t \in Interval /\ t.lower = l.lower /\ ~Empty(t)
          /\ \A v \in Int : Inside(v, t) <=> Inside(v, l) \/ Inside(v, s)
      <3>1. PICK a, b, c, d : a = l.lower /\ b = l.upper /\ c = s.lower /\ d = s.upper
        OBVIOUS
      <3>2. a \in Int /\ b \in Int /\ c \in Int /\ d \in Int
        BY <2>2, <3>1 DEF Interval
      <3>3. t.lower = a /\ t.upper = (IF b >= d THEN b ELSE d) /\ t \in Interval
        BY <2>3, <3>1, <3>2 DEF Span, Larger, Interval
      <3>4. \A v \in Int : Inside(v, t) <=> Inside(v, l) \/ Inside(v, s)
        BY <2>4, <3>1, <3>2, <3>3 DEF Inside
      <3>5. ~Empty(t)
        BY <2>4, <3>1, <3>2, <3>3 DEF Empty
      <3> QED
        BY <3>1, <3>3, <3>4, <3>5
    <2>6. o = Append(Front(m), t)
      BY <1>3, <1>5, <2>2, <2>3 DEF Merge
    <2>7. PICK f : /\ f = Front(m) /\ f \in Seq(Interval) /\ Len(f) = n - 1
                   /\ \A i \in 1..n - 1 : f[i] = m[i]
      <3>1. Front(m) = SubSeq(m, 1, n - 1)
        BY <1>1 DEF Front
      <3>2. PICK k \in Nat : k = n - 1
        BY <2>1
      <3>3. /\ SubSeq(m, 1, k) \in Seq(Interval) /\ Len(SubSeq(m, 1, k)) = k
            /\ \A i \in 1..k : SubSeq(m, 1, k)[i] = m[i]
        BY <1>1, <3>2
      <3> QED
        BY <3>1, <3>2, <3>3
    <2>8. o \in Seq(Interval) /\ Len(o) = n /\ DOMAIN o = 1..n
      BY <2>1, <2>5, <2>6, <2>7
    <2>9. (\A i \in 1..n - 1 : o[i] = m[i]) /\ o[n] = t
      BY <2>1, <2>5, <2>6, <2>7
    <2>10. \A i : i \in 1..n <=> i \in 1..n - 1 \/ i = n
      BY <2>1
    <2>11. \A i \in DOMAIN o : ~Empty(o[i])
      BY <1>2, <2>5, <2>8, <2>9, <2>10
    <2>12. ASSUME NEW i \in 1..Len(o) - 1 PROVE o[i].upper < o[i + 1].lower
      <3>1. i \in 1..n - 1 /\ i + 1 \in 1..n
        BY <2>8
      <3>2. o[i] = m[i] /\ o[i + 1].lower = m[i + 1].lower
        BY <2>2, <2>5, <2>9, <2>10, <3>1
      <3> QED
        BY <1>2, <3>1, <3>2
    <2>13. ValidUnion(o)
      BY <2>11, <2>12 DEF ValidUnion
    <2>14. o # <<>> /\ Last(o) = t
      BY <2>1, <2>8, <2>9 DEF Last
    <2>15. \A v \in Int : Covers(o, v) <=> Covers(m, v) \/ Inside(v, s)
      <3> DEFINE F == {m[i] : i \in 1..n - 1}
      <3>1. Range(o) = F \cup {t}
        BY <2>8, <2>9, <2>10 DEF Range
      <3>2. Range(m) = F \cup {l}
        BY <1>1, <2>2, <2>10 DEF Range
      <3> HIDE DEF F
      <3> QED
        BY <2>5, <3>1, <3>2 DEF Covers
    <2> QED
      BY <1>3, <2>4, <2>5, <2>8, <2>13, <2>14, <2>15 DEF Takes
  <1> QED
    BY <1>4, <1>5

\* Merge returns intervals.
LEMMA MergeIsOfIntervals ==
  ASSUME NEW m \in Seq(Interval), NEW s \in Interval
  PROVE  Merge(m, s) \in Seq(Interval)
  <1>1. CASE m = <<>> \/ s.lower > Last(m).upper
    BY <1>1 DEF Merge
  <1>2. CASE ~(m = <<>> \/ s.lower > Last(m).upper)
    <2>1. PICK n \in Nat : n = Len(m) /\ DOMAIN m = 1..n /\ n \in 1..n /\ n - 1 \in Nat /\ n - 1 < n
      BY <1>2
    <2>2. PICK l \in Interval : l = Last(m)
      BY <2>1 DEF Last
    <2>3. PICK f \in Seq(Interval) : f = Front(m)
      <3>1. Front(m) = SubSeq(m, 1, n - 1)
        BY <2>1 DEF Front
      <3>2. PICK k \in Nat : k = n - 1
        BY <2>1
      <3>3. SubSeq(m, 1, k) \in Seq(Interval)
        BY <2>1, <3>2
      <3> QED
        BY <3>1, <3>2, <3>3
    <2>4. PICK t \in Interval : t = Span(l.lower, Larger(l.upper, s.upper))
      BY <2>2 DEF Interval, Span, Larger
    <2>5. Merge(m, s) = Append(f, t)
      BY <1>2, <2>2, <2>3, <2>4 DEF Merge
    <2> QED
      BY <2>3, <2>4, <2>5
  <1> QED
    BY <1>1, <1>2

\* m is the union of the first i intervals.
IsMerged(a, i, m) ==
  /\ m \in Seq(Interval) /\ ValidUnion(m)
  /\ m # <<>> => i \in DOMAIN a /\ Last(m).lower <= a[i].lower
  /\ \A v \in Int : Covers(m, v) <=> \E j \in 1..i : Inside(v, a[j])

\* The branches of a union are sorted with gaps between them, and cover what its intervals cover.
LEMMA UnionCoversSpans ==
  ASSUME NEW S \in SUBSET Interval, IsFiniteSet(S)
  PROVE  /\ ValidUnion(CanonicalUnion(S))
         /\ \A v \in Int : Covers(CanonicalUnion(S), v) <=> \E s \in S : Inside(v, s)
  <1>1. PICK B : B = {s \in S : ~Empty(s)}
    OBVIOUS
  <1>2. B \in SUBSET Interval /\ IsFiniteSet(B) /\ B \subseteq S
    BY <1>1, FS_Subset
  <1>3. PICK a : a = SortedSpans(B) /\ AreSorted(B, a)
    BY <1>2, SpansAreSorted
  <1>4. PICK n \in Nat : n = Len(a) /\ DOMAIN a = 1..n
    BY <1>3 DEF AreSorted
  <1>5. /\ \A i \in 1..n : a[i] \in Interval /\ ~Empty(a[i])
        /\ \A i, j \in 1..n : i < j => a[i].lower <= a[j].lower
        /\ B = {a[i] : i \in 1..n}
    <2>1. a \in Seq(B) /\ Range(a) = B
      BY <1>3 DEF AreSorted
    <2>2. B = {a[i] : i \in 1..n}
      BY <1>4, <2>1 DEF Range
    <2>3. \A i \in 1..n : a[i] \in B
      BY <2>2
    <2>4. \A i, j \in 1..n : i < j => a[i].lower <= a[j].lower
      BY <1>3, <1>4 DEF AreSorted
    <2> QED
      BY <1>1, <1>2, <2>2, <2>3, <2>4
  <1>6. PICK D, A : D = Seq(Interval) /\ A = (1..n) \X D
    OBVIOUS
  <1>7. PICK next : next = [e \in A |-> Merge(e[2], a[e[1]])]
    OBVIOUS
  <1>8. next \in [A -> D]
    <2>1. ASSUME NEW e \in A PROVE Merge(e[2], a[e[1]]) \in D
      <3>1. e[1] \in 1..n /\ e[2] \in Seq(Interval)
        BY <1>6
      <3>2. a[e[1]] \in Interval
        BY <1>5, <3>1
      <3> QED
        BY <1>6, <3>1, <3>2, MergeIsOfIntervals
    <2> QED
      BY <1>7, <2>1
  <1>9. PICK h : Follows(h, n, D, <<>>, next)
    <2>1. <<>> \in D
      BY <1>6
    <2> QED
      BY <1>6, <1>8, <2>1, RecursionExists
  <1>10. h \in [0..n -> D] /\ h[0] = <<>> /\ \A i \in 1..n : h[i] = Merge(h[i - 1], a[i])
    <2>1. h \in [0..n -> D] /\ h[0] = <<>> /\ \A i \in 1..n : h[i] = next[<<i, h[i - 1]>>]
      BY <1>9 DEF Follows
    <2>2. ASSUME NEW i \in 1..n PROVE h[i] = Merge(h[i - 1], a[i])
      <3>1. i - 1 \in 0..n
        OBVIOUS
      <3>2. h[i - 1] \in D
        BY <2>1, <3>1
      <3>3. <<i, h[i - 1]>> \in A /\ <<i, h[i - 1]>>[2] = h[i - 1] /\ <<i, h[i - 1]>>[1] = i
        BY <1>6, <3>2
      <3> QED
        BY <1>7, <2>1, <3>3
    <2> QED
      BY <2>1, <2>2
  <1> DEFINE Value0(x, i) == IF i = 0 THEN <<>> ELSE Merge(x[i - 1], a[i])
             Solves(x) == x = [i \in 0..n |-> Value0(x, i)]
  <1>11. Solves(h)
    <2>1. \A i \in 0..n : h[i] = Value0(h, i)
      <3> TAKE i \in 0..n
      <3>1. i = 0 \/ (i \in 1..n /\ i # 0)
        OBVIOUS
      <3> QED
        BY <1>10, <3>1
    <2> DEFINE Next(i) == Value0(h, i)
    <2>2. h = [i \in 0..n |-> h[i]]
      BY <1>10
    <2>3. \A i \in 0..n : h[i] = Next(i)
      BY <2>1
    <2>4. h = [i \in 0..n |-> Next(i)]
      <3> HIDE DEF Next
      <3> QED
        BY <2>2, <2>3
    <2> QED
      BY <2>4
  <1>12. PICK f : f = CHOOSE x : Solves(x)
    OBVIOUS
  <1>13. Solves(f)
    <2> HIDE DEF Solves
    <2> QED
      BY <1>11, <1>12
  <1>14. CanonicalUnion(S) = f[n]
    BY <1>1, <1>3, <1>4, <1>12 DEF CanonicalUnion
  <1>15. f[0] = <<>> /\ \A i \in 1..n : f[i] = Merge(f[i - 1], a[i])
    <2>1. \A i \in 0..n : f[i] = Value0(f, i)
      BY <1>13
    <2>2. 0 \in 0..n /\ \A i \in 1..n : i \in 0..n /\ i # 0
      OBVIOUS
    <2> QED
      BY <2>1, <2>2
  <1>16. PICK T : T = {i \in 0..n : IsMerged(a, i, f[i])}
    OBVIOUS
  <1>17. 0 \in T
    <2>1. DOMAIN <<>> = {} /\ Len(<<>>) = 0 /\ 1..0 - 1 = {} /\ 1..0 = {} /\ <<>> \in Seq(Interval)
      OBVIOUS
    <2>2. PICK m : m = <<>> /\ m = f[0] /\ DOMAIN m = {} /\ Len(m) = 0 /\ m \in Seq(Interval)
      BY <1>15, <2>1
    <2>3. ValidUnion(m) /\ Range(m) = {}
      BY <2>1, <2>2 DEF ValidUnion, Range
    <2>4. \A v \in Int : Covers(m, v) <=> \E j \in 1..0 : Inside(v, a[j])
      BY <2>1, <2>3 DEF Covers
    <2>5. IsMerged(a, 0, f[0])
      BY <2>2, <2>3, <2>4 DEF IsMerged
    <2> QED
      BY <1>16, <2>5
  <1>18. ASSUME NEW i \in 1..n, i - 1 \in T PROVE i \in T
    <2>1. PICK m, s, o : m = f[i - 1] /\ s = a[i] /\ o = f[i]
      OBVIOUS
    <2>2. IsMerged(a, i - 1, m) /\ o = Merge(m, s) /\ s \in Interval /\ ~Empty(s)
      BY <1>5, <1>15, <1>16, <1>18, <2>1
    <2>3. ASSUME m # <<>> PROVE Last(m).lower <= s.lower
      <3>1. i - 1 \in 1..n /\ Last(m).lower <= a[i - 1].lower
        BY <1>4, <2>2, <2>3 DEF IsMerged
      <3>2. a[i - 1].lower <= s.lower
        BY <1>5, <2>1, <3>1
      <3>3. Last(m) \in Interval
        BY <2>2, <2>3 DEF IsMerged, Last
      <3>4. a[i - 1] \in Interval
        BY <1>5, <3>1
      <3>5. Last(m).lower \in Int /\ a[i - 1].lower \in Int /\ s.lower \in Int
        BY <2>2, <3>3, <3>4 DEF Interval
      <3> QED
        BY <3>1, <3>2, <3>5
    <2>4. Takes(m, s, o)
      BY <2>2, <2>3, MergeTakes DEF IsMerged
    <2>5. \A j : j \in 1..i <=> j \in 1..i - 1 \/ j = i
      OBVIOUS
    <2>6. ASSUME NEW v \in Int PROVE Covers(o, v) <=> \E j \in 1..i : Inside(v, a[j])
      <3>1. Covers(o, v) <=> Covers(m, v) \/ Inside(v, s)
        BY <2>4 DEF Takes
      <3>2. Covers(m, v) <=> \E j \in 1..i - 1 : Inside(v, a[j])
        BY <2>2 DEF IsMerged
      <3> QED
        BY <2>1, <2>5, <3>1, <3>2
    <2>7. IsMerged(a, i, o)
      <3>1. o \in Seq(Interval) /\ ValidUnion(o) /\ Last(o).lower <= a[i].lower
        BY <2>1, <2>4 DEF Takes
      <3> QED
        BY <1>4, <2>6, <3>1 DEF IsMerged
    <2> QED
      BY <1>16, <2>1, <2>7
  <1>19. n \in T
    <2>1. 0..n \subseteq T
      BY <1>17, <1>18, Upward
    <2> QED
      BY <2>1
  <1>20. IsMerged(a, n, f[n])
    BY <1>16, <1>19
  <1>21. ASSUME NEW v \in Int PROVE Covers(f[n], v) <=> \E s \in S : Inside(v, s)
    <2>1. Covers(f[n], v) <=> \E s \in B : Inside(v, s)
      BY <1>5, <1>20 DEF IsMerged
    <2>2. ASSUME NEW s \in S, Inside(v, s) PROVE s \in B
      <3>1. s.lower \in Int /\ s.upper \in Int
        BY DEF Interval
      <3> QED
        BY <1>1, <2>2, <3>1 DEF Inside, Empty
    <2> QED
      BY <1>2, <2>1, <2>2
  <1> QED
    BY <1>14, <1>20, <1>21 DEF IsMerged

\* A difference cuts out the other interval, and nothing else.
LEMMA DifferenceCutsOut ==
  ASSUME NEW s \in Interval, NEW t \in Interval, NEW v \in Int
  PROVE  (\E r \in Difference(s, t) : Inside(v, r)) <=> Inside(v, s) /\ ~Inside(v, t)
  <1>1. PICK a, b, c, d : a = s.lower /\ b = s.upper /\ c = t.lower /\ d = t.upper
    OBVIOUS
  <1>2. a \in Int /\ b \in Int /\ c \in Int /\ d \in Int
    BY <1>1 DEF Interval
  <1>3. CASE Empty(s)
    <2>1. Difference(s, t) = {}
      BY <1>3 DEF Difference
    <2>2. ~Inside(v, s)
      BY <1>1, <1>2, <1>3 DEF Empty, Inside
    <2> QED
      BY <2>1, <2>2
  <1>4. CASE ~Empty(s) /\ Disjoint(s, t)
    <2>1. Difference(s, t) = {s}
      BY <1>4 DEF Difference
    <2>2. Inside(v, s) => ~Inside(v, t)
      BY <1>1, <1>2, <1>4 DEF Disjoint, Intersect, Span, Empty, Inside, Larger, Lesser
    <2> QED
      BY <2>1, <2>2
  <1>5. CASE ~Empty(s) /\ ~Disjoint(s, t) /\ SubsetOf(s, t)
    <2>1. Difference(s, t) = {}
      BY <1>5 DEF Difference
    <2>2. Inside(v, s) => Inside(v, t)
      BY <1>1, <1>2, <1>5 DEF SubsetOf, Empty, Inside
    <2> QED
      BY <2>1, <2>2
  <1>6. CASE ~Empty(s) /\ ~Disjoint(s, t) /\ ~SubsetOf(s, t)
    <2>1. PICK p, q : p = Span(a, Lesser(b, c)) /\ q = Span(Larger(a, d), b)
      OBVIOUS
    <2>2. Difference(s, t) = {r \in {p, q} : ~Empty(r)}
      BY <1>1, <1>6, <2>1 DEF Difference
    <2>3. /\ Inside(v, p) <=> a < v /\ v <= b /\ v <= c
          /\ Inside(v, q) <=> a < v /\ d < v /\ v <= b
      BY <1>2, <2>1 DEF Span, Lesser, Larger, Inside
    <2>4. (Inside(v, p) => ~Empty(p)) /\ (Inside(v, q) => ~Empty(q))
      BY <1>2, <2>1 DEF Span, Lesser, Larger, Inside, Empty
    <2>5. (Inside(v, s) <=> a < v /\ v <= b) /\ (Inside(v, t) <=> c < v /\ v <= d)
      BY <1>1 DEF Inside
    <2>6. (\E r \in Difference(s, t) : Inside(v, r)) <=> Inside(v, p) \/ Inside(v, q)
      BY <2>2, <2>4
    <2> QED
      BY <1>2, <2>3, <2>5, <2>6
  <1> QED
    BY <1>3, <1>4, <1>5, <1>6

\* An answer locates the rows of its call.
RowsAreLocated ==
  /\ call \in RegionCalls
  /\ answer = Pending \/ answer = [is |-> RegionAnswer(call)]

\* Locate answers a call, and nothing else.
LEMMA LocatesAnswers == RegionSpec => []RowsAreLocated
  <1>1. RegionInit => RowsAreLocated
    BY DEF RegionInit, RowsAreLocated
  <1>2. RowsAreLocated /\ [Locate]_<<call, answer>> => RowsAreLocated'
    BY DEF RowsAreLocated, Locate
  <1> QED
    BY <1>1, <1>2, PTL DEF RegionSpec

\* Simplified regions keep their rows, for every table of splits, every path of literals and
\* every finite set of intervals (region_algebra.py, proof): of the clauses of a stage only
\* that of the leaf a row is routed to fires on it; the canonical conjunction holds of the
\* rows of its path; a union and a difference cover what they are made of.
THEOREM KeepsRows == RegionSpec => []RegionsKeepTheirRows
  <1>1. ASSUME RowsAreLocated, Answered("fires"), NEW x \in call.rows, NEW i \in DOMAIN call.m.forest
        PROVE  answer.is[x][i] = {Last(Route(call.m.forest[i].tree, x))}
    <2>1. call \in RegionCalls /\ call.op = "fires" /\ answer.is = RegionAnswer(call)
      BY <1>1 DEF RowsAreLocated, Answered
    <2>2. answer.is = [z \in call.rows |->
                         [j \in DOMAIN call.m.forest |-> ProofLeaf(call.m.forest[j].tree, z)]]
      BY <2>1 DEF RegionAnswer
    <2>3. PICK tree : tree = call.m.forest[i].tree
      OBVIOUS
    <2>4. Routes(tree, x) /\ One \in Int
      BY <1>1, <2>1, <2>3, RegionsAreOfRows
    <2>5. ProofLeaf(tree, x) = {Last(Route(tree, x))}
      BY <2>4, OneClauseFires
    <2> QED
      BY <1>1, <2>2, <2>3, <2>5
  <1>2. ASSUME RowsAreLocated, Answered("region")
        PROVE  /\ \A x \in call.rows : Means(answer.is, x) <=> Means(call.path, x)
               /\ AreDistinct(answer.is)
    <2>1. call \in RegionCalls /\ call.op = "region" /\ answer.is = RegionAnswer(call)
      BY <1>2 DEF RowsAreLocated, Answered
    <2>2. answer.is = Canonicalize(call.path)
      BY <2>1 DEF RegionAnswer
    <2>3. /\ call.path \in Seq(Range(call.path))
          /\ \A p \in Range(call.path) : IsLiteral(p) /\ \A x \in call.rows : IsRow(x, Range(p.cols))
      BY <2>1, RegionsAreOfRows
    <2>4. IsPath(call.path) /\ \A x \in call.rows : HasRow(call.path, x)
      BY <2>3 DEF IsPath, HasRow
    <2> QED
      BY <2>2, <2>4, CanonicalKeepsRows
  <1>3. ASSUME RowsAreLocated, Answered("spans")
        PROVE  /\ ValidUnion(answer.is.union)
               /\ \A v \in call.points :
                    /\ (\E b \in Range(answer.is.union) : Inside(v, b)) <=> (\E s \in call.spans : Inside(v, s))
                    /\ (\E r \in answer.is.rest : Inside(v, r)) <=> Inside(v, call.s) /\ ~Inside(v, call.t)
    <2>1. call \in RegionCalls /\ call.op = "spans" /\ answer.is = RegionAnswer(call)
      BY <1>3 DEF RowsAreLocated, Answered
    <2>2. answer.is = [union |-> CanonicalUnion(call.spans), rest |-> Difference(call.s, call.t)]
      BY <2>1 DEF RegionAnswer
    <2>3. answer.is.union = CanonicalUnion(call.spans) /\ answer.is.rest = Difference(call.s, call.t)
      BY <2>2
    <2>4. /\ IsFiniteSet(call.spans) /\ call.spans \in SUBSET Interval
          /\ call.s \in Interval /\ call.t \in Interval /\ \A v \in call.points : v \in Int
      BY <2>1, RegionsAreOfRows
    <2>5. /\ ValidUnion(answer.is.union)
          /\ \A v \in call.points : Covers(answer.is.union, v) <=> \E s \in call.spans : Inside(v, s)
      BY <2>3, <2>4, UnionCoversSpans
    <2>6. \A v \in call.points :
            (\E r \in answer.is.rest : Inside(v, r)) <=> Inside(v, call.s) /\ ~Inside(v, call.t)
      BY <2>3, <2>4, DifferenceCutsOut
    <2> QED
      BY <2>5, <2>6 DEF Covers
  <1>4. RowsAreLocated => RegionsKeepTheirRows
    BY <1>1, <1>2, <1>3 DEF RegionsKeepTheirRows, AreDistinct
  <1> QED
    BY <1>4, LocatesAnswers, PTL
=============================================================================
