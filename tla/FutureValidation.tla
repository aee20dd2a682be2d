--------------------------- MODULE FutureValidation ---------------------------
(***************************************************************************)
(* Validation geometry of event data: which rows a gate may fit on and     *)
(* which rows it may measure on (src/tabpvn/validation.py, the future      *)
(* windows of src/tabpvn/proposers/temporal.py, the bounded gate table of  *)
(* src/tabpvn/event_schema.py).  g[r] is the timestamp group of row r, in  *)
(* the caller's row order; y[r] its label.  Positions count from 1, so a   *)
(* cut k leaves the first k rows in the past.                              *)
(***************************************************************************)
EXTENDS Integers, Sequences, FiniteSets, SequencesExt, FiniteSetsExt

Distance(a, b) == IF a < b THEN b - a ELSE a - b

\* round(): halves go to the even neighbour.
Rounded(num, den) ==
    LET q == num \div den  r == 2 * (num % den)
    IN  IF r < den THEN q ELSE IF r > den THEN q + 1 ELSE q + (q % 2)

\* lexsort((candidates, abs(candidates - target)))[0]
Nearest(S, target) ==
    CHOOSE c \in S : \A d \in S : \/ Distance(c, target) < Distance(d, target)
                                  \/ Distance(c, target) = Distance(d, target) /\ c <= d

\* np.linspace(0, n - 1, num=k, dtype=int64), from 1.
Spread(n, k) == IF k = 1 THEN <<1>> ELSE [i \in 1 .. k |-> 1 + ((i - 1) * (n - 1)) \div (k - 1)]

-----------------------------------------------------------------------------
(* FutureValidation *)

Ascending(S) ==
    [k \in 1 .. Cardinality(S) |-> CHOOSE x \in S : Cardinality({z \in S : z <= x}) = k]

\* Rows from oldest to newest timestamp, stable.
Order(g) ==
    [k \in DOMAIN g |-> CHOOSE r \in DOMAIN g :
        Cardinality({a \in DOMAIN g : g[a] < g[r] \/ (g[a] = g[r] /\ a <= r)}) = k]

\* Mutant: every position counts as a boundary.
EveryCut(g) == 1 .. Len(g) - 1

\* Cuts between distinct timestamps.
Changes(g) == {k \in 1 .. Len(g) - 1 : g[Order(g)[k]] # g[Order(g)[k + 1]]}

Past(g, k)   == SubSeq(Order(g), 1, k)
Future(g, k) == SubSeq(Order(g), k + 1, Len(g))
Values(y, rows) == {y[r] : r \in Range(rows)}

NoSplit == [past |-> <<>>, future |-> <<>>]

\* split: the cut nearest the requested size that keeps both floors, shows every class
\* on both sides if asked to, and meets the class floors of the future.  When there is
\* none the call raises.
Split(g, y, p) ==
    LET supports(k) == k >= p.minTrain /\ k <= Len(g) - p.minValid
        covers(k) ==
            p.coverage => /\ Values(y, Past(g, k)) = Range(y)
                          /\ Values(y, Future(g, k)) = Range(y)
        counts(k) ==
            \A label \in DOMAIN p.floors :
                Cardinality({r \in Range(Future(g, k)) : y[r] = label}) >= p.floors[label]
        cuts == {k \in Changes(g) : supports(k) /\ covers(k) /\ counts(k)}
        cut  == Nearest(cuts, Rounded((p.den - p.num) * Len(g), p.den))
    IN  IF cuts = {} THEN NoSplit ELSE [past |-> Past(g, cut), future |-> Future(g, cut)]

\* _validation_splits for an event fit: a quarter held out, floors of 25 and 5 percent.
ValidationSplit(g, y, classification) ==
    Split(g, y, [num |-> 1, den |-> 4, minTrain |-> Max({2, Len(g) \div 4}),
                 minValid |-> Max({1, Len(g) \div 20}),
                 coverage |-> classification, floors |-> <<>>])

\* Mutant: the start is always moved to the older edge of the tie.
OlderEdge(times, cap) ==
    Cardinality({i \in DOMAIN times : times[i] < times[Len(times) - cap + 1]})

\* Where the most recent `cap` rows start, moved to an edge of the tie they fall into:
\* its left edge if the whole tie fits, else its right edge.
RecentStart(times, cap) ==
    LET boundary == times[Len(times) - cap + 1]
        left  == Cardinality({i \in DOMAIN times : times[i] < boundary})
        right == Cardinality({i \in DOMAIN times : times[i] <= boundary})
    IN  IF Len(times) - left <= cap THEN left ELSE right

Groups(g, rows) == {g[r] : r \in Range(rows)}

TimesOf(g, rows) == [i \in DOMAIN rows |-> g[rows[i]]]
Before(times, t) == Cardinality({i \in DOMAIN times : times[i] < t})

\* The rows of a timestamp, in the caller's order.
RowsAt(g, t) ==
    LET times == TimesOf(g, Order(g))
    IN  SubSeq(Order(g), Before(times, t) + 1, Before(times, t + 1))

\* The fallback of bounded_rows: an even sample inside each of the newest timestamps.
SampledRows(g, cap, maxGroups) ==
    LET newest == Ascending(Range(g))
        count  == Min({Len(newest), maxGroups, cap})
        chosen == SubSeq(newest, Len(newest) - count + 1, Len(newest))
        Quota(i) == cap \div count + (IF i > count - (cap % count) THEN 1 ELSE 0)
        Sample(i) ==
            LET rows == RowsAt(g, chosen[i])
                positions == Spread(Len(rows), Min({Len(rows), Quota(i)}))
            IN  [j \in DOMAIN positions |-> rows[positions[j]]]
    IN  FlattenSeq([i \in 1 .. count |-> Sample(i)])

\* bounded_rows: <<>> stands for the ValueError of a table with a single timestamp.
BoundedRows(g, cap, maxGroups) ==
    LET tail == SubSeq(Order(g), RecentStart(TimesOf(g, Order(g)), cap) + 1, Len(g))
    IN  IF Len(g) <= cap THEN Order(g)
        ELSE IF Cardinality(Groups(g, tail)) >= 2 THEN tail
        ELSE IF Cardinality(Range(g)) < 2 THEN <<>>
        ELSE SampledRows(g, cap, maxGroups)

\* _bounded_evidence_rows of an event fit.
EvidenceRows(g, cap, maxGroups) ==
    IF Len(g) > cap THEN BoundedRows(g, cap, maxGroups) ELSE [r \in DOMAIN g |-> r]

-----------------------------------------------------------------------------
(* expanding_splits *)

\* A block that ends nowhere: a cut leaves rows on both sides.
Infeasible == 0

\* The changes at which the block may end that follows the end point `last`: behind its
\* own rows, with room for the blocks behind it.
Room(g, last, behind, minValid) ==
    {k \in Changes(g) : k >= last + minValid /\ k <= Len(g) - behind * minValid}

\* The end points of the first `folds` - 1 blocks, each the change nearest to an equal
\* share that has room, given the end point before it.
BlockEnds(g, first, folds, minValid) ==
    LET end[step \in 0 .. folds - 1] ==
          IF step = 0 THEN first
          ELSE IF end[step - 1] = Infeasible \/ Room(g, end[step - 1], folds - step, minValid) = {}
          THEN Infeasible
          ELSE Nearest(Room(g, end[step - 1], folds - step, minValid),
                       first + Rounded((Len(g) - first) * step, folds))
    IN  [i \in 1 .. folds |-> end[i - 1]]

LeavesLast(g, ends, minValid) == Last(ends) # Infeasible /\ Len(g) - Last(ends) >= minValid

\* Starts of the first block that are allowed for this number of folds.
Starts(g, y, p, folds) ==
    {k \in Changes(g) :
        /\ k >= p.minTrain
        /\ k <= Len(g) - folds * p.minValid
        /\ p.coverage => Values(y, Past(g, k)) = Range(y)
        /\ LeavesLast(g, BlockEnds(g, k, folds, p.minValid), p.minValid)}

SplitsAt(g, ends) ==
    [i \in 1 .. Len(ends) - 1 |-> [past |-> Past(g, ends[i]),
                                   future |-> SubSeq(Order(g), ends[i] + 1, ends[i + 1])]]
SplitsOf(g, y, p, folds) ==
    LET first == Nearest(Starts(g, y, p, folds), Rounded(p.warmNum * Len(g), p.warmDen))
    IN  SplitsAt(g, Append(BlockEnds(g, first, folds, p.minValid), Len(g)))

\* Fewer folds are tried when no start works; <<>> stands for the ValueError.
ExpandingSplits(g, y, p) ==
    LET feasible == {f \in 1 .. p.folds : Starts(g, y, p, f) # {}}
    IN  IF feasible = {} THEN <<>> ELSE SplitsOf(g, y, p, Max(feasible))

-----------------------------------------------------------------------------
(* The windows of the temporal gate *)

\* _atomic_partitions: the cuts of equal shares, moved to the start of their tie; a cut
\* that does not advance is dropped.
AtomicPartitions(g, rows, parts) ==
    LET times == TimesOf(g, rows)
        target(p) == Rounded(p * Len(rows), parts)
        targets == {target(p) : p \in 1 .. parts - 1} \cap (1 .. Len(rows) - 1)
        cuts == Ascending({Before(times, times[t + 1]) : t \in targets} \ {0})
        bounds == <<0>> \o cuts \o <<Len(rows)>>
    IN  IF rows = <<>> THEN <<>>
        ELSE [i \in 1 .. Len(bounds) - 1 |-> SubSeq(rows, bounds[i] + 1, bounds[i + 1])]

\* The newest `cap` rows, tie-safe.
Recent(g, rows, cap) ==
    IF Len(rows) <= cap THEN rows
    ELSE SubSeq(rows, RecentStart(TimesOf(g, rows), cap) + 1, Len(rows))

NoWindows == [warmup |-> <<>>, past |-> <<>>, windows |-> <<>>]

\* _power_window_split: context rows, the rows of the model, its past and its windows.
WindowsAt(order, model, cut, windows, p) ==
    IF \/ cut < p.minPast
       \/ Len(model) - cut < Max({p.minFuture, Len(model) \div 5})
       \/ Len(windows) < 2
       \/ \E i \in DOMAIN windows : Len(windows[i]) < p.minWindow
    THEN NoWindows
    ELSE [warmup |-> SubSeq(order, 1, Len(order) - Len(model)),
          past |-> SubSeq(model, 1, cut), windows |-> windows]
CutAt(g, order, model, cut, p) ==
    WindowsAt(order, model, cut,
              AtomicPartitions(g, SubSeq(model, cut + 1, Len(model)), p.windows), p)
WindowsOf(g, order, model, p) ==
    LET requested == (p.trainNum * Len(model)) \div p.trainDen
    IN  IF Len(order) < p.minRows \/ requested >= Len(model) THEN NoWindows
        ELSE CutAt(g, order, model, Before(TimesOf(g, model), g[model[requested + 1]]), p)
ContextWindows(g, order, p) == WindowsOf(g, order, Recent(g, order, p.maxRows), p)
PowerWindowSplit(g, p) == ContextWindows(g, Recent(g, Order(g), p.contextRows), p)

\* bounded_event_gate: an even sample of a small or partly undated table, else the
\* newest rows up to the limit, tie-safe.  dated: every row has a parseable time.
EventGate(g, dated, limit, minRows) ==
    IF Len(g) <= minRows \/ ~dated
    THEN Spread(Len(g), Min({Len(g), limit}))
    ELSE Recent(g, Order(g), limit)
=============================================================================
