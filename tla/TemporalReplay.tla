--------------------------- MODULE TemporalReplay ---------------------------
(***************************************************************************)
(* TemporalLaplaceMap (src/tabpvn/temporal.py): the history facts of event *)
(* tables.  fit_transform scans the training events and keeps each         *)
(* entity's final state; transform continues from that state for later     *)
(* rows.  Three scans produce the columns:                                 *)
(*   - decayed counts and sums per entity, at several time scales;         *)
(*   - the depth-two context: gaps and the marks of the last two batches;  *)
(*   - a suffix tree of mark transitions, shared by the whole population.  *)
(* Rows of one entity (or, for the tree, of one instant) with equal        *)
(* timestamps are one batch: all are emitted before any is added.          *)
(*                                                                         *)
(* Numbers are kept as what determines them: a decayed sum is the set of   *)
(* its events with their ages, a batch mean its set of rows, and what the  *)
(* tree reports the counts on the path it reads.                           *)
(***************************************************************************)
EXTENDS Integers, Sequences, FiniteSets, SequencesExt, FiniteSetsExt

CONSTANTS Entities,      \* entity keys
          Times,         \* timestamps, natural numbers
          Marks,         \* normalised marks: -1, 0 or 1
          MaxFitRows,    \* bound: rows of a training table
          MaxServeRows,  \* bound: rows of a table to predict
          Representations, \* [values, context, tree]: mark columns, which scans
          MaxScales,     \* _MAX_SCALES
          MaxFeatures,   \* _MAX_EVIDENCE_FEATURES
          SuffixDepth    \* _SUFFIX_TREE_DEPTH

ASSUME TimesAssumption == Times \subseteq Nat \ {0}
ASSUME MarksAssumption == Marks \subseteq {-1, 0, 1}

VARIABLES map,     \* the map: constructed for a representation, then fitted
          table,   \* the rows of the last call that returned, in the caller's order
          facts    \* what it returned: row -> column -> fact
replayVars == <<map, table, facts>>

NoFacts == <<>>
Never   == 0                 \* _NAT_NS: the entity was not seen yet
Alphabet == 0 .. 2           \* negative, neutral, positive

Row == [entity: Entities, time: Times, mark: Marks]
Tables(n) == UNION {[1 .. k -> Row] : k \in 1 .. n}

-----------------------------------------------------------------------------
(* Ordering and batches *)

FirstSeen(t, e) == Min({r \in DOMAIN t : t[r].entity = e})   \* factorize: the code of e

\* Rows by entity, time and row number.
ByEntity(t) ==
    SetToSortSeq(DOMAIN t, LAMBDA a, b :
        LET ca == FirstSeen(t, t[a].entity)  cb == FirstSeen(t, t[b].entity)
        IN  \/ ca < cb
            \/ ca = cb /\ t[a].time < t[b].time
            \/ ca = cb /\ t[a].time = t[b].time /\ a < b)

\* Rows by time, entity and row number.
ByTime(t) ==
    SetToSortSeq(DOMAIN t, LAMBDA a, b :
        LET ca == FirstSeen(t, t[a].entity)  cb == FirstSeen(t, t[b].entity)
        IN  \/ t[a].time < t[b].time
            \/ t[a].time = t[b].time /\ ca < cb
            \/ t[a].time = t[b].time /\ ca = cb /\ a < b)

\* Mutant: every row is a batch of its own, ties included.
SameRow(t, a, b) == a = b

SameBatch(t, a, b) == t[a].entity = t[b].entity /\ t[a].time = t[b].time

\* The cursor/end loops: maximal runs of consecutive rows that belong together.
RunsOf(order, Together(_, _)) ==
    FoldLeft(LAMBDA runs, r :
                 IF runs # <<>> /\ Together(Head(Last(runs)), r)
                 THEN ReplaceAt(runs, Len(runs), Append(Last(runs), r))
                 ELSE Append(runs, <<r>>),
             <<>>, order)

EntityBatches(t) == RunsOf(ByEntity(t), LAMBDA a, b : SameBatch(t, a, b))
InstantBatches(t) == RunsOf(ByTime(t), LAMBDA a, b : t[a].time = t[b].time)

-----------------------------------------------------------------------------
(* The scans.  A row is identified by <<call, number>>: "fit" or "serve".  *)

Aged(events, elapsed) == {[e EXCEPT !.age = @ + elapsed] : e \in events}

\* One iteration of _causal_laplace_scan: decay, emit the batch, add the batch.
LaplaceStep(t, call, scan, batch) ==
    LET e       == t[batch[1]].entity
        now     == t[batch[1]].time
        before  == IF scan.last[e] = Never THEN scan.sums[e]
                   ELSE Aged(scan.sums[e], now - scan.last[e])
    IN  [sums |-> [scan.sums EXCEPT ![e] =
                       before \cup {[id |-> <<call, r>>, age |-> 0] : r \in Range(batch)}],
         last |-> [scan.last EXCEPT ![e] = now],
         out  |-> [r \in DOMAIN t |-> IF r \in Range(batch) THEN before ELSE scan.out[r]]]

LaplaceScan(t, call, state) ==
    FoldLeft(LAMBDA scan, b : LaplaceStep(t, call, scan, b),
             [sums |-> state.sums, last |-> state.last, out |-> [r \in DOMAIN t |-> {}]],
             EntityBatches(t))

\* One iteration of _causal_context_scan.
ContextStep(t, call, scan, batch) ==
    LET e    == t[batch[1]].entity
        now  == t[batch[1]].time
        seen == scan.last[e] # Never
        gap  == IF seen THEN Max({0, now - scan.last[e]}) ELSE 0
        fact == [gap      |-> gap,
                 previous |-> IF seen THEN scan.gaps[e] ELSE 0,
                 lag1     |-> scan.lag1[e], lag2 |-> scan.lag2[e]]
    IN  [lag1 |-> [scan.lag1 EXCEPT ![e] = {<<call, r>> : r \in Range(batch)}],
         lag2 |-> [scan.lag2 EXCEPT ![e] = scan.lag1[e]],
         gaps |-> IF seen THEN [scan.gaps EXCEPT ![e] = gap] ELSE scan.gaps,
         last |-> [scan.last EXCEPT ![e] = now],
         out  |-> [r \in DOMAIN t |-> IF r \in Range(batch) THEN fact ELSE scan.out[r]]]

ContextScan(t, call, state) ==
    FoldLeft(LAMBDA scan, b : ContextStep(t, call, scan, b),
             [lag1 |-> state.lag1, lag2 |-> state.lag2, gaps |-> state.gaps, last |-> state.last,
              out |-> [r \in DOMAIN t |-> 0]],
             EntityBatches(t))

\* _SUFFIX_TREE_CONTEXTS, and the offset of a layer: 1 + 3 + ... + 3^(depth-1).
Layer(depth) == (3 ^ depth - 1) \div 2
Contexts == Layer(SuffixDepth + 1)

\* _suffix_context_index: the layer offset plus the newest-first symbols in base 3.
ContextIndex(history, depth) ==
    Layer(depth) + FoldLeft(LAMBDA code, s : code * 3 + s, 0, SubSeq(history, 1, depth))

\* The depths whose suffix is known: the loops stop at the first missing symbol.
Depths(history) == 0 .. Min({SuffixDepth, Len(history)})

\* _suffix_tree_read: everything it reports is computed from the counts on this path.
SuffixRead(counts, history) == [d \in Depths(history) |-> counts[ContextIndex(history, d)]]

\* The mean of a batch against the dead zone of one quarter.
Symbol(t, rows) ==
    LET total == MapThenSumSet(LAMBDA r : t[r].mark, rows)
    IN  IF 4 * total < -Cardinality(rows) THEN 0
        ELSE IF 4 * total > Cardinality(rows) THEN 2 ELSE 1

\* _suffix_tree_update: count the symbol under every known suffix, then shift it in.
SuffixUpdate(scan, e, symbol) ==
    LET path == {ContextIndex(scan.history[e], d) : d \in Depths(scan.history[e])}
    IN  [scan EXCEPT
           !.counts = [c \in DOMAIN @ |->
                          IF c \in path THEN [@[c] EXCEPT ![symbol] = @ + 1] ELSE @[c]],
           !.history[e] = SubSeq(<<symbol>> \o @, 1, Min({SuffixDepth, Len(@) + 1}))]

\* One iteration of _causal_suffix_tree_scan: the whole instant reads, then each
\* entity of it adds one transition.
SuffixStep(t, scan, instant) ==
    LET emitted == [scan EXCEPT !.out = [r \in DOMAIN t |->
                       IF r \in Range(instant)
                       THEN SuffixRead(scan.counts, scan.history[t[r].entity])
                       ELSE @[r]]]
    IN  FoldLeft(LAMBDA s, run :
                     SuffixUpdate(s, t[run[1]].entity, Symbol(t, Range(run))),
                 emitted,
                 RunsOf(instant, LAMBDA a, b : t[a].entity = t[b].entity))

SuffixScan(t, state) ==
    FoldLeft(LAMBDA scan, i : SuffixStep(t, scan, i),
             [counts |-> state.counts, history |-> state.history, out |-> [r \in DOMAIN t |-> 0]],
             InstantBatches(t))

-----------------------------------------------------------------------------
(* Columns *)

Channels(rep) == 1 + rep.values
ContextWidth(rep) ==
    IF rep.context THEN 2 + 3 * rep.values + (IF rep.tree THEN 4 * rep.values ELSE 0) ELSE 0

\* _maximum_scale_count: the largest bank of scales within the feature budget.
MaximumScaleCount(rep) ==
    Max({s \in 1 .. MaxScales : Channels(rep) * (2 * s - 1) + ContextWidth(rep) <= MaxFeatures})

\* The concatenation of g[1], ..., g[n].
Columns(n, g(_)) == FlattenSeq([i \in 1 .. n |-> g(i)])

\* The column of output that a scan writes: channel-major, states before bands;
\* then gaps; then lag1, lag2, product of each mark; then four of each tree.
Assemble(rep, scales, laplace, context, suffix) ==
    LET Bank(c) == [s \in 1 .. 2 * scales - 1 |->
                      IF s <= scales THEN [kind |-> "state", channel |-> c, scale |-> s, of |-> laplace]
                      ELSE [kind |-> "band", channel |-> c, scale |-> s - scales, of |-> laplace]]
        Lags(v) == << [kind |-> "lag1", channel |-> v + 1, of |-> context.lag1],
                      [kind |-> "lag2", channel |-> v + 1, of |-> context.lag2],
                      [kind |-> "transition", channel |-> v + 1,
                       of |-> <<context.lag1, context.lag2>>] >>
        Tree(v) == [k \in 1 .. 4 |->
                      [kind |-> <<"expectation", "entropy", "confidence", "depth">>[k],
                       channel |-> v + 1, of |-> suffix]]
    IN  Columns(Channels(rep), Bank)
        \o (IF ~rep.context THEN <<>>
            ELSE << [kind |-> "gap", of |-> context.gap],
                    [kind |-> "previous_gap", of |-> context.previous] >>
                 \o Columns(rep.values, Lags))
        \o (IF rep.tree THEN Columns(rep.values, Tree) ELSE <<>>)

\* _feature_declarations: the names, in the order the columns are appended.
FeatureNames(rep, scales) ==
    LET Bank(c) == [s \in 1 .. scales |-> <<"state", c, s>>]
                   \o [s \in 1 .. scales - 1 |-> <<"band", c, s>>]
        Lags(v) == << <<"lag1", v + 1>>, <<"lag2", v + 1>>, <<"transition", v + 1>> >>
        Tree(v) == << <<"expectation", v + 1>>, <<"entropy", v + 1>>,
                      <<"confidence", v + 1>>, <<"depth", v + 1>> >>
    IN  Columns(Channels(rep), Bank)
        \o (IF rep.context THEN << <<"gap">>, <<"previous_gap">> >> \o Columns(rep.values, Lags)
            ELSE <<>>)
        \o (IF rep.context /\ rep.tree THEN Columns(rep.values, Tree) ELSE <<>>)

-----------------------------------------------------------------------------
(* fit_transform and transform *)

EmptyState ==
    [sums |-> [e \in Entities |-> {}], last |-> [e \in Entities |-> Never],
     lag1 |-> [e \in Entities |-> {}], lag2 |-> [e \in Entities |-> {}],
     gaps |-> [e \in Entities |-> 0],
     counts |-> [c \in 0 .. Contexts - 1 |-> [s \in Alphabet |-> 0]],
     history |-> [e \in Entities |-> <<>>],
     boundary |-> Never]                      \* _suffix_time_ns_

Scans(t, call, rep, state) ==
    [laplace |-> LaplaceScan(t, call, state),
     context |-> IF rep.context THEN ContextScan(t, call, state) ELSE state,
     suffix  |-> IF rep.tree THEN SuffixScan(t, state) ELSE state]

FactsOf(t, rep, scales, scans) ==
    [r \in DOMAIN t |->
        Assemble(rep, scales, scans.laplace.out[r],
                 IF rep.context THEN scans.context.out[r] ELSE 0,
                 IF rep.tree THEN scans.suffix.out[r] ELSE 0)]

\* _derive_scales needs an entity observed at two timestamps; how many scales the
\* quantiles of the gaps ask for is left open within the budget.
Scalable(t) == \E a, b \in DOMAIN t : t[a].entity = t[b].entity /\ t[a].time < t[b].time

\* TemporalLaplaceMap.__init__
Constructed(rep) == [fitted |-> FALSE, rep |-> rep]

\* fit_transform
Fit(t, scales) ==
    /\ ~map.fitted
    /\ table' = t
    /\ LET rep == map.rep
           scans == Scans(t, "fit", rep, EmptyState)
       IN  /\ map' = [fitted |-> TRUE, rep |-> rep, scales |-> scales, rows |-> t,
                      state |-> [sums |-> scans.laplace.sums, last |-> scans.laplace.last,
                                 lag1 |-> scans.context.lag1, lag2 |-> scans.context.lag2,
                                 gaps |-> scans.context.gaps,
                                 counts |-> scans.suffix.counts,
                                 history |-> scans.suffix.history,
                                 boundary |-> IF rep.tree THEN Max({t[r].time : r \in DOMAIN t})
                                              ELSE Never]]
           /\ facts' = FactsOf(t, rep, scales, scans)

\* transform refuses a row of a known entity that is not later than its history, and
\* with a tree any row that is not later than the whole training table.
Overlaps(t) ==
    \/ \E r \in DOMAIN t : /\ map.state.last[t[r].entity] # Never
                           /\ t[r].time <= map.state.last[t[r].entity]
    \/ map.rep.tree /\ Min({t[r].time : r \in DOMAIN t}) <= map.state.boundary

ServeTables == Tables(MaxServeRows)

\* transform leaves the map alone, so a second call answers as the first: one call
\* after a fit is enough (bound).
Serve(t) ==
    /\ map.fitted
    /\ table = map.rows
    /\ ~Overlaps(t)
    /\ table' = t
    /\ facts' = FactsOf(t, map.rep, map.scales, Scans(t, "serve", map.rep, map.state))
    /\ UNCHANGED map

\* The ValueError of an overlapping call: nothing is returned.
RefuseServe ==
    /\ map.fitted
    /\ table = map.rows
    /\ {t \in ServeTables : Overlaps(t)} # {}
    /\ table' = <<>>
    /\ facts' = NoFacts
    /\ UNCHANGED map

Unplayed == table = <<>> /\ facts = NoFacts

\* Rows in time order, as _fit_event_table and the gate hand them over.
FitTables ==
    {t \in Tables(MaxFitRows) :
        Scalable(t) /\ \A a, b \in DOMAIN t : a < b => t[a].time <= t[b].time}

ReplayNext ==
    \/ /\ ~map.fitted
       /\ \E t \in FitTables : \E scales \in 1 .. MaximumScaleCount(map.rep) : Fit(t, scales)
    \/ \E t \in ServeTables : Serve(t)
    \/ RefuseServe
=============================================================================
