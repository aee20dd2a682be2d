------------------------- MODULE MCTemporalEvidence -------------------------
(***************************************************************************)
(* Small tables and measurements for the choice of a representation, and   *)
(* what the columns of the map must say, computed from the events alone:   *)
(* the training rows and the rows of the present call.                     *)
(***************************************************************************)
EXTENDS TemporalEvidence, TLC

Plain == [dtype |-> "float", tname |-> 0, ename |-> 0, vname |-> 0, parses |-> FALSE,
          repeats |-> FALSE, spread |-> TRUE, whole |-> FALSE, rank |-> 0]
Time == [Plain EXCEPT !.dtype = "datetime", !.tname = 2, !.parses = TRUE]
NamedTime == [Plain EXCEPT !.dtype = "text", !.tname = 1, !.parses = TRUE, !.repeats = TRUE]
Id == [Plain EXCEPT !.dtype = "integer", !.ename = 2, !.repeats = TRUE, !.whole = TRUE, !.rank = 1]
Group == [Plain EXCEPT !.dtype = "text", !.repeats = TRUE, !.rank = 1]
Amount == [Plain EXCEPT !.vname = 1, !.rank = 1]
Count == [Plain EXCEPT !.dtype = "integer", !.vname = 1, !.whole = TRUE]

MCTables ==
    { <<Plain, Group>>,                        \* no timestamp: nothing is proposed
      <<Time, Id>>,                            \* one pair, no values
      <<Id, Amount, Time, Count>>,             \* one pair, two marks
      <<Group, Time, Id, Amount>>,             \* two entities on one timestamp
      <<Time, NamedTime, Id>> }                \* two timestamps, one of them groups too

Window(g, s) == [gain |-> g, safe |-> s]
Measure(g, s, w, l) == [gain |-> g, safe |-> s, windows |-> w, lower |-> l]
Strong == Measure(3, TRUE, <<Window(2, 2), Window(1, 2), Window(1, 2)>>, "positive")
Weak   == Measure(1, TRUE, <<Window(1, 2), Window(0, 2), Window(1, 2)>>, "positive")
Unsure == Measure(1, TRUE, <<Window(1, 2), Window(1, 2), None>>, "none")
Large  == Measure(3, TRUE, <<Window(1, 2), Window(2, 2), Window(-1, 1)>>, "negative")
Severe == Measure(2, TRUE, <<Window(2, 2), Window(2, 2), Window(-3, 0)>>, "positive")
Whole(m) == \A w \in DOMAIN m.windows : m.windows[w] # None

MCMeasurements ==
    LET all == {Strong, Weak, Unsure, Large, Severe}
    IN  [classification |-> all, regression |-> {m \in all : Whole(m)}]
MCSettings == {[context |-> TRUE, tree |-> TRUE], [context |-> TRUE, tree |-> FALSE],
               [context |-> FALSE, tree |-> TRUE]}
MCExplicit == { [entity |-> 2, timestamp |-> 1, values |-> v, rank |-> 0, score |-> 0] :
                v \in {<<>>, <<3>>} }
-----------------------------------------------------------------------------

\* Representations of the gate's three variants, with one and with two mark columns.
MCRepresentations ==
    { [values |-> 1, context |-> FALSE, tree |-> FALSE],
      [values |-> 2, context |-> TRUE,  tree |-> FALSE],
      [values |-> 1, context |-> TRUE,  tree |-> TRUE] }
MCMarks == {-1, 1}
Symmetry == Permutations(Entities)

\* Every event the map was shown up to this call.
Known ==
    LET own == IF facts # NoFacts /\ table # map.rows
               THEN {[id |-> <<"serve", r>>, row |-> table[r]] : r \in DOMAIN table} ELSE {}
    IN  {[id |-> <<"fit", r>>, row |-> map.rows[r]] : r \in DOMAIN map.rows} \cup own

Prior(row) == {k \in Known : k.row.entity = row.entity /\ k.row.time < row.time}
PriorTimes(row) == {k.row.time : k \in Prior(row)}
Newest(times) == IF times = {} THEN 0 ELSE Max(times)
Lag1Time(row) == Newest(PriorTimes(row))
Lag2Time(row) == Newest(PriorTimes(row) \ {Lag1Time(row)})
At(row, time) == {k.id : k \in {p \in Prior(row) : p.row.time = time}}

\* The transitions of the population before an instant: entity, time, symbol.
SymbolAt(e, time) ==
    LET batch == {k \in Known : k.row.entity = e /\ k.row.time = time}
        total == MapThenSumSet(LAMBDA k : k.row.mark, batch)
    IN  IF total < 0 THEN 0 ELSE IF total > 0 THEN 2 ELSE 1
InstantsOf(e, time) == {k.row.time : k \in {x \in Known : x.row.entity = e /\ x.row.time < time}}
HistoryOf(e, time) ==
    LET newest == SetToSortSeq(InstantsOf(e, time), LAMBDA a, b : a > b)
    IN  [i \in 1 .. Min({SuffixDepth, Len(newest)}) |-> SymbolAt(e, newest[i])]
Transitions(time) ==
    {<<k.row.entity, k.row.time>> : k \in {x \in Known : x.row.time < time}}
Path(row) ==
    LET mine == HistoryOf(row.entity, row.time)
    IN  [d \in 0 .. Len(mine) |->
           [s \in Alphabet |-> Cardinality({x \in Transitions(row.time) :
               /\ SymbolAt(x[1], x[2]) = s
               /\ LET past == HistoryOf(x[1], x[2])
                  IN  Len(past) >= d /\ SubSeq(past, 1, d) = SubSeq(mine, 1, d)})]]

\* What the columns of a row may depend on.
PastOf(row) ==
    [events |-> {[id |-> k.id, age |-> row.time - k.row.time] : k \in Prior(row)},
     gap |-> IF Prior(row) = {} THEN 0 ELSE row.time - Lag1Time(row),
     previous_gap |-> IF Lag2Time(row) = 0 THEN 0 ELSE Lag1Time(row) - Lag2Time(row),
     lag1 |-> At(row, Lag1Time(row)), lag2 |-> At(row, Lag2Time(row)),
     path |-> IF map.rep.tree THEN Path(row) ELSE <<>>]

\* The fact that a column with this name promises about a row with this past.
Promised(name, past) ==
    CASE name[1] \in {"state", "band"} ->
           [kind |-> name[1], channel |-> name[2], scale |-> name[3], of |-> past.events]
      [] name[1] = "gap" -> [kind |-> "gap", of |-> past.gap]
      [] name[1] = "previous_gap" -> [kind |-> "previous_gap", of |-> past.previous_gap]
      [] name[1] = "lag1" -> [kind |-> "lag1", channel |-> name[2], of |-> past.lag1]
      [] name[1] = "lag2" -> [kind |-> "lag2", channel |-> name[2], of |-> past.lag2]
      [] name[1] = "transition" ->
           [kind |-> "transition", channel |-> name[2], of |-> <<past.lag1, past.lag2>>]
      [] OTHER -> [kind |-> name[1], channel |-> name[2], of |-> past.path]

\* fit_transform and transform: the column appended under a name holds that quantity
\* of the events strictly before the row - of its entity, or for the tree of all
\* entities - whether the scan saw them in this call or the map remembered them; a row
\* of the same batch, or of the future, never enters.  The columns and their names
\* agree in number and order and stay within the feature budget.
FactsAreOfStrictPast ==
    facts # NoFacts =>
        LET names == FeatureNames(map.rep, map.scales)
        IN  /\ Len(names) <= MaxFeatures
            /\ \A r \in DOMAIN table :
                  LET past == PastOf(table[r])
                  IN  facts[r] = [i \in DOMAIN names |-> Promised(names[i], past)]
=============================================================================
