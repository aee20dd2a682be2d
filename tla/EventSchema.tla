---------------------------- MODULE EventSchema ----------------------------
(***************************************************************************)
(* Discovery of entity-event semantics (src/tabpvn/event_schema.py): which *)
(* columns of a table may be its timestamp, its entity and its marked      *)
(* values, ranked without labels.  A column is what the tests of the code  *)
(* distinguish about it in the bounded sample of rows that discovery sees: *)
(*   dtype    "datetime", "text", "integer", "float" or "bool"             *)
(*   tname, ename, vname   the scores of its name, 0 to 2, 0 to 2, 0 or 1  *)
(*   parses   every sampled value is a time, and there are three of them   *)
(*   repeats  enough rows belong to groups of three or more                *)
(*   spread   three finite values or more, not all zero, few missing       *)
(*   whole    integer-valued                                               *)
(*   rank     what else its score depends on, as a number                  *)
(* Scores are integers: halves and logarithms are in rank.                 *)
(***************************************************************************)
EXTENDS Integers, Sequences, FiniteSets, SequencesExt

CONSTANTS MaxTimestamps,   \* _MAX_TIMESTAMP_CANDIDATES
          MaxPairs         \* _MAX_ENTITY_PAIRS

Column == [dtype : {"datetime", "text", "integer", "float", "bool"},
           tname : 0 .. 2, ename : 0 .. 2, vname : 0 .. 1, parses : BOOLEAN, repeats : BOOLEAN,
           spread : BOOLEAN, whole : BOOLEAN, rank : Nat]

ASSUME BoundsAssumption == MaxTimestamps \in Nat /\ MaxPairs \in Nat

\* The first n members of a finite set in a strict order: a sort, then a slice.
Foremost(S, n, before) ==
    [k \in 1 .. Min({n, Cardinality(S)}) |->
        CHOOSE x \in S : Cardinality({y \in S : <<y, x>> \in before}) = k - 1]

-----------------------------------------------------------------------------
TimestampEligible(c) ==
    /\ c.parses
    /\ c.dtype = "datetime" \/ (c.tname > 0 /\ c.dtype = "text")

TimestampScore(c) == (IF c.dtype = "datetime" THEN 3 ELSE 1) + c.tname

Timestamps(table) == {i \in DOMAIN table : TimestampEligible(table[i])}

\* Column numbers of the best timestamp candidates; ties go to the leftmost column.
TimestampCandidates(table) ==
    LET score(i) == TimestampScore(table[i])
    IN  Foremost(Timestamps(table), MaxTimestamps,
                 {e \in Timestamps(table) \X Timestamps(table) :
                     score(e[1]) > score(e[2]) \/ (score(e[1]) = score(e[2]) /\ e[1] < e[2])})

\* A float column is an entity only if it is integer-valued; times and flags never are.
EntityEligible(c) ==
    c.dtype \in {"integer", "text"} \/ (c.dtype = "float" /\ c.whole)

\* _entity_pair_score: None unless the column groups enough rows.
PairScore(table, i, t) ==
    table[i].rank + 2 * table[i].ename + TimestampScore(table[t])

\* The columns that may be the entity of a timestamp candidate.
Pairable(table) ==
    {p \in (DOMAIN table) \X Range(TimestampCandidates(table)) :
        p[1] # p[2] /\ EntityEligible(table[p[1]]) /\ table[p[1]].repeats}

Pairs(table) ==
    LET score(p) == PairScore(table, p[1], p[2])
    IN  Foremost(Pairable(table), MaxPairs,
                 {e \in Pairable(table) \X Pairable(table) :
                     \/ score(e[1]) > score(e[2])
                     \/ score(e[1]) = score(e[2]) /\ e[1][2] < e[2][2]
                     \/ score(e[1]) = score(e[2]) /\ e[1][2] = e[2][2] /\ e[1][1] < e[2][1]})

\* _marked_values: the best numeric column, and the second if its name says it is one.
Markable(table, entity, timestamp) ==
    {i \in DOMAIN table \ {entity, timestamp} :
        /\ table[i].dtype \in {"integer", "float"}
        /\ table[i].ename < 2
        /\ table[i].spread
        /\ table[i].vname > 0 \/ ~table[i].whole}

MarkedValues(table, entity, timestamp) ==
    LET columns  == Markable(table, entity, timestamp)
        score(i) == 2 * table[i].vname + table[i].rank
        best     == Foremost(columns, 2,
                             {e \in columns \X columns :
                                 \/ score(e[1]) > score(e[2])
                                 \/ score(e[1]) = score(e[2]) /\ e[1] < e[2]})
    IN  IF Len(best) = 2 /\ table[best[2]].vname = 0 THEN <<best[1]>> ELSE best

\* discover_event_schemas: the pairs in rank order, the first also with marked values.
Discover(table) ==
    LET pairs == Pairs(table)
        Schema(k, values) ==
            [entity |-> pairs[k][1], timestamp |-> pairs[k][2], values |-> values,
             rank |-> k - 1, score |-> PairScore(table, pairs[k][1], pairs[k][2])]
        marked == MarkedValues(table, pairs[1][1], pairs[1][2])
    IN  IF pairs # <<>> /\ marked # <<>>
        THEN <<Schema(1, <<>>), Schema(1, marked)>> \o
                 [k \in 1 .. Len(pairs) - 1 |-> Schema(k + 1, <<>>)]
        ELSE [k \in 1 .. Len(pairs) |-> Schema(k, <<>>)]
=============================================================================
