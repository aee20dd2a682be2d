------------------------------ MODULE EventFit ------------------------------
(***************************************************************************)
(* Fitting an event table: automatic discovery and the choice among schema *)
(* proposals (TabPVN._fit_automatic), the future-window gate that compares *)
(* up to three representations of the history with the raw table           *)
(* (TemporalEvidenceChallenger.evaluate), and the deployment of what the   *)
(* gate admitted (_fit_event_table).                                       *)
(*                                                                         *)
(* A measurement stands for two fitted boosters scored on the future       *)
(* windows: gains over the raw table are small integers, in units of the   *)
(* practical minimum; a window without all classes has no gain.            *)
(***************************************************************************)
EXTENDS EventSchema, FiniteSetsExt

CONSTANTS EventTables,     \* tables: sequences of columns
          Measurements,    \* task -> measurements a variant may come out with
          Settings,        \* [context, tree]: the estimator's temporal switches
          Explicit,        \* schemas a caller may declare: [entity, timestamp, values]
          Practical,       \* _*_MIN_PRACTICAL_GAIN
          Legacy,          \* _CLASSIFICATION_MIN_GAIN, _REGRESSION_MIN_RELATIVE_GAIN
          Incremental,     \* _CONTEXT_*_MIN_*_GAIN
          MaxForwardLoss   \* _REGRESSION_MAX_FORWARD_LOSS

Tasks == {"classification", "regression"}

ASSUME TablesAssumption == EventTables \subseteq Seq(Column)

ASSUME GainsAssumption ==
    /\ Legacy \in Int
    /\ \A t \in Tasks : \A m \in Measurements[t] : m.gain \in Int

VARIABLES frame,      \* the columns of the table
          unseen,     \* a row outside the discovery sample lacks an entity or a time
          task, settings,
          source,     \* "automatic" or "explicit": who declared the schema
          proposals,  \* candidates that were not tried yet, in rank order
          cache,      \* gate_samples: timestamp column -> baseline, of those cached
          evaluated,  \* [candidate, evidence, margin, eligible] of the present rank
          reports,    \* [candidate, selected, reason, evidence] of the closed ranks
          selected,   \* the promoted candidate with its evidence, or None
          deployed,   \* what the event fit installed, or None
          phase       \* "search", "deploy", "ordinary", "fitted", "raised"
eventVars == <<frame, unseen, task, settings, source, proposals, cache, evaluated,
          reports, selected, deployed, phase>>

None == [none |-> TRUE]
Failed == [failed |-> TRUE]
MinusInfinity == -1000

-----------------------------------------------------------------------------
(* The verdict on one representation: _classification_gate, _regression_gate *)

Evaluated(m) == {w \in DOMAIN m.windows : m.windows[w] # None}
Passed(m) ==
    {w \in Evaluated(m) : m.windows[w].gain > 0 /\
                          (task = "classification" => m.windows[w].safe = 2)}

ForwardConsistent(m) ==
    /\ Cardinality(Evaluated(m)) >= 2
    /\ Cardinality(Passed(m)) >= Cardinality(Evaluated(m)) \div 2 + 1

\* No window may lose twice the tolerated safeguard, or more than the forward loss.
NoSevereLoss(m) ==
    /\ Cardinality(Evaluated(m)) >= 2
    /\ \A w \in Evaluated(m) :
          IF task = "classification" THEN m.windows[w].safe >= 1
          ELSE m.windows[w].gain >= -MaxForwardLoss

\* In the order in which _rejection_reason looks at them.
Checks(m) ==
    << <<"practical_gain", m.gain >= Practical>>,
       <<"overall_safeguard", task = "classification" => m.safe>>,
       <<"forward_consistency", ForwardConsistent(m)>>,
       <<"forward_severe_safeguard", NoSevereLoss(m)>>,
       <<"confidence_or_legacy_gain", m.lower = "positive" \/ m.gain >= Legacy>> >>

Decision(m) == [m |-> m, selected |-> \A i \in DOMAIN Checks(m) : Checks(m)[i][2]]

RejectionReason(m) ==
    LET failed == {i \in DOMAIN Checks(m) : ~Checks(m)[i][2]} IN Checks(m)[Min(failed)][1]

\* _automatic_event_margin
Margin(evidence) ==
    IF evidence.decision = None THEN MinusInfinity
    ELSE LET m == evidence.decision.m
             confidence == CASE m.lower = "none" -> MinusInfinity
                             [] m.lower = "negative" -> -1
                             [] OTHER -> 1
         IN  Max({confidence, m.gain - Legacy})

-----------------------------------------------------------------------------
(* The choice of a representation: evaluate *)

\* _incremental_context_win: a richer representation replaces an accepted one only if
\* it gains over it overall and on most windows, and loses on none.
IncrementalWin(incumbent, candidate) ==
    LET both   == Evaluated(incumbent.m) \cap Evaluated(candidate.m)
        delta(w) == candidate.m.windows[w].gain - incumbent.m.windows[w].gain
        required == Max({1, (Cardinality(both) + 1) \div 2})
        stable == /\ both # {}
                  /\ Cardinality({w \in both : delta(w) > 0}) >= required
                  /\ \A w \in both : delta(w) >= -Incremental
    IN  /\ candidate.selected
        /\ \/ ~incumbent.selected
           \/ candidate.m.gain - incumbent.m.gain >= Incremental /\ stable

ConsiderContext(values) == settings.context /\ values # <<>>
ConsiderTree(values) == settings.tree /\ ConsiderContext(values)

\* What the gate may see: the whole report fails, or each considered variant is
\* measured; a richer variant may fail on its own.
Outcomes(values) ==
    {[gate |-> g] : g \in {"raises", "ineligible", "ineligible_after_baseline"}}
    \cup [gate : {"measured"},
          laplace : Measurements[task],
          context : IF ConsiderContext(values) THEN Measurements[task] \cup {Failed} ELSE {Failed},
          tree : IF ConsiderTree(values) THEN Measurements[task] \cup {Failed} ELSE {Failed}]

Challenge(chosen, name, measured) ==
    IF measured # Failed /\ IncrementalWin(chosen.decision, Decision(measured))
    THEN [name |-> name, decision |-> Decision(measured)] ELSE chosen

Chosen(o) ==
    Challenge(Challenge([name |-> "laplace", decision |-> Decision(o.laplace)],
                        "laplace_context", o.context),
              "laplace_context_tree", o.tree)

\* Mutant: the entity is left out of every baseline, the shared ones included.
BaselineWithoutEntity(schema, drop) == [timestamp |-> schema.timestamp, dropped |-> schema.entity]

\* The raw table both boosters are compared with: which rows, which columns.
Baseline(schema, drop) ==
    [timestamp |-> schema.timestamp, dropped |-> IF drop THEN schema.entity ELSE 0]

\* The report of evaluate; the baseline comes from the cache when there is one.
Report(schema, drop, o, cached) ==
    LET measured == o.gate = "measured"
        c == IF measured THEN Chosen(o) ELSE [name |-> "raw", decision |-> None]
        won == measured /\ c.decision.selected
    IN  [schema |-> schema, drop |-> drop,
         baseline |-> IF cached # None THEN cached ELSE Baseline(schema, drop),
         selected |-> won, representation |-> c.name,
         context |-> c.name \in {"laplace_context", "laplace_context_tree"},
         tree |-> c.name = "laplace_context_tree",
         reason |-> IF won THEN "" ELSE IF measured THEN RejectionReason(c.decision.m) ELSE o.gate,
         decision |-> c.decision]

-----------------------------------------------------------------------------
(* Automatic search over the proposals *)

\* The next proposal belongs to the rank that is being evaluated.
RankOpen ==
    /\ proposals # <<>>
    /\ \A i \in DOMAIN evaluated : evaluated[i].candidate.rank = Head(proposals).rank

Cached(key) == IF key \in DOMAIN cache THEN cache[key] ELSE None

\* One challenger.evaluate call; any exception becomes a rejecting report.
Evaluate ==
    /\ phase = "search" /\ source = "automatic"
    /\ RankOpen
    /\ \E o \in Outcomes(Head(proposals).values) :
          LET candidate == Head(proposals)
              key    == candidate.timestamp
              report == Report(candidate, FALSE, o, Cached(key))
          IN  /\ evaluated' = Append(evaluated,
                    [candidate |-> candidate, evidence |-> report, margin |-> Margin(report),
                     eligible |-> report.selected /\ Margin(report) >= 0])
              /\ cache' = IF o.gate \in {"measured", "ineligible_after_baseline"}
                          THEN [k \in DOMAIN cache \cup {key} |->
                                  IF k = key THEN report.baseline ELSE cache[k]]
                          ELSE cache
    /\ proposals' = Tail(proposals)
    /\ UNCHANGED <<frame, unseen, task, settings, source, reports, selected, deployed, phase>>

\* max() keeps the first of equals: margin, then structural score, then fewer values.
Better(a, b) ==
    \/ a.margin > b.margin
    \/ a.margin = b.margin /\ a.candidate.score > b.candidate.score
    \/ /\ a.margin = b.margin /\ a.candidate.score = b.candidate.score
       /\ Len(a.candidate.values) < Len(b.candidate.values)

Promoted == {i \in DOMAIN evaluated : evaluated[i].eligible}
\* Mutant: the first eligible proposal of the rank is promoted.
FirstEligible == CHOOSE i \in Promoted : \A j \in Promoted : i <= j

Winner == CHOOSE i \in Promoted :
            \A j \in Promoted \ {i} : Better(evaluated[i], evaluated[j]) \/
                                      (i < j /\ ~Better(evaluated[j], evaluated[i]))

\* After the last candidate of a rank: promote the best eligible one, write the
\* reports, and stop at the first rank that promoted.
CloseRank ==
    /\ phase = "search" /\ source = "automatic"
    /\ ~RankOpen
    /\ selected' = IF Promoted = {} THEN None ELSE evaluated[Winner]
    /\ reports' = reports \o
          [i \in DOMAIN evaluated |->
              LET e == evaluated[i]
                  isSelected == selected' # None /\ e.candidate = selected'.candidate
              IN  [candidate |-> e.candidate, evidence |-> e.evidence, selected |-> isSelected,
                   reason |-> IF isSelected THEN ""
                              ELSE IF e.eligible THEN "lower_scoring_schema_candidate"
                              ELSE IF e.evidence.selected THEN "automatic_schema_search_margin"
                              ELSE e.evidence.reason]]
    /\ evaluated' = <<>>
    /\ phase' = IF Promoted # {} THEN "deploy"
                ELSE IF proposals = <<>> THEN "ordinary" ELSE "search"
    /\ UNCHANGED <<frame, unseen, task, settings, source, proposals, cache, deployed>>

\* A declared schema goes to the same gate, without the entity column, and is fitted
\* as an event table whatever the gate says.
EvaluateExplicit ==
    /\ phase = "search" /\ source = "explicit"
    /\ \E o \in Outcomes(Head(proposals).values) :
          LET report == Report(Head(proposals), TRUE, o, None)
          IN  IF o.gate = "raises"
              THEN phase' = "raised" /\ UNCHANGED selected
              ELSE /\ phase' = "deploy"
                   /\ selected' = [candidate |-> Head(proposals), evidence |-> report]
    /\ UNCHANGED <<frame, unseen, task, settings, source, proposals, cache, evaluated,
                   reports, deployed>>

-----------------------------------------------------------------------------
(* Deployment *)

\* Mutant: the configured channels are deployed, whichever of them the report judged.
ConfiguredRepresentation(report) ==
    IF ~report.selected THEN "raw"
    ELSE IF settings.tree THEN "laplace_context_tree"
    ELSE IF settings.context THEN "laplace_context" ELSE "laplace"

\* Rebuilt from flags of the report.
Representation(report) ==
    LET context == settings.context /\ report.context
        tree    == settings.tree /\ context /\ report.tree
    IN  IF ~report.selected THEN "raw"
        ELSE IF tree THEN "laplace_context_tree"
        ELSE IF context THEN "laplace_context" ELSE "laplace"

\* _fit_event_table: the timestamps and entities of the whole table are parsed here.
Deploy ==
    /\ phase = "deploy"
    /\ IF unseen
       THEN phase' = "raised" /\ UNCHANGED deployed
       ELSE /\ phase' = "fitted"
            /\ deployed' =
                 [schema |-> selected.candidate,
                  representation |-> Representation(selected.evidence),
                  dropped |-> IF source = "explicit" THEN selected.candidate.entity ELSE 0]
    /\ UNCHANGED <<frame, unseen, task, settings, source, proposals, cache, evaluated,
                   reports, selected>>

\* No schema was promoted: the table is fitted as it is, with the reports attached.
OrdinaryFit ==
    /\ phase = "ordinary"
    /\ phase' = "fitted"
    /\ UNCHANGED <<frame, unseen, task, settings, source, proposals, cache, evaluated,
                   reports, selected, deployed>>

EventInit ==
    /\ frame \in EventTables /\ unseen \in BOOLEAN
    /\ task \in Tasks /\ settings \in Settings
    /\ source \in {"automatic", "explicit"}
    /\ IF source = "automatic" THEN proposals = Discover(frame)
       ELSE \E schema \in Explicit :
              /\ {schema.entity, schema.timestamp} \cup Range(schema.values) \subseteq DOMAIN frame
              /\ TimestampEligible(frame[schema.timestamp])
              /\ EntityEligible(frame[schema.entity])
              /\ proposals = <<schema>>
    /\ cache = <<>>
    /\ evaluated = <<>> /\ reports = <<>> /\ selected = None /\ deployed = None
    /\ phase = IF proposals = <<>> THEN "ordinary" ELSE "search"

EventNext == Evaluate \/ CloseRank \/ EvaluateExplicit \/ Deploy \/ OrdinaryFit

-----------------------------------------------------------------------------
(* Properties *)

\* _fit_event_table rebuilds from three flags of the report which representation to
\* deploy, and drops the entity or not on its own: what is deployed is the schema and
\* representation whose own measurement passed every check against the raw table,
\* on a baseline with the same columns; otherwise the raw table is fitted.
DeployedAsJudged ==
    deployed # None =>
        LET e == selected.evidence
        IN  /\ deployed.schema = e.schema
            /\ deployed.dropped = e.baseline.dropped
            /\ deployed.representation =
                  IF e.selected THEN e.representation ELSE "raw"
            /\ e.selected => \A i \in 1 .. 5 : Checks(e.decision.m)[i][2]

\* gate_samples caches one baseline per timestamp column although the proposals differ
\* in entity and values: every candidate is judged against the raw table it would be
\* compared with alone.
JudgedAgainstOwnBaseline ==
    LET all == Range(evaluated) \cup Range(reports)
    IN  \A e \in all : e.evidence.baseline = Baseline(e.candidate, FALSE)

\* The search ends with a report for every proposal it tried: one is marked selected
\* exactly when an event table is fitted automatically, nothing of its rank had a
\* larger margin, and nothing of an earlier rank was eligible.
SearchIsAccounted ==
    source = "automatic" /\ phase \in {"deploy", "ordinary", "fitted", "raised"} =>
        LET won == {i \in DOMAIN reports : reports[i].selected}
        IN  /\ Cardinality(won) = (IF selected = None THEN 0 ELSE 1)
            /\ \A i \in DOMAIN reports : reports[i].selected \/ reports[i].reason # ""
            /\ \A w \in won, i \in DOMAIN reports :
                  LET fit == reports[i].evidence.selected /\ Margin(reports[i].evidence) >= 0
                  IN  /\ reports[i].candidate.rank <= reports[w].candidate.rank
                      /\ fit => /\ reports[i].candidate.rank = reports[w].candidate.rank
                                /\ Margin(reports[i].evidence) <= Margin(reports[w].evidence)
            /\ deployed # None => selected # None
=============================================================================
