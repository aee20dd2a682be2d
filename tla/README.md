# A TLA+ verification project for TabPVN

TabPVN (`src/tabpvn`, `src/core`) is a Python library for tabular prediction. Its
classifier is a gradient booster that configures itself: a chain of searches edits
one configuration, each on evidence from held-out rows. Around the booster stand
auxiliary *evidence members*, each admitted by an out-of-fold gate with a bounded
authority over the predicted class. Tables of dated events get history columns,
when a gate on future windows admits them. Every prediction can be returned with a
proof that a small Horn kernel re-checks, and with certificates over boxes of inputs.

Everything runs in one process. What is hard is not message passing but long staged
procedures that assign dozens of attributes, fail in the middle and are run again;
searches in which every step changes what the next one reads; two halves of the
library (fitting and serving) that must compose the same members in the same order;
rows with equal timestamps; a fixpoint engine that iterates over lists it appends
to; a checker for arbitrary object graphs; and a file that must survive a crash.

The project holds TLA+ modules translated from that code, the TLC configurations
that check them on small instances, and TLAPS proofs of what matters most for
every value of the constants.

## 1. Inventory

| Component | Source | State | Operations | What is hard |
|---|---|---|---|---|
| Evidence admission and serving | `tabpvn/base.py` 2452-4897, 8876-9330 | installed members, permissions, out-of-fold surfaces, `_conf`, `_cal_conf`, `_bal_thr`, `_rare_thr`, gate reports | eight gates, seven final fits, refresh and rollback of the calibration, `predict`, `predict_proba`, `proof` | composition order, partial failure, stale calibration |
| Estimator lifecycle | `tabpvn/base.py` 1518-2213, 8415-8735, 10032-10047 | some forty attributes in groups | `fit` (tables, event tables, graphs), refit, `configure_decisions`, `predict`, `derive` | a fit that raises half way, mixtures of two fits, caches |
| Horn kernel | `core/kernel_fol.py` | strata, facts, provenance, the walk's active set | `_stratify`, `closure`, `proof`, `check_proof` | iteration over growing lists, negation, cyclic proof objects, depth |
| Model store | `tabpvn/model_io.py` | temporary files, destination | `save_model`, `load_model` | crash, power loss, overlapping calls |
| Future validation | `tabpvn/validation.py` | timestamp groups and their order | `bounded_rows`, `split`, `expanding_splits` | ties at every boundary |
| Candidate search | `tabpvn/candidate_allocation.py`, `scenario_validation.py`, `base.py` 5298-5377 | survivors, scores by rung | `_successive_halving`, `allocate_candidates`, `select_final_candidate` | budgets, anchors that must survive |
| Architecture and interaction search | `base.py` 2303-2502, 5379-8397 | `boost`, reports, memo | the `_auto_*` searches | a chain of challenges that edit one configuration |
| Certified booster | `tabpvn/certified_boost.py`, `trees.py` | trees, scores, best round, pair experts | round loop, early stopping, pair growth, refit; bounds, reasons, recourse | rollback to the best round, patience per metric, ties, box edges |
| Temporal evidence | `tabpvn/temporal.py`, `proposers/temporal.py` | per-entity decayed sums, last times, context trees | fit scan, replay, gate | batches of equal timestamps, replay equal to fit |
| Event schema discovery | `tabpvn/event_schema.py`, `base.py` 1835-1994 | candidates, reports | discovery, evaluation, choice | failures of single candidates, shared baselines |
| Evidence proposers | `tabpvn/proposers/*` | count posteriors, affine reads, router contexts | cross-fit evidence | out-of-fold discipline |
| Operating points, confidence | `operating_points.py`, `certified_confidence.py` | thresholds, regions, conformal ranks | fit, read | order in time, ties, small samples |
| Region algebra | `region_algebra.py` | none | simplification of clauses | unseen levels, open and closed ends |
| Preprocessing | `preprocessing.py` | encoders | fit, transform, target encoding | leakage, unseen values |
| Proof artifacts | `proofs.py`, `attestations.py` | none | build, verify, sign | what one check binds together |
| Relational, predicate compiler, induction, residual dynamics, pricing, compression | one file each | fitted maps | fit, transform | bounds, causality |
| Adapters, API, tooling, benchmarks | `adapters.py`, `api.py`, `tools`, `scripts`, `benchmark` | none of their own | composition, input and output | - |

How they interact: `fit` routes to `_fit_automatic`, which may discover an event
schema and call `_fit_event_table`; every route ends in `_fit_predictor`, which
runs preprocessing, the searches, the booster, the calibration and the gates in
one call stack. Every gate takes its holdout from future validation where rows have
timestamps. Serving reads the attributes they left. Proofs and certificates read
the forest; proof artifacts call the Horn kernel. `save_model` pickles the estimator.
`PROJECT.json` lists the components with their status and the hazards with their lines.

Correctness, per component, in a sentence each: what serving composes is what the
gates judged and what the calibration was measured on; a fit that returned serves
only its own state; the closure is the standard model and its provenance checks;
`_stratify` rejects no stratifiable program; `check_proof` accepts exactly derivation
trees and the marker `"root"`; a path always holds one whole model; holdouts lie in the future and never
split a timestamp; baseline and leader survive every allocation; a configuration
comes out as it was measured; the kept forest is the prefix of the record; history
facts come from the strict past, in training and in replay; thresholds and routes
are judged on rows they did not see; certificates hold on every point of their box.

## 2. Modules and their correspondence to the code

**EvidenceAuthority** - the tail of `_fit_predictor` as a sequence of stages: one
action per gate (`NoSignalGate` .. `PriorGate`, each with `Reject`), one per final
fit (`NoSignalFit` .. `AffineFit`), `BuildConfidence`, `Clear` and `Refit`. A
probability matrix is abstracted to its provenance: which members were blended in
and whether its argmax may have left the certified class (`raw`). The statistics
of a gate are a nondeterministic verdict; which permissions it can grant, the
surface it compares with, what it stores and what the exception handler of its
final fit puts back are the code's. The serving half is operators over the
installed members (`ServedBase` .. `ServedRank`, `DecisionTop`, `PublicTop`,
`ProofConcludes`); per row, each surface has a top class (`Votes`) and nothing else.

**ModelLifecycle** - one estimator over several fits. For every group of attributes
that a fit assigns together the module keeps *which fit* assigned it. The actions
are the steps of a fit in order (`Reset`, `StoreGraph`, `Induce`, `RecordWidth`,
`Encode`, `Interact`, `ClearMembers`, `Train`, `Calibrate`, `Admit`, `Attach`), `Raise`
between any two of them, and the serving calls that write state.

**HornClauses**, **Stratification**, **FOLClosure**, composed by **FOLKernel** - the
clause language with its two readers (left-to-right join in `_match`; premises first,
side conditions afterwards in `check_proof`); `_stratify` one dependency at a time
(`Relax`, `NextPass`, `Judge`); the closure loop over ground instances: strata, sweeps,
rules. A sweep of a rule sees the facts it started with and *may* see those added
while it runs, which is what a generator over a growing list does (`Derive`,
`NextRule`). FOLKernel derives the dependencies and the ground instances from the
same clauses and lets the closure run under the strata that the relaxation really
returns (`Construct`, `Call`, `Saturate`).

**ProofChecker** - `_verify_proof` with an explicit stack over a heap of objects that
may be shared, cyclic, malformed, the marker `"root"` or a dictionary around a node.
`Accept` is the early `True` for `"root"`, `Unwrap` the dictionary's `"proof"` entry; the
fact of an object is what a parent reads as `child[0]`, of `"root"` its first character,
of a dictionary its entry under the key 0, whatever was verified below it. `Overflow` is
the interpreter's own limit (`Frames`), which does not depend on `_MAX_PROOF_DEPTH`
(`Limits`). What unification and side conditions let pass (`Checked`) and what the closure
would fire (`Fired`) are parameters, computed by HornClauses in the MC modules.
`base_facts=None` takes every fact for declared: it is the call whose `base` is all of
`Statements`.

**AtomicStore**, **ModelStore** - the promise of `model_io`, and its implementation
step by step (`Create`, `Dump`, `Flush`, `Sync`, `Replace`, `Fail`; `Open`, `Read`) over an
external file system that writes back late, kills processes (`Die`) and loses power.
`ImplementsAtomicStore` is the refinement; a load that read part of a model would map to
the outcome "torn", which the abstract store does not have.

**CandidateSearch**, **ArchitectureSearch**, **BoosterRounds**, composed by
**TrainedFit** - the fit that configures itself. CandidateSearch is the halving search,
one rung per step, with allocation by evidence and by blocks (`Promoted`, `Halve`) and
the return rule (`Deployable`). ArchitectureSearch is the chain in `_fit_predictor`, one
action per `_auto_*` search, each with the code's preconditions on the table and on the
configuration so far; `judged` records what a gate's baseline was fitted with and what
its edit was applied to. BoosterRounds is the round loop: `Begin`, the pair proposal and
its audition (`Slot`, `Heard`), the checkpoint that updates the record of every tracked
metric (`Gain`), the stop, the rollback and the refit. `Train` hands the configuration
to the loop. The gates call the same loop with options of their own, so every fit of
BoosterRounds may also begin by itself.

**SymbolicLayers** - the acceptance rules of the interaction gates as operators: rank
and rule challengers, heads, and the layered binary and threshold programs (plain,
recursive, exception, numeric clauses).

**TemporalReplay**, **EventSchema**, **EventFit**, composed by **TemporalEvidence** - event
tables. EventSchema ranks columns and proposes schemas (`Foremost` is what a sort and a
slice keep); EventFit evaluates one schema after the other, keeps the cache of baselines
as the dict it is, chooses and deploys (`Evaluate`, `CloseRank`, `Deploy`); TemporalReplay
is the map that produces the columns: three scans in tie batches and their continuation
at serving time. Numbers are kept as what determines them: a decayed sum is the set of
events with their ages.

**FutureValidation** - timestamp groups, tie-safe holdouts, bounded rows, expanding
folds, and the window splits that `temporal.py` and `event_schema.py` build on them.
**HeldOutRows** calls those operators on a table with any labels and says which rows may
be fitted, which are measured and which are kept.

**VerifierSplit**, **DecisionEvidence** - row quotas per class of the booster's verifier
(both correction loops round by round); thresholds, routing, quantiles and the paired
verification blocks. **GateDecisions** calls them, and the gates of SymbolicLayers.

**RegionAlgebra**, **ForestCertificates**, **CertificateQueries** - clauses as regions;
forests as arrays of nodes, their packing for serving, the early exit, interval and
graph bounds; robustness, prediction bands, sufficient reasons and recourse as loops
over those bounds. Thresholds are multiples of 8 and rows of 4, so that every cell of a
grid has points inside. **ForestCalls** serves the rows of a packed forest, with and
without the selection of the adaptive depth, and asks which clauses of a stage fire on a
row, for the canonical form of a path, and for unions and differences of intervals.

**Calls** is the frame of the algorithm modules: a state is a call and its answer.
HeldOutRows (`Validate`), GateDecisions (`Decide`) and ForestCalls (`Serve`, `Locate`) have
actions that compute the answer of a call from it, and specifications of their own that
theorems are stated of; MCAlgorithms joins them with the calls of the certificates
(`Certify`) for one run. What may be called is a constant of the module, with assumptions
that say what the callers in `base.py` and `trees.py` guarantee; the calls of a run are in
the MC modules. Two MC modules join components that share no variable, and let one work
while the other is at rest: MCProofChecker the kernel and the checker, MCEstimator the
lifecycle and the store. The `MC*` modules give constants their values; the `*Proofs` modules hold theorems.
Definitions marked as mutants are variants that a plausible slip in the code would
produce; each property is known to fail on one of them.

## 3. Runs

Passing runs:

| Run | Instance | States | What it shows |
|---|---|---|---|
| `evidence_authority` | two classes (symmetric), every kind of table, refits without bound | 43 thousand | calibration, thresholds, gate incumbents, proofs and `predict_proba` agree with what is served, after any verdicts, failures and refits |
| `estimator` | `MaxFits = 3`; two saves, two loads of one path | 31 thousand | no mixture of fits is served, policies do not leak; durability and atomicity of the store |
| `horn_kernel` | five source rule bases; all 6,175 propositional programs of at most three one-atom rules over `p`, `q`, `r` with base fact `p`; proofs of three objects, depth bounds 1 and 2, two frames | 204 thousand | from rules to closure: no stratifiable program is refused, the perfect model, well-founded provenance, every recorded step of a rule in order follows for `check_proof`, and the call ends; exact acceptance and soundness of `check_proof` |
| `temporal_evidence` | five tables, five kinds of measurement per variant, three settings; training tables of up to four rows and served tables of two, with two entities, three times, two marks | 122 thousand | schema search accounting, deployment of what was judged, baselines, and causal facts in training and replay |
| `trained_fit` | nine tables on both sides of each precondition; three candidates, three rungs; fits of three to five rounds, two metrics, two pairs, budget of two auditions | 1.2 million | the chain of configuration edits, halving, the round loop |
| `algorithms` | tables of up to eight rows and four timestamps, two or three classes, two folds; forests of up to six trees over two or three features and a category | 466 thousand | each sequential algorithm against its definition |

Why the bounds are enough. Two labels let any two surfaces agree or disagree on a
row, and the surfaces do not depend on the number of labels. Three fits give a fit
with two predecessors of any kind, one of which failed, and a state of the model
only compares owners with the current fit. Three predicates have every negation
cycle up to length three, and renaming makes `p` any single base fact; the source
rule bases add joins, arithmetic, two strata of negation and rules whose "is" assigns a
variable that a premise bound, with and without a premise behind it. Three objects have a
shared child, a self-reference, a two-cycle behind the root, a path deeper than the
bound, a dictionary in a dictionary and `"root"` beside a proved premise. Two saves overlap in every way that one `os.replace` can be seen; the files of
the saves are disjoint, so a third adds only another predecessor. Four rows and two
served ones give a tie, an earlier and a later batch, an entity that was not seen and
one that is continued. Three candidates and rungs let the leader change and a baseline
come last. Five rounds and a patience of one or two let one metric stop before
another gains; two pairs and two auditions let the budget run out on the second pair.
Eight sorted rows are three expanding folds with ties at both ends of each. Forests of
two and three trees with two thresholds have overlapping cells, cycles in the feature
graph and ties of scores; `TableCap = 6` makes some tables too wide for the exact bound. Components joined in one
run share no variable and only one moves in a behaviour, so the run visits the states of
each and no product.

Several properties quote a text that promises slightly more than the code does; the
properties state what holds and section 5 lists the difference.

Runs that TLC refutes (see `findings` in `PROJECT.json` for the quoted lines):

| Run | Statement of the code | What happens |
|---|---|---|
| `stratification_acceptance` | accepted rule bases are stratified | `p :- q; q :- not p` is accepted with strata p = 2, q = 3: the relaxation ran out of passes |
| `proof_rebinding` | check_proof verifies independently | `h(X) :- a(Y), X is Y + 1, b(X)` is accepted from `a(1), b(5)` |
| `unproved_premise` | the same | the child `"root"` is accepted and read as the premise `r`, so the head of a rule with the body `r()` is accepted without it |
| `partial_temporal` | failures leave no partially fitted temporal model | the predictor is assigned before calibration and gates can raise |
| `stale_closures` | the closures depend only on fixed rules and graph | a refit keeps the cache |
| `lost_layer` | the highest incrementally verified layer is materialised | the compile on all rows lacks the recursive layer, and the exception layer measured over it is deployed |

`CalibrationMatchesServing` and `GatesJudgedServedIncumbent` name the one excluded
composition, `RawSmoothUnderPath` (section 5).

Fairness: `KernelSpec` has weak fairness of `KernelNext`, and `Answers` says that a kernel
that was constructed answers its call. The kernel is a loop of one thread that never
blocks; the assumption says that the interpreter keeps running it. The set of facts of
every rule base is finite: with arithmetic in heads it need not be, and then neither
the code nor the model ends. No other run assumes fairness. `CHECK_DEADLOCK FALSE` is
set where a call returns and nothing is left to do.

## 4. Proofs

Eight modules hold theorems. Each proves `Spec => []IInv` for an inductive invariant and
derives the properties from it, for all constants that satisfy the modules' named
assumptions. Those assumptions say what kind of thing a parameter is (a table is a
sequence of columns, a bound is a number, a call trusts base facts of the language); where one says more, it
is named below with what justifies it. TLC evaluates each of them in the run of its
module. Some theorems are stronger than any run: the properties that only they state are
named as such in the modules.

- **EvidenceAuthorityProofs** - any set of classes. Two invariants. `IInv` is about the
  decision heads: that `_conf` describes the served decisions depends on which
  challengers a surface contains (`SurfaceLayers`), on challengers holding nothing before
  their gate (`UntouchedBeforeGate`), on a permission being held exactly while the member
  is being built or installed (`InstalledAfterFit`, `HeldWhileInstalled`), and on what the
  refreshes wrote last (`ConfidenceFollows`). It gives `TypeOK`,
  `ConfidenceDescribesDecisions`, `OneDecisionHead`, `ProofConcludesServedClass` and
  `PublicAgreesUnlessDecisionOnly`. `ServingInv` is about surfaces: members are admitted in
  one order (`InstalledInOrder`), each leaves the surface that serving will compose
  (`SurfacesAsServed`), was judged on the one below it (`JudgedAsServed`), and the
  calibration and the thresholds move with the last of them (`CalibrationFollows`,
  `ThresholdsFollow`). The step that carries it says that a gate's surface depends only on
  the members below it (`Below`), so a later member, or the handler that withdraws one,
  cannot disturb it. It gives `CalibrationMatchesServing`, `ThresholdsFollowClassChallenger`
  and `GatesJudgedServedIncumbent`; the last is false for `RawSmoothUnderPath`, which is why
  `JudgedOn` makes an exception for the path gate.
- **FOLKernelProofs** - three parts. *Closure*: any facts, any program, also infinite
  ones. `Derivations` says that every added fact has an instance whose premises came
  earlier and whose negated facts are below its stratum; `Closedness` says what a sweep
  without a change owes: the rules before the cursor are closed, and the strata before
  the current one are. Proved: `TypeOK`, `ProvenanceWellFounded`, `NegationStaysValid`,
  `ClosureIsFixpoint` and `ReturnsTheStableModel`: what is returned is the one stable
  model, a statement that mentions neither strata nor order. Uniqueness is by the first
  stratum in which two models differ, so that no induction over derivations is needed.
  *Relaxation*: any finite set of predicates and any dependencies. `ReadAtomsHold` (in a
  pass without a change the dependencies read so far hold) gives `QuietPassSolves`;
  `NeverOvershoots` is inductive by itself. That the passes suffice
  (`StratifiableIsStratified`) needs the least stratification (`Least`, which exists because
  the pointwise minimum of stratifications is one) and a measure: each pass but the last
  settles one more predicate at its least stratum (`Advances`), because otherwise all
  predicates not yet settled could be one lower. *Composition*: the kernel refines the
  relaxation (`KernelRefinesStratification`), what `Call` loads is well stratified, and hence a
  rule base that can be stratified gets its one stable model (`KernelReturnsTheStandardModel`).
  `InstancesHaveDependencies` says that a ground instance has the dependencies of its
  clause, which is how `_stratify` and `_match` read the same clauses; TLC evaluates it for
  all programs of the run.
- **ProofCheckerProofs** - any heap, cyclic ones included, and any bounds. `SafeStack`
  ties the active set and the frames to a path in the heap; `VerifiedIsGrown` says that
  the children already verified lie in every set of nodes and depths that is closed under
  correct steps, which replaces an induction over the proof. `AcceptsExactlyTrees` is proved in both
  directions: a verified root has a height (the least bound under which it is a tree), and
  while the object is a tree the walk stays on its heights and judges no node wrong
  (`Complete`), so it can only accept, or be cut short by the interpreter. Soundness
  (`AcceptedProofsAreSound`) assumes nothing of `Checked` and `Fired`; what the code does not
  guarantee stands in the property. `AcceptedIsDerivable` speaks of calls whose rules in
  force the checker reads as closure does (`ReadersAgree`; `proof_rebinding` shows a rule it
  does not), and derives the conclusion from the trusted facts and from what the
  unverified reading of `"root"` and dictionary children claims (`Claims`; `unproved_premise`
  shows that they cannot be left out). For proofs made of triples alone `Claims` is empty.
- **ModelStoreProofs** - any number of saves and loads. `SyncedIsDurable` and `DestIsSaved`
  carry durability through the rename; the refinement maps every step to a step of
  AtomicStore or a stutter. Proved besides the run's properties: loads are whole, a save
  that fails is invisible and leaves no temporary file.
- **ModelLifecycleProofs** - any number of fits. `Assigned` says, stage by stage, which
  groups the current fit has assigned or cleared.
- **TrainedFitProofs** - three parts. *The round loop* by itself (`RoundsSpec`): any set of
  fits, metrics, integer scores, tolerance, patience and pairs. The loop stores only `best`, `keeps` and
  `bad`; that they summarise the scores is inductive only with the counters (`InStep`: the
  rounds without a record are those after the kept prefix), with the record itself
  (`IsRecord`) and with a reason to go on (`Patient`: some metric has patience left while
  rounds grow). This gives `TypeOK` and `PrefixIsTheRecord`. Pair growth has an invariant of
  its own, `GrowthInv`: the two schedules and the list of decisions tell one story, the
  round that waits for its checkpoint included (`Scheduled`); the counters of every gate are
  the counts and balances of its recorded auditions, and a routing comes after all of them
  (`Earned`); the budget bounds the auditions at the moment a pair is first heard
  (`HeardWithinBudget`); and what is deployed so far has a pair in exactly the slots the
  schedule granted, outside a refit the granted pair itself (`DeployedSoFar`). It
  gives `VerdictsAreEarned` and `ReportIsDeployed`; for the latter, a slot is traced to the
  decision of its round (`SlotsAreEarned`), and the rounds attempted but
  not granted and the decisions that reject are matched one to one.
  *The fit that configures itself* (`Spec`): any tables, candidates, rungs, scores and
  scenario orders. `SearchInv` for the halving: rungs nest and lie within their budgets, and what the return
  rule reads is the last rung. It rests on two lemmas about the model's operators, that
  `Ordered` sorts a finite set and that a promoted prefix keeps the anchors. It gives
  `AnchorsSurvive` and `DeploysOnEqualBudget`. `ArchInv` for the chain of gates: while a gate is
  due, the fields of the configuration that belong to later gates are blank (`InOrder`), and
  the fields set so far agree with one another (`Sound`). It gives
  `EditsJudgedOnConfiguration` and `ConfigurationIsTrainable`. `ChoicesAssumption` says what the
  interaction gates choose among; `GatesChooseSo` proves it of the programs that
  SymbolicLayers accepts, whatever was measured. `FitRefinesRounds` maps every step of the
  composition to a step of the round loop or a stutter, so that the three properties of
  BoosterRounds hold of the configured fit (`DeployedPrefixIsTheRecord`).
  *The gates and the router* of GateDecisions, on folds and evidence of any size:
  `DeploysAtMeasuredCheckpoint`, `DeploysVerifiedLayers` and `RoutesWithoutLeak`. A state is a call
  and its answer (`GatesAnswer`); the layers follow rule by rule, the router's evidence step by
  step (`RouteBySteps`). `DeployedLayersWereVerified` compares the layers the gate chose, and
  follows every family a fold measured into the deployed program: one that is missing was not
  found on all rows (`NothingDropped`), or is a recursive layer of the numeric clauses. That
  the former happens is the finding `lost_layer`.
- **TemporalEvidenceProofs** - any tables, measurements, declared schemas and bounds.
  `ProposalsAreRanked` is a lemma on discovery. `EventInv` says that what is left to try is
  ranked and has not been tried (`SearchOK`), that nothing of a closed rank could have been
  promoted, that every entry was judged on a baseline with its own columns, cached or not
  (`EntriesOK`), and that the winner is of the rank being closed (`ChoiceOK`). That there is a
  winner when there is something to choose follows because the order of candidates, with
  the position as tie break, is a strict total order of a finite set. It gives
  `DeployedAsJudged`, `JudgedAgainstOwnBaseline` and `SearchIsAccounted`.
- **AlgorithmProofs** - the other algorithms of GateDecisions, HeldOutRows and ForestCalls, for
  calls on tables, evidence and forests of any size. A state is a call and its answer
  (`Answering`, `AnsweringTables`, `ServesAnswers`, `LocatesAnswers`), so each theorem rests on lemmas about what
  the operators return. Those are recursive functions, folds and sorts by ranks, and no
  induction theorem can be used; they are handled by least counterexamples:
  `LeastNatural` (every non-empty set of numbers has a least one, from the well-founded
  order of finite sets) gives `Upward` and `Downward` (a set that a number enters after its
  neighbour holds an interval), `RecursionExists` (a recursive definition over an interval
  has a solution, which follows its equation), `TotalRuns` and `TotalJoins` (sums),
  `FlattensByJoining` (folds of joins) and `PlacesAreTaken` (the ranks of a finite total order
  are 1 to its size). Proved with them:
  - *operating points*: `DeploysProspectiveThresholds`; the blocks of `expanding_splits` are
    later than their past (`BlocksAreLater`), and a threshold reads only its rows
    (`ChoosesByItsRows`);
  - *quantile*: `CoversByQuantile`; leaving one score out moves the k-th rank by at most one
    (`KthOfTheOthers`), so the k smallest scores are all covered;
  - *held-out rows*: `HoldsOutTheFuture` and `KeepsRecentTimes`; a cut behind the rows of an
    instant is a cut of the sorted table (`CutsAtInstants`, `InstantsAreChanges`), `split` takes
    the admissible one nearest to its target, windows and folds are successive cuts, and the
    sampled rows are spread over a suffix of whole timestamps with quotas that sum to the
    cap (`QuotasSum`, `SampledRowsKeepNewest`);
  - *early exit*: `ExitsExactly`; scores of successive slices of a forest add up
    (`ScoresJoin`), what the stages behind a checkpoint can add lies between the sums of
    their extreme leaves (`RestBetween`), so a class that stays ahead is the first of the
    greatest scores (`AheadIsFinal`), and each packed layout is a cut into stages (`PacksCut`);
  - *verifier rows*: `KeepsClasses`; quotas stay between the floors and what a class can spare
    through all rounds of trimming and filling (`TrimsOne`, `FillsOne`), and since each round
    moves one row until the target is met or nothing is open, as many rounds as rows are
    enough (`TrimmedFit`, `QuotasFit`); the halves of the quotas are quotas again
    (`HalvesFit`); a verification block takes a row of each class because a class has at
    least as many rows as there are blocks (`BlocksAreFew`, `ClassIsCounted`);
  - *regions*: `KeepsRows`. The domain of a key is what all its literals admit
    (`BoundIsCommon`, `DomainOfKey`), it is written back as at most two bounds or one level set
    (`DomainIsWritten`, where a block that admits the unseen level must become "not in"), and
    the first places of the keys are enough (`FirstKeysSuffice`): so the canonical conjunction
    holds of the same rows (`CanonicalKeepsRows`). The literals on the way to a leaf are those of
    the sides taken (`RegionsBySides`), hence two leaves part at a node and one clause fires
    (`OneClauseFires`). A merge in the order of lower ends keeps the gaps and the points
    (`MergeTakes`, `UnionCoversSpans`), and a difference is cut at the ends of the other interval
    (`DifferenceCutsOut`).

  The assumptions describe the calls: scores of folds are integers (`GatesScoreFolds`,
  `ScoresAreNumbers`), router folds hold out disjoint rows and train on others
  (`RouterFoldsAreHeldOut`: the splits of the memory gates, shuffled folds or expanding
  blocks), tables
  have a time and a label per row (`PointsAreTables`, `CallsAreOfTables`, `BlocksAreOfLabels`,
  `VerifiersAreOfClasses`: every class of a fit has rows), row floors and caps are what the signatures
  and `max(1, ...)` guards admit (`PointSplitsHaveFloors`, `SplitsHaveFloors`, `BlocksHaveFloors`,
  `WindowsHaveFloors`, `BoundsAreCaps`), a miscoverage is between 0 and 1 and there are
  calibration scores (`QuantilesAreOfScores`), and the nodes of a tree come after their
  parent, as the growers append them (`ExitsAreOfForests`); rows have finite numbers in the
  columns a tree splits on, and at most one level of a one-hot block is on
  (`RegionsAreOfRows`).

Only model-checked, and why:

- `Answers` (liveness under fairness) and everything that would mention ENABLED: out of the
  prover's reach.
- `ComputesPerfectModel` and `ClosureProofsCheck`: their references are the recursive
  operators of HornClauses (joins, unification, the perfect model by strata), which a
  module with theorems cannot reach. `ReturnsTheStandardModel` is the proved counterpart of
  the first, without the recursion.
- `FactsAreOfStrictPast`: it compares what three scans over tie batches wrote with a
  definition over the whole table; an inductive proof needs an invariant of TemporalReplay
  that relates every decayed sum to the set of events behind it, batch by batch.
- `CertificatesHold`, `ReasonsAreSufficient` and `RecourseIsLeast`: they quantify over the points
  of boxes and are about recursive bounds over trees and loops that read them
  (intersection of regions, minimisation, enumeration of cells). The lemmas on leaves, sums
  and stages of `ExitsExactly` and those on paths and intervals of `KeepsRows` are the first
  part of such a proof; that the bounds of a box enclose the scores of its points is not
  done.

## 5. Abstractions, deviations, and what is not modelled

Numbers are abstracted where they are statistics: a gate's verdict, a candidate's score
or a gain is drawn from a small set that reaches both sides of every comparison. They
are exact integers where arithmetic is the point (row counts, quotas, ranks, scores of
small forests). Fits inside a gate are one step. ModelLifecycle has one caller at a time
(`_last_decision` is shared by threads in the code) and begins an event fit after its
metadata was accepted. The thread pool of candidate fits (`base.py:313`) is taken in
submission order. ArchitectureSearch leaves out native categorical nodes
(`_native_categorical`, off by default and set by research scripts only).
TemporalReplay has no decay weights and no caps on the number of entities.

Behaviour met while modelling that differs from a text, or that a reader of the code
would not expect, and that no run refutes:

- With smooth and path members and no category member the path member is served on a
  surface whose argmax the smooth blend moved, while its gate judged it on the projected
  surface (`base.py:8946-8974`; the comment at 8960 says they match).
- `check_proof` takes three interpreter frames per level, so `RecursionError` escapes for
  proofs deeper than about 330 and shallower than 512 (`kernel_fol.py:341`).
- `certified_robustness` (`certified_boost.py:2065`) and `predict_interval` (1470) bound the
  box (x - delta, x + delta]: its left edge belongs to other cells when it is a threshold.
- `sufficient_reason` is described as always certified; with categorical nodes or linear
  leaves the interval bounds can be too weak, and it then reports a reason without one.
- The refit with verifier-gated pairs proposes pairs from its own residuals per granted slot
  (`trees.py:4482`), so a slot may go to a pair the audition rejected or never heard, and the
  report still gives `verified_pair_expert` as the reason (`base.py:2516`). No text says whose
  pair is meant; `ReportIsDeployed` is therefore about slots.
- The kernel builds proofs that `check_proof` refuses: of rules with a premise behind a side
  condition that assigns or reads its variable, as `h(X) :- a(X), X is X + 1, b(X)`, and
  proofs deeper than 512. `ClosureProofsCheck` is about rules in order (`InOrder`) and about
  one step of a proof.
- Auditions under way are finished after the budget is spent, so their total can exceed
  `_PAIR_EXPERT_MAX_TOTAL_AUDITIONS` by those.
- A metric's kept prefix depends on which other metrics are tracked: the loop ends when all
  have lost patience, and a late gain of one counts.
- After the refit on all rows, `_auto_interactions` can lose the recursive layer and keep the
  exception layer that was measured above it (`base.py:7597-7604`: the run `lost_layer`), and
  in the same way the plain predicates below either; in the threshold variant a recursive
  layer that only the threshold mapper has does not guard the exception layer.
- A late failure of the wide screen leaves the search on the screened pool and the final fit
  on all columns; `base.py:6452` overwrites the booster report of the earlier gates.
- The independent calibration split of the verifier falls back to cross-fitting without
  a holdout when a class cannot be on both sides (`trees.py:3470`).
- Automatic event discovery samples rows; a value outside the sample that does not parse
  as a time raises in the deployed fit, which then becomes an ordinary fit.
- Expanding folds can be fewer than exist, because end points are chosen greedily
  (`validation.py:236-250`); no fold is wrong.
- The path index fails closed and its report keeps saying selected (`base.py:2682`).
- `monotone_` is assigned by self-configured regression fits only (`base.py:2430`): a refit as
  a classifier keeps the earlier map.
- The conformal rank is clipped to the sample (`certified_confidence.py:64`), so samples
  smaller than 1/alpha cover less than 1 - alpha.

Not modelled, with the reason:

- Preprocessing, predicate compiler, relational compiler, rule induction, pricing and
  Bayesian updates, compression evidence: column-wise or real-valued computations of one
  call, with no state between steps and no order a caller can disturb; what they get
  right or wrong is numeric.
- Split finding, histogram binning and leaf values in `trees.py`, the kernels of the
  posterior and affine proposers, and the tree fit of `certified_confidence.py`: the same.
- Proof artifacts and attestations: canonical byte encodings, digests and signatures, which
  a model would take as given; the kernel check they call is modelled.
- Adapters, decision API, release tooling and benchmarks: thin composition and input or
  output without program state.

## 6. Plan

All components with control worth modelling have a module, and each safety invariant of
a component with steps has a theorem, but for those listed at the end of section 4. What
is left:

1. `FactsAreOfStrictPast` of TemporalReplay, by an invariant over its batches instead of a
   statement about the result of its scans;
2. the certificates: that the interval and graph bounds of a box enclose the scores of its
   points follows from `ValueIsALeaf` and `ScoresJoin` once the leaves that a box can reach are
   characterised; sufficient reasons and recourse follow from the bounds;
3. one module for the lemmas on orders and extremes that TrainedFitProofs,
   TemporalEvidenceProofs and AlgorithmProofs need.
