--------------------------- MODULE SymbolicLayers ---------------------------
(***************************************************************************)
(* What the interaction gates of TabPVN deploy, given what they measured:  *)
(* the rare-event gate (_auto_rare_interactions), the multiclass gate      *)
(* (_auto_multiclass_interactions), the binary gate (_auto_interactions)   *)
(* and the threshold gate (_auto_threshold_interactions).                  *)
(*                                                                         *)
(* A score is a number of thousandths, evidence a score per fold.  A       *)
(* compiled program is the set of families of its predicates: "plain",     *)
(* "recursive" (binary_recursive_dnf), "exception" (binary_exception) and  *)
(* "threshold".  A measured candidate is named by its families, or by the  *)
(* checkpoint and head it was scored with.                                 *)
(***************************************************************************)
EXTENDS Integers, Sequences, FiniteSets, SequencesExt, FiniteSetsExt

CONSTANTS FoldGain,     \* least gain in every fold of a shared workspace
          MeanGain,     \* least mean gain there
          ScreenLoss    \* largest fold loss the residual head may show

SumOf(scores) == FoldSeq(LAMBDA s, sum : s + sum, 0, scores)

\* candidate - baseline, per fold
Deltas(candidate, baseline) == [i \in DOMAIN baseline |-> candidate[i] - baseline[i]]

\* ClassificationEvidenceWorkspace.accepts: every fold and the mean must gain.
Accepts(candidate, baseline) ==
    LET d == Deltas(candidate, baseline)
    IN  /\ d # <<>>
        /\ \A i \in DOMAIN d : d[i] >= FoldGain
        /\ SumOf(d) >= MeanGain * Len(d)

\* The gates of binary programs ask for a gain in every fold and a mean one.
Wins(candidate, lower, mean) ==
    LET d == Deltas(candidate, lower)
    IN  /\ Len(candidate) = Len(lower)
        /\ \A i \in DOMAIN d : d[i] > 0
        /\ SumOf(d) >= mean * Len(d)

\* A choice: what is deployed, and the measured candidate it was chosen for.
Nothing == [metric |-> "own", head |-> FALSE, families |-> {}, measured |-> "baseline"]

-----------------------------------------------------------------------------
(* Rare events: e has the fold scores baseline, rank and rules, and          *)
(*   capable   the rare class is the last one, so that average precision     *)
(*             can choose the checkpoint                                     *)
(*   full      the rule program of all rows has predicates                   *)
(*   failed    the evaluation of the rules raised                            *)

RareRank(e) == e.capable /\ Accepts(e.rank, e.baseline)

RareRules(e) ==
    /\ e.full /\ ~e.failed
    /\ Accepts(e.rules, e.baseline)
    /\ Accepts(e.rules, IF RareRank(e) THEN e.rank ELSE e.baseline)

\* Mutant: the checkpoint the rules were scored at is not deployed with them.
RareMetricOfRank(e) == IF RareRank(e) THEN "rank" ELSE "own"

RareMetric(e) == IF e.capable /\ (RareRank(e) \/ RareRules(e)) THEN "rank" ELSE "own"

RareProgram(e) ==
    [metric   |-> RareMetric(e),
     head     |-> FALSE,
     families |-> IF RareRules(e) THEN {"plain"} ELSE {},
     measured |-> IF RareRules(e) THEN "rules" ELSE IF RareRank(e) THEN "rank" ELSE "baseline"]

\* Rules are scored at the rank checkpoint when there is one.
RareMeasuredMetric(e, candidate) ==
    IF candidate = "rank" \/ (candidate = "rules" /\ e.capable) THEN "rank" ELSE "own"

-----------------------------------------------------------------------------
(* Multiclass: e has the fold scores baseline, rank, head and rules, full,   *)
(* and failed: which evaluation raised, "none", "head" or "rules".           *)

MultiRank(e) == Accepts(e.rank, e.baseline)

\* The screen that opens the dearer evaluation of the rules.
HeadScreen(e) ==
    LET d == Deltas(e.head, e.baseline)
    IN  /\ e.full /\ e.failed # "head"
        /\ \A i \in DOMAIN d : d[i] >= -ScreenLoss
        /\ SumOf(d) >= 0

\* The residual head, scored at the booster's own checkpoint.
MultiHead(e) ==
    /\ e.full /\ e.failed # "head"
    /\ Accepts(e.head, e.baseline)
    /\ ~MultiRank(e)

MultiRules(e) ==
    /\ HeadScreen(e) /\ e.failed # "rules"
    /\ Accepts(e.rules, e.baseline)
    /\ Accepts(e.rules, CASE MultiHead(e) -> e.head
                          [] ~MultiHead(e) /\ MultiRank(e) -> e.rank
                          [] OTHER -> e.baseline)

MultiProgram(e) ==
    LET head == MultiHead(e) /\ ~MultiRules(e)
    IN  [metric   |-> IF MultiRank(e) \/ MultiRules(e) THEN "rank" ELSE "own",
         head     |-> head,
         families |-> IF MultiRules(e) \/ head THEN {"plain"} ELSE {},
         measured |-> CASE MultiRules(e) -> "rules"
                        [] ~MultiRules(e) /\ head -> "head"
                        [] ~MultiRules(e) /\ ~head /\ MultiRank(e) -> "rank"
                        [] OTHER -> "baseline"]

MultiMeasuredMetric(candidate) == IF candidate \in {"rank", "rules"} THEN "rank" ELSE "own"

-----------------------------------------------------------------------------
(* Binary programs: a fold has base, the score of the booster, families, of *)
(* the program compiled on its fit side, and the scores plain, recursive    *)
(* and exception of the program cut to the families up to that one; full is *)
(* the set of families of the program compiled on all rows.                 *)

FoldsOf(e) == DOMAIN e.folds
BaseScores(e) == [i \in FoldsOf(e) |-> e.folds[i].base]

\* A layer a fold does not have scores as the one below.
PlainScore(f) == IF "plain" \in f.families THEN f.plain ELSE f.base
RecursiveScore(f) == IF "recursive" \in f.families THEN f.recursive ELSE PlainScore(f)
ExceptionScore(f) == IF "exception" \in f.families THEN f.exception ELSE RecursiveScore(f)

PlainScores(e) == [i \in FoldsOf(e) |-> PlainScore(e.folds[i])]
RecursiveScores(e) == [i \in FoldsOf(e) |-> RecursiveScore(e.folds[i])]
ExceptionScores(e) == [i \in FoldsOf(e) |-> ExceptionScore(e.folds[i])]

Seen(e, family) == \E i \in FoldsOf(e) : family \in e.folds[i].families
Complete(e, family) == \A i \in FoldsOf(e) : family \in e.folds[i].families

\* The layers that beat the next lower layer that was kept.
PlainKept(e) == Wins(PlainScores(e), BaseScores(e), 3)

AbovePlain(e) == IF PlainKept(e) THEN PlainScores(e) ELSE BaseScores(e)

RecursiveKept(e) ==
    /\ Complete(e, "recursive")
    /\ Wins(RecursiveScores(e), AbovePlain(e), 2)

AboveRecursive(e) == IF RecursiveKept(e) THEN RecursiveScores(e) ELSE AbovePlain(e)

\* Mutant: the exceptions are compared with the booster alone.
ExceptionKeptOverBase(e) ==
    /\ Complete(e, "exception")
    /\ Seen(e, "recursive") => RecursiveKept(e)
    /\ Wins(ExceptionScores(e), BaseScores(e), 2)

ExceptionKept(e) ==
    /\ Complete(e, "exception")
    /\ Seen(e, "recursive") => RecursiveKept(e)
    /\ Wins(ExceptionScores(e), AboveRecursive(e), 2)

Kept(e) == (IF PlainKept(e) THEN {"plain"} ELSE {})
             \cup (IF RecursiveKept(e) THEN {"recursive"} ELSE {})
             \cup (IF ExceptionKept(e) THEN {"exception"} ELSE {})

\* _symbolic_program_layer: all families but the optional ones that were not kept
Layer(families, kept) == families \ ({"recursive", "exception"} \ kept)

\* The program of all rows: a family it does not have is no longer selected, and the
\* rest is deployed.
BinaryProgram(e) ==
    LET kept     == Kept(e) \ ({"recursive", "exception"} \ e.full)
        layer    == Layer(e.full, kept)
        selected == kept # {} /\ layer # {} /\ \A i \in FoldsOf(e) : e.folds[i].families # {}
    IN  [metric |-> "own", head |-> FALSE,
         families |-> IF selected THEN layer ELSE {},
         measured |-> IF selected THEN kept ELSE {}]

-----------------------------------------------------------------------------
(* Threshold programs: a fold has besides threshold, the families of the    *)
(* program with numeric clauses, or {} if there are none or the compiler    *)
(* raised, and the scores clauses, recursiveClauses and exceptionClauses;   *)
(* fullThreshold is the program of all rows with numeric clauses.           *)

\* The scores of a layer, if every fold has it over plain predicates.
BinaryComplete(e) == Complete(e, "plain")
LayerComplete(e, family) == BinaryComplete(e) /\ Complete(e, family)

BinaryKept(e) ==
    LET plain     == BinaryComplete(e) /\ "plain" \in e.full /\ Wins(PlainScores(e), BaseScores(e), 3)
        above     == IF plain THEN PlainScores(e) ELSE BaseScores(e)
        recursive == /\ LayerComplete(e, "recursive") /\ "recursive" \in e.full
                     /\ Wins(RecursiveScores(e), above, 2)
        higher    == IF recursive THEN RecursiveScores(e) ELSE above
        exception == /\ LayerComplete(e, "exception") /\ "exception" \in e.full
                     /\ Seen(e, "recursive") => recursive
                     /\ Wins(ExceptionScores(e), higher, 2)
    IN  (IF plain THEN {"plain"} ELSE {}) \cup (IF recursive THEN {"recursive"} ELSE {})
          \cup (IF exception THEN {"exception"} ELSE {})

\* The scores of the highest kept layer.
KeptScores(e, kept) ==
    CASE "exception" \in kept -> ExceptionScores(e)
      [] "exception" \notin kept /\ "recursive" \in kept -> RecursiveScores(e)
      [] kept = {"plain"} -> PlainScores(e)
      [] OTHER -> BaseScores(e)

\* The clauses, on top of the families kept.
ClauseScore(f, kept) ==
    LET recursive == IF "recursive" \in f.threshold THEN f.recursiveClauses ELSE f.clauses
    IN  CASE "exception" \in kept -> IF "exception" \in f.threshold THEN f.exceptionClauses
                                                                   ELSE recursive
          [] "exception" \notin kept /\ "recursive" \in kept -> recursive
          [] OTHER -> f.clauses

ClauseScores(e, kept) == [i \in FoldsOf(e) |-> ClauseScore(e.folds[i], kept)]

\* Every gain of the clauses, over the booster and over the program kept below them, must
\* be material.
Material(d) == (\A i \in DOMAIN d : d[i] >= 2) /\ SumOf(d) >= 3 * Len(d)

OptionalKept(kept) == kept \cap {"recursive", "exception"}

ThresholdKept(e, kept) ==
    /\ "threshold" \in Layer(e.fullThreshold, kept)
    /\ OptionalKept(kept) \subseteq e.fullThreshold
    /\ \A i \in FoldsOf(e) : {"threshold"} \cup OptionalKept(kept) \subseteq e.folds[i].threshold
    /\ Material(Deltas(ClauseScores(e, kept), BaseScores(e)))
    /\ Material(Deltas(ClauseScores(e, kept), KeptScores(e, kept)))

ThresholdProgram(e) ==
    LET kept == BinaryKept(e)
    IN  [metric |-> "own", head |-> FALSE,
         families |-> CASE ThresholdKept(e, kept) -> Layer(e.fullThreshold, kept)
                        [] ~ThresholdKept(e, kept) /\ kept # {} -> Layer(e.full, kept)
                        [] OTHER -> {},
         measured |-> IF ThresholdKept(e, kept) THEN kept \cup {"threshold"} ELSE kept]
=============================================================================
