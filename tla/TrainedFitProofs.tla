-------------------------- MODULE TrainedFitProofs --------------------------
(***************************************************************************)
(* Theorems about a fit that configures itself, for any tables, candidate  *)
(* configurations, scores, patience, pairs and gate evidence.              *)
(*                                                                         *)
(* The round loop (BoosterRounds): whatever the verifier measures, the     *)
(* rounds a fit keeps under a metric are the longest prefix that set a     *)
(* record, and it stops by patience; a pair has the capacity its auditions *)
(* earned, and the report counts the rounds that were deployed.            *)
(*                                                                         *)
(* The fit around it: the successive halving keeps its anchors and deploys *)
(* on equal budgets, every accepted edit of the configuration was measured *)
(* on it, and the configuration the chain of gates ends in is one the      *)
(* booster can be trained with.                                            *)
(*                                                                         *)
(* The gates called one at a time (GateDecisions): layers are deployed at  *)
(* the checkpoint they were measured at and as they were verified, and a   *)
(* router is judged on rows it was not trained on.                         *)
(***************************************************************************)
EXTENDS TrainedFit, GateDecisions, SequenceTheorems, FiniteSetTheorems, TLAPS

-----------------------------------------------------------------------------
(* The round loop.                                                         *)

vars == <<fitVars, roundVars>>
PairOrNone == Pairs \cup {NoPair}

(* The inductive invariant, over the parts of the loop's state. *)

\* Schedules, scores and counters have the length of the rounds completed.
InStep ==
    /\ Len(granted) = Len(scored)
    /\ Len(attempted) = Len(scored)
    /\ \A m \in fit.metrics : keeps[m] \in 0 .. Len(scored) /\ bad[m] = Len(scored) - keeps[m]

\* What best and keeps say of the scores so far.
IsRecord ==
    \A m \in fit.metrics :
        /\ keeps[m] > 0 => best[m] = scored[keeps[m]][m]
        /\ \A i \in 1 .. keeps[m] - 1 : scored[i][m] < best[m]
        /\ \A i \in keeps[m] + 1 .. Len(scored) : scored[i][m] <= best[m] + Tolerance

\* The loop grows rounds while a metric has patience left, and stops for a reason.
Patient ==
    /\ loop = "idle" => scored = <<>> /\ granted = <<>> /\ attempted = <<>>
    /\ loop # "idle" => fit \in Fits
    /\ loop \in {"grow", "checkpoint"} => \E n \in fit.metrics : bad[n] < fit.patience
    /\ loop \in {"stopped", "done"} =>
          Len(scored) = fit.rounds \/ \A m \in fit.metrics : bad[m] >= fit.patience

IInv == TypeOK /\ InStep /\ IsRecord /\ Patient

-----------------------------------------------------------------------------

\* What the assumption says of one fit.
LEMMA FitTypes ==
    ASSUME NEW f \in Fits
    PROVE  /\ f.primary \in f.metrics /\ f.scores \subseteq Int
           /\ f.rounds \in Nat \ {0} /\ f.patience \in Nat \ {0}
BY BoosterAssumption

\* The loop before the first fit.
LEMMA Initially == RoundsInit => IInv
<1> SUFFICES ASSUME RoundsInit PROVE IInv
  OBVIOUS
<1> USE DEF RoundsInit
<1>1. fit.metrics = {} /\ fit.scores = {}
  BY DEF NoFit
<1>2. <<>> \in [{} -> {}] /\ <<>> \in [{} -> Nat]
  OBVIOUS
<1>3. TypeOK
  BY <1>1, <1>2 DEF TypeOK, NewGate
<1>4. InStep /\ IsRecord /\ Patient
  BY <1>1 DEF InStep, IsRecord, Patient
<1> QED
  BY <1>3, <1>4 DEF IInv

\* A fit starts with the scores of the prior and an empty record.
LEMMA BeginKeeps ==
    ASSUME IInv, NEW f \in Fits, Begin(f)
    PROVE  IInv'
<1> USE DEF Begin, IInv, roundVars
<1>1. /\ fit' = f /\ scored = <<>> /\ granted = <<>> /\ attempted = <<>>
      /\ UNCHANGED <<scored, gates, hard, granted, attempted, deployed>>
  BY DEF Patient
<1>2. TypeOK'
  BY <1>1 DEF TypeOK
<1>3. InStep' /\ IsRecord'
  BY <1>1 DEF InStep, IsRecord
<1>4. Patient'
  <2>1. f.primary \in f.metrics /\ 0 < f.patience
    BY FitTypes
  <2> QED
    BY <1>1, <2>1 DEF Patient
<1> QED
  BY <1>2, <1>3, <1>4

\* The gate of a pair, whether it was open or not.
LEMMA GatesAreTyped ==
    ASSUME TypeOK, NEW p \in Pairs
    PROVE  Gate(p) \in [phase : {"new", "audition", "approved", "rejected"}, attempts : Nat,
                        proper : Int, rank : Int]
BY DEF TypeOK, Gate

\* An audition leaves a gate a gate.
LEMMA HeardIsTyped ==
    ASSUME NEW g \in [phase : {"new", "audition", "approved", "rejected"}, attempts : Nat,
                      proper : Int, rank : Int],
           NEW proper \in Int, NEW rank \in Int
    PROVE  Heard(g, proper, rank)
              \in [phase : {"new", "audition", "approved", "rejected"}, attempts : Nat,
                   proper : Int, rank : Int]
<1> DEFINE now == [g EXCEPT !.attempts = @ + 1, !.proper = @ + proper, !.rank = @ + rank]
           harmed == now.proper < 0 /\ (now.rank < 0 \/ ~fit.ranked)
           verdict == IF now.attempts < AuditionRounds THEN now.phase
                      ELSE IF harmed THEN "rejected" ELSE "approved"
<1>1. now \in [phase : {"new", "audition", "approved", "rejected"}, attempts : Nat,
               proper : Int, rank : Int]
  <2> DEFINE a == [g EXCEPT !.attempts = @ + 1]
             b == [a EXCEPT !.proper = @ + proper]
  <2>1. a \in [phase : {"new", "audition", "approved", "rejected"}, attempts : Nat,
               proper : Int, rank : Int]
    OBVIOUS
  <2>2. now = [b EXCEPT !.rank = @ + rank]
    OBVIOUS
  <2> HIDE DEF a
  <2>3. b \in [phase : {"new", "audition", "approved", "rejected"}, attempts : Nat,
               proper : Int, rank : Int]
    BY <2>1
  <2> HIDE DEF b, now
  <2> QED
    BY <2>2, <2>3
<1>2. Heard(g, proper, rank) = [now EXCEPT !.phase = verdict]
  BY DEF Heard
<1>3. verdict \in {"new", "audition", "approved", "rejected"}
  <2> HIDE DEF harmed
  <2> QED
    BY <1>1
<1> HIDE DEF now, verdict
<1> QED
  BY <1>1, <1>2, <1>3

\* Growing a round changes nothing of the record.
LEMMA GrownKeeps ==
    ASSUME IInv, NEW h \in PairOrNone, NEW s \in PairOrNone, Grown(h, s), loop = "grow",
           gates' \in [Pairs -> [phase : {"new", "audition", "approved", "rejected"},
                                 attempts : Nat, proper : Int, rank : Int]]
    PROVE  IInv'
<1> USE DEF Grown, IInv
<1>1. TypeOK'
  BY DEF TypeOK, PairOrNone
<1>2. InStep' /\ IsRecord' /\ Patient'
  BY DEF InStep, IsRecord, Patient
<1> QED
  BY <1>1, <1>2

\* No form of growing a round changes the record.
LEMMA GrowKeeps ==
    ASSUME IInv,
           \/ GrowOrdinary
           \/ \E p \in Pairs, proper \in {-1, 1}, rank \in IF fit.ranked THEN {-1, 1} ELSE {0} :
                 GrowAudition(p, proper, rank)
           \/ \E p \in Pairs : GrowRouted(p)
    PROVE  IInv'
<1>1. TypeOK
  BY DEF IInv
<1>2. CASE GrowOrdinary
  <2>1. PICK p \in Pairs : Grown(HardPair(p), HardPair(p))
    BY <1>2 DEF GrowOrdinary
  <2>2. HardPair(p) \in PairOrNone
    BY DEF HardPair, PairOrNone
  <2> QED
    BY <1>2, <2>1, <2>2, <1>1, GrownKeeps DEF GrowOrdinary, TypeOK
<1>3. ASSUME NEW p \in Pairs, NEW proper \in {-1, 1},
             NEW rank \in (IF fit.ranked THEN {-1, 1} ELSE {0}), GrowAudition(p, proper, rank)
      PROVE  IInv'
  <2>1. rank \in Int /\ proper \in Int
    OBVIOUS
  <2>2. Heard(Gate(p), proper, rank)
           \in [phase : {"new", "audition", "approved", "rejected"}, attempts : Nat,
                proper : Int, rank : Int]
    BY <1>1, <2>1, GatesAreTyped, HeardIsTyped
  <2> QED
    BY <1>1, <1>3, <2>2, GrownKeeps DEF GrowAudition, TypeOK, PairOrNone
<1>4. ASSUME NEW p \in Pairs, GrowRouted(p)
      PROVE  IInv'
  BY <1>1, <1>4, GatesAreTyped, GrownKeeps DEF GrowRouted, TypeOK, PairOrNone
<1> QED
  BY <1>2, <1>3, <1>4

-----------------------------------------------------------------------------
(* A checkpoint *)

\* A checkpoint updates the record of each metric by its gain.
LEMMA CompleteKeeps ==
    ASSUME IInv, NEW reading \in [fit.metrics -> fit.scores], NEW look \in Looks,
           CompleteRound(reading, look)
    PROVE  IInv'
<1> DEFINE n == Len(scored)
           gain(m) == Gain(m, reading[m])
<1>0. /\ fit' = fit /\ loop = "checkpoint" /\ UNCHANGED <<gates, hard, deployed>>
      /\ scored' = Append(scored, reading)
      /\ granted' = Append(granted, hard.selected) /\ attempted' = Append(attempted, hard.attempted)
  BY DEF CompleteRound
<1>a. /\ best'  = [m \in fit.metrics |-> IF gain(m) THEN reading[m] ELSE best[m]]
      /\ keeps' = [m \in fit.metrics |-> IF gain(m) THEN n + 1 ELSE keeps[m]]
      /\ bad'   = [m \in fit.metrics |-> IF gain(m) THEN 0 ELSE bad[m] + 1]
  <2> HIDE DEF gain
  <2>1. \A m \in fit.metrics : Gain(m, reading[m]) = gain(m)
    BY DEF gain
  <2> QED
    BY <2>1 DEF CompleteRound
<1>b. loop' = IF \/ \A m \in fit.metrics : bad'[m] >= fit.patience
                 \/ Len(scored') = fit.rounds
              THEN "stopped" ELSE "grow"
  BY DEF CompleteRound
<1> HIDE DEF gain
<1>1. /\ fit \in Fits /\ n \in Nat /\ Tolerance \in Nat
      /\ scored \in Seq([fit.metrics -> fit.scores])
  BY <1>0, BoosterAssumption DEF IInv, Patient, TypeOK
<1>c. fit.scores \subseteq Int
  BY <1>1, FitTypes
<1>2. /\ Len(scored') = n + 1
      /\ \A i \in 1 .. n : scored'[i] = scored[i]
      /\ scored'[n + 1] = reading
      /\ scored' \in Seq([fit.metrics -> fit.scores])
  BY <1>0, <1>1
<1>3. ASSUME NEW m \in fit.metrics
      PROVE  /\ best[m] \in Int /\ reading[m] \in Int /\ keeps[m] \in 0 .. n
             /\ bad[m] = n - keeps[m] /\ bad[m] \in Nat
             /\ \A i \in 1 .. n : scored[i][m] \in Int
  <2>1. best[m] \in fit.scores /\ reading[m] \in fit.scores
    BY <1>3 DEF IInv, TypeOK
  <2>2. keeps[m] \in 0 .. n /\ bad[m] = n - keeps[m] /\ bad[m] \in Nat
    BY <1>3 DEF IInv, TypeOK, InStep
  <2>3. \A i \in 1 .. n : scored[i][m] \in fit.scores
    BY <1>1, <1>3
  <2> QED
    BY <1>c, <2>1, <2>2, <2>3
<1>4. ASSUME NEW m \in fit.metrics
      PROVE  /\ gain(m) => best'[m] = reading[m] /\ keeps'[m] = n + 1 /\ bad'[m] = 0
             /\ ~gain(m) => best'[m] = best[m] /\ keeps'[m] = keeps[m] /\ bad'[m] = bad[m] + 1
  BY <1>a, <1>4
<1>5. TypeOK'
  <2>1. /\ best' \in [fit.metrics -> fit.scores]
        /\ keeps' \in [fit.metrics -> Nat] /\ bad' \in [fit.metrics -> Nat]
    BY <1>1, <1>a DEF IInv, TypeOK
  <2>2. granted' \in Seq(PairOrNone) /\ attempted' \in Seq(PairOrNone)
    BY <1>0 DEF IInv, TypeOK, PairOrNone
  <2>3. loop' \in {"idle", "grow", "checkpoint", "stopped", "done"}
    BY <1>b
  <2> QED
    BY <1>0, <1>2, <2>1, <2>2, <2>3 DEF IInv, TypeOK, PairOrNone
<1>6. InStep'
  <2>1. Len(granted') = n + 1 /\ Len(attempted') = n + 1
    BY <1>0 DEF IInv, TypeOK, InStep
  <2>2. ASSUME NEW m \in fit.metrics
        PROVE  keeps'[m] \in 0 .. n + 1 /\ bad'[m] = n + 1 - keeps'[m]
    <3>1. keeps[m] \in 0 .. n /\ bad[m] = n - keeps[m]
      BY <1>3
    <3>2. CASE gain(m)
      <4>1. keeps'[m] = n + 1 /\ bad'[m] = 0
        BY <1>4, <3>2
      <4> QED
        BY <1>1, <4>1
    <3>3. CASE ~gain(m)
      <4>1. keeps'[m] = keeps[m] /\ bad'[m] = bad[m] + 1
        BY <1>4, <3>3
      <4> QED
        BY <1>1, <3>1, <4>1
    <3> QED
      BY <3>2, <3>3
  <2>3. \A m \in fit'.metrics : keeps'[m] \in 0 .. Len(scored') /\ bad'[m] = Len(scored') - keeps'[m]
    <3>1. fit'.metrics = fit.metrics
      BY <1>0
    <3>2. Len(scored') = n + 1
      BY <1>2
    <3> TAKE m \in fit'.metrics
    <3>3. keeps'[m] \in 0 .. n + 1 /\ bad'[m] = n + 1 - keeps'[m]
      BY <2>2, <3>1
    <3> QED
      BY <3>2, <3>3
  <2>4. Len(granted') = Len(scored') /\ Len(attempted') = Len(scored')
    BY <1>2, <2>1
  <2> QED
    BY <2>3, <2>4 DEF InStep
<1>7. IsRecord'
  <2>1. SUFFICES ASSUME NEW m \in fit.metrics
                 PROVE  /\ keeps'[m] > 0 => best'[m] = scored'[keeps'[m]][m]
                        /\ \A i \in 1 .. keeps'[m] - 1 : scored'[i][m] < best'[m]
                        /\ \A i \in keeps'[m] + 1 .. n + 1 : scored'[i][m] <= best'[m] + Tolerance
    BY <1>0, <1>2 DEF IsRecord
  <2>2. /\ keeps[m] > 0 => best[m] = scored[keeps[m]][m]
        /\ \A i \in 1 .. keeps[m] - 1 : scored[i][m] < best[m]
        /\ \A i \in keeps[m] + 1 .. n : scored[i][m] <= best[m] + Tolerance
    BY DEF IInv, IsRecord
  <2>3. ASSUME NEW i \in 1 .. n
        PROVE  scored[i][m] <= best[m] + Tolerance
    <3>1. CASE i < keeps[m]
      <4>1. i \in 1 .. keeps[m] - 1
        <5>1. PICK k \in 0 .. n : k = keeps[m]
          BY <1>3
        <5>2. i \in 1 .. k - 1
          BY <1>1, <2>3, <3>1, <5>1
        <5> QED
          BY <5>1, <5>2
      <4>2. scored[i][m] < best[m]
        BY <2>2, <4>1
      <4> QED
        BY <1>1, <1>3, <2>3, <4>2
    <3>2. CASE i = keeps[m]
      BY <1>1, <1>3, <2>2, <2>3, <3>2
    <3>3. CASE i > keeps[m]
      BY <1>1, <1>3, <2>2, <2>3, <3>3
    <3> QED
      BY <1>1, <1>3, <2>3, <3>1, <3>2, <3>3
  <2>4. CASE gain(m)
    <3>1. best[m] + Tolerance < reading[m]
      BY <1>1, <1>3, <2>4 DEF gain, Gain
    <3>2. \A i \in 1 .. n : scored'[i][m] < best'[m]
      <4> SUFFICES ASSUME NEW i \in 1 .. n
                   PROVE  scored'[i][m] < best'[m]
        OBVIOUS
      <4>1. scored'[i][m] = scored[i][m] /\ scored[i][m] \in Int
        BY <1>2, <1>3
      <4>2. best[m] \in Int /\ best'[m] = reading[m] /\ reading[m] \in Int
        BY <1>3, <1>4, <2>4
      <4>3. scored[i][m] <= best[m] + Tolerance
        BY <2>3
      <4> QED
        BY <1>1, <3>1, <4>1, <4>2, <4>3
    <3> QED
      BY <1>1, <1>2, <1>4, <2>4, <3>2
  <2>5. CASE ~gain(m)
    <3>1. reading[m] <= best[m] + Tolerance
      BY <1>1, <1>3, <2>5 DEF gain, Gain
    <3>2. best'[m] = best[m] /\ keeps'[m] = keeps[m] /\ keeps[m] \in 0 .. n
      BY <1>3, <1>4, <2>5
    <3>3. keeps[m] > 0 => scored'[keeps[m]] = scored[keeps[m]]
      BY <1>1, <1>2, <3>2
    <3>4. \A i \in 1 .. keeps[m] - 1 : scored'[i][m] < best[m]
      <4> SUFFICES ASSUME NEW i \in 1 .. keeps[m] - 1
                   PROVE  scored'[i][m] < best[m]
        OBVIOUS
      <4>1. i \in 1 .. n
        BY <1>1, <3>2
      <4>2. scored'[i] = scored[i] /\ scored[i][m] < best[m]
        BY <1>2, <2>2, <4>1
      <4> QED
        BY <4>2
    <3>5. \A i \in keeps[m] + 1 .. n + 1 : scored'[i][m] <= best[m] + Tolerance
      <4> SUFFICES ASSUME NEW i \in keeps[m] + 1 .. n + 1
                   PROVE  scored'[i][m] <= best[m] + Tolerance
        OBVIOUS
      <4>1. CASE i = n + 1
        BY <1>2, <3>1, <4>1
      <4>2. CASE i # n + 1
        <5>1. i \in keeps[m] + 1 .. n /\ i \in 1 .. n
          BY <1>1, <3>2, <4>2
        <5> QED
          BY <1>2, <2>2, <5>1
      <4> QED
        BY <4>1, <4>2
    <3> QED
      BY <2>2, <3>2, <3>3, <3>4, <3>5
  <2> QED
    BY <2>4, <2>5
<1>8. Patient'
  <2>1. fit.patience \in Nat /\ fit.rounds \in Nat
    BY <1>1, FitTypes
  <2>2. \A m \in fit.metrics : bad'[m] \in Nat
    BY <1>3, <1>4
  <2>3. \/ loop' = "stopped" /\ (n + 1 = fit.rounds \/ \A m \in fit.metrics : bad'[m] >= fit.patience)
        \/ loop' = "grow" /\ ~(\A m \in fit.metrics : bad'[m] >= fit.patience)
    BY <1>b, <1>2
  <2> QED
    BY <1>0, <1>1, <1>2, <2>1, <2>2, <2>3 DEF Patient
<1> QED
  BY <1>5, <1>6, <1>7, <1>8 DEF IInv

-----------------------------------------------------------------------------
(* Deploying *)

\* Deploying reads the record and leaves it.
LEMMA DeployKeeps ==
    ASSUME IInv, KeepPrefix \/ \E p \in Pairs : RefitRound(p)
    PROVE  IInv'
<1>1. fit \in Fits /\ loop = "stopped"
  BY DEF IInv, Patient, KeepPrefix, RefitRound
<1>2. loop' \in {"stopped", "done"} /\ UNCHANGED <<fit, scored, best, keeps, bad, gates, hard, granted, attempted>>
  BY <1>1 DEF KeepPrefix, RefitRound
<1>3. KeptRounds \in 0 .. Len(granted)
  BY <1>1, FitTypes DEF IInv, InStep, KeptRounds
<1>4. deployed' \in Seq(PairOrNone)
  <2>1. CASE KeepPrefix
    <3>1. \A i \in 1 .. KeptRounds : granted[i] \in PairOrNone
      BY <1>3 DEF IInv, TypeOK, PairOrNone
    <3> QED
      BY <1>3, <2>1, <3>1, SubSeqProperties DEF KeepPrefix
  <2>2. CASE \E p \in Pairs : RefitRound(p)
    BY <2>2 DEF RefitRound, IInv, TypeOK, PairOrNone
  <2> QED
    BY <2>1, <2>2
<1>5. TypeOK'
  BY <1>2, <1>4 DEF IInv, TypeOK, PairOrNone
<1>6. InStep' /\ IsRecord' /\ Patient'
  BY <1>1, <1>2 DEF IInv, InStep, IsRecord, Patient
<1> QED
  BY <1>5, <1>6 DEF IInv

\* Steps outside the loop leave it alone.
LEMMA StutterKeeps == IInv /\ UNCHANGED vars => IInv'
BY DEF vars, fitVars, roundVars, IInv, TypeOK, InStep, IsRecord, Patient

-----------------------------------------------------------------------------

\* The record, the schedules and the reason to stop agree in every state of the loop.
THEOREM Inductive == RoundsSpec => []IInv
<1>1. IInv /\ [RoundsNext]_vars => IInv'
  <2> SUFFICES ASSUME IInv, [RoundsNext]_vars PROVE IInv'
    OBVIOUS
  <2>1. CASE \E f \in Fits : Begin(f)
    BY <2>1, BeginKeeps
  <2>2. CASE \/ GrowOrdinary
             \/ \E p \in Pairs, proper \in {-1, 1}, rank \in IF fit.ranked THEN {-1, 1} ELSE {0} :
                   GrowAudition(p, proper, rank)
             \/ \E p \in Pairs : GrowRouted(p)
    BY <2>2, GrowKeeps
  <2>3. CASE \E reading \in [fit.metrics -> fit.scores], look \in Looks : CompleteRound(reading, look)
    BY <2>3, CompleteKeeps
  <2>4. CASE KeepPrefix \/ \E p \in Pairs : RefitRound(p)
    BY <2>4, DeployKeeps
  <2>5. CASE UNCHANGED vars
    BY <2>5, StutterKeeps
  <2> QED
    BY <2>1, <2>2, <2>3, <2>4, <2>5 DEF RoundsNext
<1> QED
  BY Initially, <1>1, PTL DEF RoundsSpec, vars

\* The variables of the loop keep their types, for any fits, looks and pairs
\* (reason_boost_softmax and the binary and regression loops of trees.py).
THEOREM LoopTypeCorrect == RoundsSpec => []TypeOK
<1>1. IInv => TypeOK
  BY DEF IInv
<1> QED
  BY Inductive, <1>1, PTL

\* Under every metric the kept prefix beats each shorter one, no longer one beats it by
\* more than the tolerance, and a fit that ends before its last round has spent its
\* patience (checkpoint_round), for any scores, patience and number of rounds.
THEOREM KeptPrefixIsRecord == RoundsSpec => []PrefixIsTheRecord
<1>1. IInv => PrefixIsTheRecord
  <2> SUFFICES ASSUME IInv PROVE PrefixIsTheRecord
    OBVIOUS
  <2>1. SUFFICES ASSUME NEW m \in fit.metrics
        PROVE  /\ keeps[m] > 0 => /\ best[m] = scored[keeps[m]][m]
                                  /\ \A i \in 1 .. keeps[m] - 1 : scored[i][m] < scored[keeps[m]][m]
               /\ \A i \in keeps[m] + 1 .. Len(scored) : scored[i][m] <= best[m] + Tolerance
               /\ loop \in {"stopped", "done"} /\ Len(scored) < fit.rounds
                     => Len(scored) >= keeps[m] + fit.patience
               /\ loop \in {"grow", "checkpoint"}
                     => \E n \in fit.metrics : Len(scored) < keeps[n] + fit.patience
    BY DEF PrefixIsTheRecord
  <2>2. /\ keeps[m] > 0 => best[m] = scored[keeps[m]][m]
        /\ \A i \in 1 .. keeps[m] - 1 : scored[i][m] < best[m]
        /\ \A i \in keeps[m] + 1 .. Len(scored) : scored[i][m] <= best[m] + Tolerance
    BY DEF IInv, IsRecord
  <2>3. /\ Len(scored) \in Nat
        /\ \A n \in fit.metrics : keeps[n] \in Nat /\ bad[n] = Len(scored) - keeps[n]
    BY DEF IInv, TypeOK, InStep
  <2>4. loop # "idle" => fit.patience \in Nat /\ fit.rounds \in Nat
    BY FitTypes DEF IInv, Patient
  <2>5. loop \in {"stopped", "done"} /\ Len(scored) < fit.rounds
           => Len(scored) >= keeps[m] + fit.patience
    BY <2>3, <2>4 DEF IInv, Patient
  <2>6. loop \in {"grow", "checkpoint"} => \E n \in fit.metrics : Len(scored) < keeps[n] + fit.patience
    BY <2>3, <2>4 DEF IInv, Patient
  <2> QED
    BY <2>2, <2>5, <2>6
<1> QED
  BY Inductive, <1>1, PTL
-----------------------------------------------------------------------------
(* What the rounds were grown for: the schedules, the auditions, the report. *)

\* The schedules, with the round that waits for its checkpoint.
Grants   == IF loop = "checkpoint" THEN Append(granted, hard.selected) ELSE granted
Attempts == IF loop = "checkpoint" THEN Append(attempted, hard.attempted) ELSE attempted

Decision == [round : Nat, pair : Pairs, phase : {"audition", "approved", "rejected"},
             proper : Int, rank : Int]

\* Decisions are in the order of their rounds and say what the schedules say; a round that
\* was attempted for a pair and granted to none has one, and so has each that was granted to
\* one where there is a gate.
Scheduled ==
    /\ decisions \in Seq(Decision)
    /\ Len(Grants) = Len(Attempts)
    /\ \A i, j \in DOMAIN decisions : i < j => decisions[i].round < decisions[j].round
    /\ \A i \in DOMAIN decisions :
          /\ decisions[i].round \in 1 .. Len(Attempts)
          /\ Attempts[decisions[i].round] = decisions[i].pair
          /\ Grants[decisions[i].round] =
                IF decisions[i].phase = "rejected" THEN NoPair ELSE decisions[i].pair
    /\ \A r \in 1 .. Len(Attempts) :
          Attempts[r] # Grants[r] \/ (Gated /\ Grants[r] # NoPair) =>
              \E i \in DOMAIN decisions : decisions[i].round = r

\* A gate carries the count and the balance of its auditions, and a verdict that they
\* justify; what was routed by it came after them.
Earned(p) ==
    LET g == gates[p] IN
    /\ g.attempts = Cardinality(Auditions(p))
    /\ g.proper = g.attempts - 2 * Cardinality(Losses(p))
    /\ fit.ranked => g.rank = g.attempts - 2 * Cardinality(RankLosses(p))
    /\ g.phase = "new" => \A i \in DOMAIN decisions : decisions[i].pair # p
    /\ g.phase \in {"new", "audition"} => Routings(p) = {} /\ g.attempts < AuditionRounds
    /\ g.phase = "audition" => g.attempts > 0
    /\ g.phase \in {"approved", "rejected"} =>
          /\ g.attempts \in {0, AuditionRounds}
          /\ g.phase = (IF MostlyHarmed(p) THEN "rejected" ELSE "approved")
          /\ \A i \in Auditions(p), j \in Routings(p) : i < j
          /\ \A j \in Routings(p) : decisions[j].phase = g.phase

\* The second part of VerdictsAreEarned: it says of every decision what held when it was made.
HeardWithinBudget ==
    \A i \in DOMAIN decisions :
        (decisions[i].phase = "audition" /\ \A j \in 1 .. i - 1 : decisions[j].pair # decisions[i].pair)
            => Cardinality({j \in 1 .. i - 1 : decisions[j].phase = "audition"}) < MaxAuditions

\* A refit deploys round by round, with the slots of the schedule.
DeployedSoFar ==
    /\ loop \notin {"stopped", "done"} => deployed = <<>>
    /\ loop = "stopped" => deployed = <<>> \/ Len(deployed) < KeptRounds
    /\ loop = "done" => Len(deployed) = KeptRounds
    /\ Adaptive => \A i \in DOMAIN deployed : /\ (deployed[i] # NoPair) = (granted[i] # NoPair)
                                              /\ fit.refit \/ deployed[i] = granted[i]

\* Before the fit nothing was heard.
Fresh == loop = "idle" => decisions = <<>> /\ gates = [p \in Pairs |-> NewGate]

GrowthInv ==
    Fresh /\ Scheduled /\ (\A p \in Pairs : Earned(p)) /\ HeardWithinBudget /\ DeployedSoFar

-----------------------------------------------------------------------------

\* No round was grown yet, so that nothing was heard either.
LEMMA NothingHeard ==
    ASSUME decisions = <<>>, NEW p \in Pairs
    PROVE  /\ Auditions(p) = {} /\ Routings(p) = {} /\ Losses(p) = {} /\ RankLosses(p) = {}
           /\ Cardinality(Auditions(p)) = 0 /\ Cardinality(Losses(p)) = 0
           /\ Cardinality(RankLosses(p)) = 0 /\ ~MostlyHarmed(p)
<1>1. Auditions(p) = {} /\ Routings(p) = {}
  BY DEF Auditions, Routings
<1>2. Losses(p) = {} /\ RankLosses(p) = {}
  BY <1>1 DEF Losses, RankLosses
<1>3. Cardinality({}) = 0
  BY FS_EmptySet
<1> QED
  BY <1>1, <1>2, <1>3 DEF MostlyHarmed

\* The loop before the first fit.
LEMMA GrowthInit == RoundsInit => GrowthInv
<1> SUFFICES ASSUME RoundsInit PROVE GrowthInv
  OBVIOUS
<1>1. /\ decisions = <<>> /\ granted = <<>> /\ attempted = <<>> /\ deployed = <<>> /\ loop = "idle"
      /\ gates = [p \in Pairs |-> NewGate]
  BY DEF RoundsInit
<1>2. ASSUME NEW p \in Pairs PROVE Earned(p)
  <2>1. gates[p] = NewGate
    BY <1>1
  <2>2. AuditionRounds \in Nat /\ AuditionRounds > 0
    BY BoosterAssumption
  <2> QED
    BY <1>1, <2>1, <2>2, NothingHeard DEF Earned, NewGate
<1>3. Scheduled
  BY <1>1 DEF Scheduled, Grants, Attempts
<1>4. Fresh /\ HeardWithinBudget /\ DeployedSoFar
  BY <1>1 DEF Fresh, HeardWithinBudget, DeployedSoFar
<1> QED
  BY <1>2, <1>3, <1>4 DEF GrowthInv


\* Steps that leave the decisions and the gates alone leave what was heard.
LEMMA EarnedStays ==
    ASSUME NEW p \in Pairs, Earned(p), UNCHANGED <<decisions, gates>>, fit'.ranked = fit.ranked
    PROVE  Earned(p)'
BY DEF Earned, Auditions, Routings, Losses, RankLosses, MostlyHarmed

\* A fit starts with fresh gates.
LEMMA GrowthBegin ==
    ASSUME IInv, GrowthInv, NEW f \in Fits, Begin(f)
    PROVE  GrowthInv'
<1>1. /\ loop = "idle" /\ loop' = "grow" /\ decisions = <<>>
      /\ UNCHANGED <<scored, gates, hard, granted, attempted, decisions, deployed>>
  BY DEF Begin, roundVars, GrowthInv, Fresh
<1>2. Fresh' /\ Scheduled' /\ HeardWithinBudget'
  <2>1. attempted = <<>> /\ granted = <<>>
    BY <1>1 DEF IInv, Patient
  <2> QED
    BY <1>1, <2>1 DEF GrowthInv, Fresh, Scheduled, Grants, Attempts, HeardWithinBudget
<1>3. DeployedSoFar'
  BY <1>1 DEF GrowthInv, DeployedSoFar
<1>4. ASSUME NEW p \in Pairs PROVE Earned(p)'
  <2>1. gates'[p] = NewGate
    BY <1>1 DEF GrowthInv, Fresh
  <2>2. /\ (Auditions(p) = {})' /\ (Routings(p) = {})'
        /\ (Cardinality(Auditions(p)) = 0)' /\ (Cardinality(Losses(p)) = 0)'
        /\ (Cardinality(RankLosses(p)) = 0)'
    BY <1>1, NothingHeard DEF Auditions, Routings, Losses, RankLosses
  <2>3. AuditionRounds \in Nat /\ AuditionRounds > 0
    BY BoosterAssumption
  <2> QED
    BY <1>1, <2>1, <2>2, <2>3 DEF Earned, NewGate
<1> QED
  BY <1>2, <1>3, <1>4 DEF GrowthInv

\* A checkpoint records the schedules of its round: they stand as they stood.
LEMMA GrowthComplete ==
    ASSUME IInv, GrowthInv, NEW reading \in [fit.metrics -> fit.scores], NEW look \in Looks,
           CompleteRound(reading, look)
    PROVE  GrowthInv'
<1>1. /\ loop = "checkpoint" /\ loop' \in {"stopped", "grow"}
      /\ granted' = Append(granted, hard.selected) /\ attempted' = Append(attempted, hard.attempted)
      /\ UNCHANGED <<fit, gates, hard, decisions, deployed>>
  BY DEF CompleteRound
<1>2. Grants' = Grants /\ Attempts' = Attempts
  BY <1>1 DEF Grants, Attempts
<1>3. Scheduled'
  BY <1>1, <1>2 DEF GrowthInv, Scheduled, Gated
<1>4. Fresh' /\ HeardWithinBudget' /\ DeployedSoFar'
  BY <1>1 DEF GrowthInv, Fresh, HeardWithinBudget, DeployedSoFar
<1>5. \A p \in Pairs : Earned(p)'
  BY <1>1, EarnedStays DEF GrowthInv
<1> QED
  BY <1>3, <1>4, <1>5 DEF GrowthInv

\* The kept rounds are deployed for what the schedule granted.
LEMMA GrowthDeploy ==
    ASSUME IInv, GrowthInv, KeepPrefix \/ \E p \in Pairs : RefitRound(p)
    PROVE  GrowthInv'
<1>1. /\ loop = "stopped" /\ loop' \in {"stopped", "done"}
      /\ UNCHANGED <<fit, keeps, gates, hard, granted, attempted, decisions>>
  BY DEF KeepPrefix, RefitRound
<1>2. Fresh' /\ Scheduled' /\ HeardWithinBudget'
  BY <1>1 DEF GrowthInv, Fresh, Scheduled, Grants, Attempts, HeardWithinBudget, Gated
<1>3. \A p \in Pairs : Earned(p)'
  BY <1>1, EarnedStays DEF GrowthInv
<1>4. /\ KeptRounds \in 0 .. Len(granted) /\ KeptRounds' = KeptRounds
      /\ granted \in Seq(PairOrNone) /\ deployed \in Seq(PairOrNone)
  BY <1>1, FitTypes DEF IInv, TypeOK, InStep, Patient, KeptRounds, PairOrNone
<1>5. DeployedSoFar'
  <2>1. CASE KeepPrefix
    <3>1. deployed' = SubSeq(granted, 1, KeptRounds) /\ loop' = "done"
      BY <2>1 DEF KeepPrefix
    <3>2. Len(deployed') = KeptRounds /\ \A i \in 1 .. KeptRounds : deployed'[i] = granted[i]
      BY <1>4, <3>1
    <3>3. DOMAIN deployed' = 1 .. KeptRounds
      BY <1>4, <3>1
    <3> QED
      BY <1>1, <1>4, <3>1, <3>2, <3>3 DEF DeployedSoFar
  <2>2. ASSUME NEW p \in Pairs, RefitRound(p)
        PROVE  DeployedSoFar'
    <3> DEFINE n == Len(deployed)
               pair == IF Slot(n + 1) THEN p ELSE NoPair
    <3>1. /\ deployed' = Append(deployed, pair) /\ KeptRounds > 0 /\ fit.refit /\ fit' = fit
          /\ loop' = IF Len(deployed') = KeptRounds THEN "done" ELSE loop
      BY <2>2 DEF RefitRound
    <3>2. n < KeptRounds /\ n \in Nat
      BY <1>1, <1>4, <3>1 DEF GrowthInv, DeployedSoFar
    <3>3. pair \in PairOrNone
      BY DEF PairOrNone
    <3>4. Adaptive => (pair # NoPair) = (granted[n + 1] # NoPair)
      BY BoosterAssumption DEF Slot
    <3> HIDE DEF pair
    <3>5. /\ Len(deployed') = n + 1 /\ DOMAIN deployed' = 1 .. n + 1
          /\ deployed'[n + 1] = pair /\ \A i \in 1 .. n : deployed'[i] = deployed[i]
      BY <1>4, <3>1, <3>3
    <3>6. Adaptive => \A i \in 1 .. n + 1 : (deployed'[i] # NoPair) = (granted[i] # NoPair)
      <4> SUFFICES ASSUME Adaptive, NEW i \in 1 .. n + 1
                   PROVE  (deployed'[i] # NoPair) = (granted[i] # NoPair)
        OBVIOUS
      <4>1. CASE i = n + 1
        BY <3>4, <3>5, <4>1
      <4>2. CASE i # n + 1
        <5>1. i \in 1 .. n /\ i \in DOMAIN deployed
          BY <1>4, <3>2, <4>2
        <5> QED
          BY <3>5, <5>1 DEF GrowthInv, DeployedSoFar
      <4> QED
        BY <4>1, <4>2
    <3>7. Adaptive' = Adaptive
      BY <1>1 DEF Adaptive
    <3>8. loop' = "done" => Len(deployed') = KeptRounds
      BY <1>1, <3>1
    <3>9. loop' = "stopped" => Len(deployed') < KeptRounds
      BY <1>4, <3>1, <3>2, <3>5
    <3> QED
      BY <1>1, <1>4, <3>1, <3>5, <3>6, <3>7, <3>8, <3>9 DEF DeployedSoFar
  <2> QED
    BY <2>1, <2>2
<1> QED
  BY <1>2, <1>3, <1>5 DEF GrowthInv

\* A round that is grown adds its pair to both schedules.
LEMMA ScheduleGrows ==
    ASSUME IInv, loop = "grow", NEW h \in PairOrNone, NEW s \in PairOrNone, Grown(h, s)
    PROVE  /\ Len(scored) \in Nat /\ loop' = "checkpoint"
           /\ Len(Grants) = Len(scored) /\ Len(Attempts) = Len(scored)
           /\ Len(Grants') = Len(scored) + 1 /\ Len(Attempts') = Len(scored) + 1
           /\ Grants'[Len(scored) + 1] = s /\ Attempts'[Len(scored) + 1] = h
           /\ \A r \in 1 .. Len(scored) : Grants'[r] = Grants[r] /\ Attempts'[r] = Attempts[r]
<1>1. /\ loop' = "checkpoint" /\ hard'.selected = s /\ hard'.attempted = h
      /\ UNCHANGED <<granted, attempted>>
  BY DEF Grown
<1>2. /\ granted \in Seq(PairOrNone) /\ attempted \in Seq(PairOrNone) /\ Len(scored) \in Nat
      /\ Len(granted) = Len(scored) /\ Len(attempted) = Len(scored)
  BY DEF IInv, TypeOK, InStep, PairOrNone
<1>3. /\ Grants = granted /\ Attempts = attempted
      /\ Grants' = Append(granted, s) /\ Attempts' = Append(attempted, h)
  BY <1>1 DEF Grants, Attempts
<1>4. /\ Len(Append(granted, s)) = Len(scored) + 1 /\ Len(Append(attempted, h)) = Len(scored) + 1
      /\ Append(granted, s)[Len(scored) + 1] = s /\ Append(attempted, h)[Len(scored) + 1] = h
      /\ \A r \in 1 .. Len(scored) : /\ Append(granted, s)[r] = granted[r]
                                     /\ Append(attempted, h)[r] = attempted[r]
  BY <1>2, AppendProperties
<1> QED
  BY <1>1, <1>2, <1>3, <1>4

\* A round without a gate: it is granted what it was attempted for, and nothing is recorded.
LEMMA GrowthOrdinary == IInv /\ GrowthInv /\ GrowOrdinary => GrowthInv'
<1> SUFFICES ASSUME IInv, GrowthInv, GrowOrdinary PROVE GrowthInv'
  OBVIOUS
<1>1. PICK p \in Pairs : (HardPair(p) = NoPair \/ ~Gated) /\ Grown(HardPair(p), HardPair(p))
  BY DEF GrowOrdinary
<1> DEFINE h == HardPair(p)
           n == Len(scored)
<1>2. /\ h \in PairOrNone /\ loop = "grow" /\ Grown(h, h) /\ (h = NoPair \/ ~Gated)
      /\ UNCHANGED <<fit, gates, decisions, deployed>>
  BY <1>1 DEF HardPair, PairOrNone, GrowOrdinary, Grown
<1> HIDE DEF h
<1>3. /\ n \in Nat /\ loop' = "checkpoint" /\ Len(Grants) = n /\ Len(Attempts) = n
      /\ Len(Grants') = n + 1 /\ Len(Attempts') = n + 1
      /\ Grants'[n + 1] = h /\ Attempts'[n + 1] = h
      /\ \A r \in 1 .. n : Grants'[r] = Grants[r] /\ Attempts'[r] = Attempts[r]
  BY <1>2, ScheduleGrows
<1> HIDE DEF n
<1>4. Scheduled'
  <2> USE DEF GrowthInv, Scheduled
  <2>1. \A i \in DOMAIN decisions :
            /\ decisions[i].round \in 1 .. n + 1
            /\ Attempts'[decisions[i].round] = decisions[i].pair
            /\ Grants'[decisions[i].round] =
                  IF decisions[i].phase = "rejected" THEN NoPair ELSE decisions[i].pair
    BY <1>3
  <2>2. ASSUME NEW r \in 1 .. n + 1, Attempts'[r] # Grants'[r] \/ (Gated /\ Grants'[r] # NoPair)
        PROVE  \E i \in DOMAIN decisions : decisions[i].round = r
    <3>1. r \in 1 .. n
      BY <1>2, <1>3, <2>2
    <3> QED
      BY <1>3, <2>2, <3>1
  <2>3. Gated' = Gated
    BY <1>2 DEF Gated
  <2> QED
    BY <1>2, <1>3, <2>1, <2>2, <2>3
<1>5. Fresh' /\ HeardWithinBudget' /\ DeployedSoFar'
  BY <1>2, <1>3 DEF GrowthInv, Fresh, HeardWithinBudget, DeployedSoFar
<1>6. \A p1 \in Pairs : Earned(p1)'
  BY <1>2, EarnedStays DEF GrowthInv
<1> QED
  BY <1>4, <1>5, <1>6 DEF GrowthInv

\* A round that is decided about: the decision says what the schedules say.
LEMMA Recorded ==
    ASSUME IInv, GrowthInv, loop = "grow", NEW p \in Pairs, NEW d \in Decision,
           d.round = Len(scored) + 1, d.pair = p, decisions' = Append(decisions, d),
           Grown(p, IF d.phase = "rejected" THEN NoPair ELSE p)
    PROVE  Fresh' /\ Scheduled' /\ DeployedSoFar'
<1> DEFINE s == IF d.phase = "rejected" THEN NoPair ELSE p
           n == Len(scored)
           k == Len(decisions)
<1>1. p \in PairOrNone /\ s \in PairOrNone /\ UNCHANGED <<fit, deployed>>
  BY DEF PairOrNone, Grown
<1>2. /\ n \in Nat /\ loop' = "checkpoint" /\ Len(Grants) = n /\ Len(Attempts) = n
      /\ Len(Grants') = n + 1 /\ Len(Attempts') = n + 1
      /\ Grants'[n + 1] = s /\ Attempts'[n + 1] = p
      /\ \A r \in 1 .. n : Grants'[r] = Grants[r] /\ Attempts'[r] = Attempts[r]
  BY <1>1, ScheduleGrows
<1>3. /\ decisions \in Seq(Decision) /\ k \in Nat
      /\ decisions' \in Seq(Decision) /\ Len(decisions') = k + 1 /\ DOMAIN decisions' = 1 .. k + 1
      /\ decisions'[k + 1] = d /\ \A i \in 1 .. k : decisions'[i] = decisions[i]
  BY AppendProperties DEF GrowthInv, Scheduled
<1>4. \A i \in 1 .. k :
          /\ decisions[i].round \in 1 .. n /\ Attempts[decisions[i].round] = decisions[i].pair
          /\ Grants[decisions[i].round] = IF decisions[i].phase = "rejected" THEN NoPair ELSE decisions[i].pair
  BY <1>2, <1>3 DEF GrowthInv, Scheduled
<1> HIDE DEF n, k
<1>5. \A i, j \in 1 .. k + 1 : i < j => decisions'[i].round < decisions'[j].round
  <2> SUFFICES ASSUME NEW i \in 1 .. k + 1, NEW j \in 1 .. k + 1, i < j
               PROVE  decisions'[i].round < decisions'[j].round
    OBVIOUS
  <2>1. i \in 1 .. k /\ decisions'[i] = decisions[i] /\ decisions[i].round \in 1 .. n
    BY <1>3, <1>4
  <2>2. CASE j = k + 1
    BY <1>2, <1>3, <2>1, <2>2 DEF n
  <2>3. CASE j # k + 1
    <3>1. j \in 1 .. k /\ decisions'[j] = decisions[j]
      BY <1>3, <2>3
    <3>2. i \in DOMAIN decisions /\ j \in DOMAIN decisions
      BY <1>3, <2>1, <3>1 DEF k
    <3> QED
      BY <2>1, <3>1, <3>2 DEF GrowthInv, Scheduled
  <2> QED
    BY <2>2, <2>3
<1>6. ASSUME NEW i \in 1 .. k + 1
      PROVE  /\ decisions'[i].round \in 1 .. n + 1
             /\ Attempts'[decisions'[i].round] = decisions'[i].pair
             /\ Grants'[decisions'[i].round] =
                   IF decisions'[i].phase = "rejected" THEN NoPair ELSE decisions'[i].pair
  <2>1. CASE i = k + 1
    <3>1. decisions'[i] = d /\ d.round = n + 1
      BY <1>3, <2>1 DEF n
    <3> QED
      BY <1>2, <3>1
  <2>2. CASE i # k + 1
    <3>1. i \in 1 .. k /\ decisions'[i] = decisions[i] /\ decisions[i].round \in 1 .. n
      BY <1>3, <1>4, <2>2
    <3> QED
      BY <1>2, <1>4, <3>1
  <2> QED
    BY <2>1, <2>2
<1>7. ASSUME NEW r \in 1 .. n + 1, Attempts'[r] # Grants'[r] \/ (Gated /\ Grants'[r] # NoPair)
      PROVE  \E i \in 1 .. k + 1 : decisions'[i].round = r
  <2>1. CASE r = n + 1
    BY <1>3, <2>1 DEF n
  <2>2. CASE r # n + 1
    <3>1. r \in 1 .. n /\ (Attempts[r] # Grants[r] \/ (Gated /\ Grants[r] # NoPair))
      BY <1>2, <1>7, <2>2
    <3>2. PICK i \in 1 .. k : decisions[i].round = r
      BY <1>2, <1>3, <3>1 DEF GrowthInv, Scheduled, k
    <3> QED
      BY <1>3, <3>2
  <2> QED
    BY <2>1, <2>2
<1>8. Scheduled'
  <2>1. Gated' = Gated
    BY <1>1 DEF Gated
  <2> QED
    BY <1>2, <1>3, <1>5, <1>6, <1>7, <2>1 DEF Scheduled
<1>9. Fresh' /\ DeployedSoFar'
  BY <1>1, <1>2 DEF GrowthInv, Fresh, DeployedSoFar
<1> QED
  BY <1>8, <1>9

\* What one more decision adds to the auditions and the routings of a pair.
LEMMA OneMore ==
    ASSUME decisions \in Seq(Decision), NEW d \in Decision, decisions' = Append(decisions, d),
           NEW q \in Pairs
    PROVE  LET k == Len(decisions) + 1
               Plus(S, grows) == IF grows THEN S \cup {k} ELSE S
               heard == d.pair = q /\ d.phase = "audition"
           IN  /\ (Auditions(q))' = Plus(Auditions(q), heard)
               /\ (Losses(q))' = Plus(Losses(q), heard /\ d.proper < 0)
               /\ (RankLosses(q))' = Plus(RankLosses(q), heard /\ d.rank < 0)
               /\ (Routings(q))' = Plus(Routings(q), d.pair = q /\ d.phase # "audition")
               /\ Auditions(q) \cup Routings(q) \subseteq 1 .. k - 1
<1> DEFINE k == Len(decisions) + 1
<1>1. /\ k \in Nat /\ DOMAIN decisions = 1 .. k - 1 /\ DOMAIN decisions' = 1 .. k
      /\ decisions'[k] = d /\ \A i \in 1 .. k - 1 : decisions'[i] = decisions[i]
  BY AppendProperties
<1>2. 1 .. k = (1 .. k - 1) \cup {k} /\ k \notin 1 .. k - 1
  BY <1>1
<1> HIDE DEF k
<1>3. (Auditions(q))' = IF d.pair = q /\ d.phase = "audition" THEN Auditions(q) \cup {k} ELSE Auditions(q)
  BY <1>1, <1>2 DEF Auditions
<1>4. (Routings(q))' = IF d.pair = q /\ d.phase # "audition" THEN Routings(q) \cup {k} ELSE Routings(q)
  BY <1>1, <1>2 DEF Routings
<1>5. Auditions(q) \cup Routings(q) \subseteq 1 .. k - 1
  BY <1>1 DEF Auditions, Routings
<1>6. (Losses(q))' = IF d.pair = q /\ d.phase = "audition" /\ d.proper < 0
                     THEN Losses(q) \cup {k} ELSE Losses(q)
  BY <1>1, <1>2, <1>3, <1>5 DEF Losses
<1>7. (RankLosses(q))' = IF d.pair = q /\ d.phase = "audition" /\ d.rank < 0
                         THEN RankLosses(q) \cup {k} ELSE RankLosses(q)
  BY <1>1, <1>2, <1>3, <1>5 DEF RankLosses
<1> QED
  BY <1>3, <1>4, <1>5, <1>6, <1>7 DEF k

\* The sets of a pair are finite, and a decision that joins one counts one more.
LEMMA Counts ==
    ASSUME decisions \in Seq(Decision), NEW q \in Pairs, NEW S,
           S \in {Auditions(q), Losses(q), RankLosses(q)}
    PROVE  /\ IsFiniteSet(S) /\ Cardinality(S) \in Nat
           /\ Cardinality(S \cup {Len(decisions) + 1}) = Cardinality(S) + 1
<1>1. Len(decisions) \in Nat
  OBVIOUS
<1>2. S \subseteq 1 .. Len(decisions)
  BY DEF Auditions, Losses, RankLosses
<1>3. IsFiniteSet(1 .. Len(decisions))
  BY <1>1, FS_Interval
<1>4. IsFiniteSet(S)
  BY <1>2, <1>3, FS_Subset
<1>5. Len(decisions) + 1 \notin S
  BY <1>1, <1>2
<1> QED
  BY <1>4, <1>5, FS_AddElement, FS_CardinalityType

\* A decision about one pair leaves the others what they have earned.
LEMMA OthersStay ==
    ASSUME GrowthInv, NEW p \in Pairs, NEW d \in Decision, d.pair = p,
           decisions' = Append(decisions, d), NEW g, gates' = [gates EXCEPT ![p] = g],
           fit' = fit, NEW q \in Pairs, q # p, gates \in [Pairs -> Range(gates)]
    PROVE  Earned(q)'
<1> DEFINE k == Len(decisions) + 1
<1>1. decisions \in Seq(Decision) /\ Earned(q)
  BY DEF GrowthInv, Scheduled
<1>2. /\ k \in Nat /\ DOMAIN decisions = 1 .. k - 1 /\ DOMAIN decisions' = 1 .. k
      /\ decisions'[k] = d /\ \A i \in 1 .. k - 1 : decisions'[i] = decisions[i]
  BY <1>1, AppendProperties
<1>3. /\ (Auditions(q))' = Auditions(q) /\ (Losses(q))' = Losses(q)
      /\ (RankLosses(q))' = RankLosses(q) /\ (Routings(q))' = Routings(q)
      /\ Routings(q) \subseteq 1 .. k - 1
  BY <1>1, OneMore
<1> HIDE DEF k
<1>4. gates'[q] = gates[q]
  OBVIOUS
<1>5. (MostlyHarmed(q))' = MostlyHarmed(q)
  BY <1>3 DEF MostlyHarmed
<1>6. \A j \in Routings(q) : decisions'[j] = decisions[j]
  BY <1>2, <1>3
<1>7. (\A i \in DOMAIN decisions : decisions[i].pair # q)
         => \A i \in DOMAIN decisions' : decisions'[i].pair # q
  <2> SUFFICES ASSUME \A i \in DOMAIN decisions : decisions[i].pair # q, NEW i \in 1 .. k
               PROVE  decisions'[i].pair # q
    BY <1>2
  <2>1. i = k \/ i \in 1 .. k - 1
    BY <1>2
  <2> QED
    BY <1>2, <2>1
<1> QED
  BY <1>1, <1>3, <1>4, <1>5, <1>6, <1>7 DEF Earned

\* An audition: the count and the balances follow, and the last one gives the verdict.
LEMMA AuditionEarns ==
    ASSUME IInv, GrowthInv, NEW p \in Pairs, NEW proper \in {-1, 1},
           NEW rank \in Int, fit.ranked => rank \in {-1, 1},
           Gate(p).phase = "audition", fit' = fit,
           gates' = [gates EXCEPT ![p] = Heard(Gate(p), proper, rank)],
           NEW d \in Decision, d.pair = p, d.phase = "audition", d.proper = proper, d.rank = rank,
           decisions' = Append(decisions, d)
    PROVE  Earned(p)'
<1> DEFINE g == Gate(p)
           a == Cardinality(Auditions(p))
           l == Cardinality(Losses(p))
           r == Cardinality(RankLosses(p))
           k == Len(decisions) + 1
<1>1. /\ decisions \in Seq(Decision) /\ Earned(p)
      /\ gates \in [Pairs -> [phase : {"new", "audition", "approved", "rejected"},
                              attempts : Nat, proper : Int, rank : Int]]
      /\ AuditionRounds \in Nat /\ AuditionRounds > 0
  BY BoosterAssumption DEF GrowthInv, Scheduled, IInv, TypeOK
<1>2. /\ gates[p].phase \in {"new", "audition"}
      /\ g.attempts = gates[p].attempts /\ g.proper = gates[p].proper /\ g.rank = gates[p].rank
  BY <1>1 DEF Gate
<1>3. /\ Routings(p) = {} /\ g.attempts = a /\ a < AuditionRounds
      /\ g.proper = a - 2 * l /\ (fit.ranked => g.rank = a - 2 * r)
  BY <1>1, <1>2 DEF Earned
<1>4. /\ (Auditions(p))' = Auditions(p) \cup {k} /\ (Routings(p))' = {}
      /\ (Losses(p))' = (IF proper < 0 THEN Losses(p) \cup {k} ELSE Losses(p))
      /\ (RankLosses(p))' = (IF rank < 0 THEN RankLosses(p) \cup {k} ELSE RankLosses(p))
  BY <1>1, <1>3, OneMore
<1>5. /\ a \in Nat /\ l \in Nat /\ r \in Nat
      /\ Cardinality(Auditions(p) \cup {k}) = a + 1 /\ Cardinality(Losses(p) \cup {k}) = l + 1
      /\ Cardinality(RankLosses(p) \cup {k}) = r + 1
  BY <1>1, Counts
<1>6. /\ (Cardinality(Auditions(p)))' = a + 1
      /\ (Cardinality(Losses(p)))' = IF proper < 0 THEN l + 1 ELSE l
      /\ (Cardinality(RankLosses(p)))' = IF rank < 0 THEN r + 1 ELSE r
  BY <1>4, <1>5
<1>7. /\ g \in [phase : {"new", "audition", "approved", "rejected"}, attempts : Nat,
                proper : Int, rank : Int]
      /\ g.phase = "audition"
  BY GatesAreTyped DEF IInv
<1> HIDE DEF g
<1>8. gates'[p] = Heard(g, proper, rank)
  BY <1>1 DEF g
<1> DEFINE now == [g EXCEPT !.attempts = @ + 1, !.proper = @ + proper, !.rank = @ + rank]
           harmed == now.proper < 0 /\ (now.rank < 0 \/ ~fit.ranked)
           verdict == IF now.attempts < AuditionRounds THEN now.phase
                      ELSE IF harmed THEN "rejected" ELSE "approved"
<1>9. /\ now.attempts = g.attempts + 1 /\ now.proper = g.proper + proper
      /\ now.rank = g.rank + rank /\ now.phase = "audition"
  BY <1>7
<1>10. Heard(g, proper, rank) = [now EXCEPT !.phase = verdict]
  BY DEF Heard
<1>11. /\ gates'[p].attempts = a + 1 /\ gates'[p].proper = g.proper + proper
       /\ gates'[p].rank = g.rank + rank /\ gates'[p].phase = verdict
  <2> DEFINE b == [g EXCEPT !.attempts = @ + 1]
             c == [b EXCEPT !.proper = @ + proper]
             Gates == [phase : {"new", "audition", "approved", "rejected"}, attempts : Nat,
                       proper : Int, rank : Int]
  <2>1. b \in Gates
    BY <1>7
  <2>2. now = [c EXCEPT !.rank = @ + rank]
    OBVIOUS
  <2> HIDE DEF b
  <2>3. c \in Gates
    BY <2>1
  <2> HIDE DEF c, now
  <2>4. now \in Gates
    BY <2>2, <2>3
  <2> HIDE DEF verdict
  <2>5. gates'[p] = [now EXCEPT !.phase = verdict]
    BY <1>8, <1>10
  <2>6. /\ gates'[p].attempts = now.attempts /\ gates'[p].proper = now.proper
        /\ gates'[p].rank = now.rank /\ gates'[p].phase = verdict
    BY <2>4, <2>5
  <2> QED
    BY <1>3, <1>9, <2>6
<1>12. verdict = IF a + 1 < AuditionRounds THEN "audition"
                 ELSE IF harmed THEN "rejected" ELSE "approved"
  BY <1>3, <1>9
<1> DEFINE m == (Cardinality(Losses(p)))'
           n == (Cardinality(RankLosses(p)))'
<1>13. /\ m \in Nat /\ g.proper + proper = a + 1 - 2 * m
       /\ g.proper + proper < 0 <=> 2 * m > a + 1
  <2>1. m = IF proper < 0 THEN l + 1 ELSE l
    BY <1>6
  <2> DEFINE b == g.proper
  <2>2. a \in Nat /\ l \in Nat /\ b = a - 2 * l
    BY <1>3, <1>5
  <2> HIDE DEF m, a, l, b
  <2>3. m \in Nat /\ b + proper = a + 1 - 2 * m /\ (b + proper < 0 <=> 2 * m > a + 1)
    <3>1. CASE proper = 1
      BY <2>1, <2>2, <3>1
    <3>2. CASE proper = -1
      BY <2>1, <2>2, <3>2
    <3> QED
      BY <3>1, <3>2
  <2> QED
    BY <2>3 DEF b
<1>14. fit.ranked => /\ n \in Nat /\ g.rank + rank = a + 1 - 2 * n
                     /\ g.rank + rank < 0 <=> 2 * n > a + 1
  <2> SUFFICES ASSUME fit.ranked
               PROVE  /\ n \in Nat /\ g.rank + rank = a + 1 - 2 * n
                      /\ g.rank + rank < 0 <=> 2 * n > a + 1
    OBVIOUS
  <2>1. n = IF rank < 0 THEN r + 1 ELSE r
    BY <1>6
  <2>2. rank \in {-1, 1} /\ g.rank = a - 2 * r
    BY <1>3
  <2> DEFINE b == g.rank
  <2>3. a \in Nat /\ r \in Nat /\ b = a - 2 * r /\ rank \in {-1, 1}
    BY <1>5, <2>2
  <2> HIDE DEF n, a, r, b
  <2>4. n \in Nat /\ b + rank = a + 1 - 2 * n /\ (b + rank < 0 <=> 2 * n > a + 1)
    <3>1. CASE rank = 1
      BY <2>1, <2>3, <3>1
    <3>2. CASE rank = -1
      BY <2>1, <2>3, <3>2
    <3> QED
      BY <2>3, <3>1, <3>2
  <2> QED
    BY <2>4 DEF b
<1>15. (MostlyHarmed(p))' <=> harmed
  <2>1. now.proper = g.proper + proper /\ now.rank = g.rank + rank
    BY <1>9
  <2>2. now.proper < 0 <=> 2 * m > a + 1
    BY <1>13, <2>1
  <2>3. fit.ranked => (now.rank < 0 <=> 2 * n > a + 1)
    BY <1>14, <2>1
  <2>4. (MostlyHarmed(p))' <=> 2 * m > a + 1 /\ (fit.ranked => 2 * n > a + 1)
    BY <1>6 DEF MostlyHarmed
  <2> HIDE DEF now, m, n, a
  <2> QED
    BY <2>2, <2>3, <2>4
<1> HIDE DEF harmed, verdict, a
<1>16. gates'[p].phase = "new" => \A i \in DOMAIN decisions' : decisions'[i].pair # p
  BY <1>11, <1>12
<1>17. gates'[p].phase \in {"new", "audition"} => (Routings(p) = {})' /\ gates'[p].attempts < AuditionRounds
  BY <1>4, <1>11, <1>12
<1>18. gates'[p].phase \in {"approved", "rejected"} =>
          /\ gates'[p].attempts \in {0, AuditionRounds}
          /\ gates'[p].phase = IF (MostlyHarmed(p))' THEN "rejected" ELSE "approved"
          /\ (Routings(p) = {})'
  <2>1. a \in Nat /\ a < AuditionRounds
    BY <1>3, <1>5 DEF a
  <2> QED
    BY <1>1, <1>4, <1>11, <1>12, <1>15, <2>1
<1>19. /\ (Cardinality(Auditions(p)))' = gates'[p].attempts
       /\ gates'[p].proper = gates'[p].attempts - 2 * (Cardinality(Losses(p)))'
       /\ fit'.ranked => gates'[p].rank = gates'[p].attempts - 2 * (Cardinality(RankLosses(p)))'
  <2>1. gates'[p].attempts = a + 1
    BY <1>11
  <2>2. (Cardinality(Auditions(p)))' = gates'[p].attempts
    BY <1>6, <2>1
  <2> DEFINE new == gates'[p]
  <2>3. a \in Nat /\ m \in Nat /\ (fit.ranked => n \in Nat)
    BY <1>5, <1>13, <1>14 DEF a
  <2>4. /\ new.attempts = a + 1 /\ new.proper = a + 1 - 2 * m
        /\ fit.ranked => new.rank = a + 1 - 2 * n
    BY <1>11, <1>13, <1>14
  <2> HIDE DEF m, n, new
  <2>5. new.proper = new.attempts - 2 * m /\ (fit.ranked => new.rank = new.attempts - 2 * n)
    BY <2>3, <2>4
  <2>6. fit'.ranked = fit.ranked
    OBVIOUS
  <2> QED
    BY <2>2, <2>5, <2>6, Zenon DEF new, m, n
<1>20. gates'[p].attempts > 0
  <2>1. a \in Nat /\ gates'[p].attempts = a + 1
    BY <1>5, <1>11 DEF a
  <2> QED
    BY <2>1
<1>21. gates'[p].phase \in {"approved", "rejected"} =>
          /\ \A i \in (Auditions(p))', j \in (Routings(p))' : i < j
          /\ \A j \in (Routings(p))' : decisions'[j].phase = gates'[p].phase
  BY <1>18
<1> QED
  BY <1>16, <1>17, <1>18, <1>19, <1>20, <1>21 DEF Earned

\* A pair that is routed: by the verdict it earned, or because no audition is left for it.
LEMMA RoutingEarns ==
    ASSUME IInv, GrowthInv, NEW p \in Pairs, Gate(p).phase \in {"approved", "rejected"},
           fit' = fit, gates' = [gates EXCEPT ![p] = Gate(p)],
           NEW d \in Decision, d.pair = p, d.phase = Gate(p).phase,
           decisions' = Append(decisions, d)
    PROVE  Earned(p)'
<1> DEFINE g == Gate(p)
           k == Len(decisions) + 1
<1>1. /\ decisions \in Seq(Decision) /\ Earned(p)
      /\ gates \in [Pairs -> [phase : {"new", "audition", "approved", "rejected"},
                              attempts : Nat, proper : Int, rank : Int]]
      /\ AuditionRounds \in Nat /\ AuditionRounds > 0
  BY BoosterAssumption DEF GrowthInv, Scheduled, IInv, TypeOK
<1>2. /\ (Auditions(p))' = Auditions(p) /\ (Losses(p))' = Losses(p)
      /\ (RankLosses(p))' = RankLosses(p) /\ (Routings(p))' = Routings(p) \cup {k}
      /\ Auditions(p) \cup Routings(p) \subseteq 1 .. k - 1
  BY <1>1, OneMore
<1>3. /\ k \in Nat /\ decisions'[k] = d /\ \A i \in 1 .. k - 1 : decisions'[i] = decisions[i]
  BY <1>1, AppendProperties
<1>4. (MostlyHarmed(p))' = MostlyHarmed(p)
  BY <1>2 DEF MostlyHarmed
<1>5. gates'[p] = g
  BY <1>1
<1> HIDE DEF k
<1>6. /\ g.attempts = Cardinality(Auditions(p))
      /\ g.proper = g.attempts - 2 * Cardinality(Losses(p))
      /\ fit.ranked => g.rank = g.attempts - 2 * Cardinality(RankLosses(p))
  BY <1>1 DEF Earned, Gate
<1>7. /\ g.attempts \in {0, AuditionRounds}
      /\ g.phase = (IF MostlyHarmed(p) THEN "rejected" ELSE "approved")
      /\ \A j \in Routings(p) : decisions[j].phase = g.phase
      /\ \A i \in Auditions(p), j \in Routings(p) : i < j
  <2>1. CASE gates[p].phase = "new"
    <3>1. g.phase = "approved" /\ g.attempts = gates[p].attempts
      BY <1>1, <2>1 DEF Gate
    <3>2. Auditions(p) = {} /\ Routings(p) = {}
      BY <1>1, <2>1 DEF Earned, Auditions, Routings
    <3>3. Cardinality(Auditions(p)) = 0 /\ Losses(p) = {} /\ Cardinality(Losses(p)) = 0
      BY <3>2, FS_EmptySet DEF Losses
    <3>4. ~MostlyHarmed(p)
      BY <3>3 DEF MostlyHarmed
    <3> QED
      BY <1>6, <3>1, <3>2, <3>3, <3>4
  <2>2. CASE gates[p].phase # "new"
    <3>1. g = gates[p] /\ gates[p].phase \in {"approved", "rejected"}
      BY <2>2 DEF Gate
    <3> QED
      BY <1>1, <3>1 DEF Earned
  <2> QED
    BY <2>1, <2>2
<1> HIDE DEF g
<1>8. \A j \in Routings(p) \cup {k} : decisions'[j].phase = g.phase
  BY <1>2, <1>3, <1>7 DEF g
<1>9. \A i \in Auditions(p), j \in Routings(p) \cup {k} : i < j
  BY <1>2, <1>3, <1>7
<1>10. g.phase \in {"approved", "rejected"}
  BY DEF g
<1> QED
  BY <1>2, <1>4, <1>5, <1>6, <1>7, <1>8, <1>9, <1>10 DEF Earned

\* The budget judges an audition once, when it is recorded.
LEMMA BudgetStays ==
    ASSUME GrowthInv, NEW d \in Decision, decisions' = Append(decisions, d),
           d.phase = "audition" /\ (\A j \in DOMAIN decisions : decisions[j].pair # d.pair)
              => Trials < MaxAuditions
    PROVE  HeardWithinBudget'
<1> DEFINE k == Len(decisions) + 1
<1>1. /\ k \in Nat /\ DOMAIN decisions = 1 .. k - 1 /\ DOMAIN decisions' = 1 .. k
      /\ decisions'[k] = d /\ \A i \in 1 .. k - 1 : decisions'[i] = decisions[i]
  BY AppendProperties DEF GrowthInv, Scheduled
<1> HIDE DEF k
<1>2. SUFFICES ASSUME NEW i \in 1 .. k, decisions'[i].phase = "audition",
                      \A j \in 1 .. i - 1 : decisions'[j].pair # decisions'[i].pair
               PROVE  Cardinality({j \in 1 .. i - 1 : decisions'[j].phase = "audition"}) < MaxAuditions
  BY <1>1 DEF HeardWithinBudget
<1>3. /\ 1 .. i - 1 \subseteq 1 .. k - 1
      /\ \A j \in 1 .. i - 1 : decisions'[j] = decisions[j]
  BY <1>1
<1>4. {j \in 1 .. i - 1 : decisions'[j].phase = "audition"}
         = {j \in 1 .. i - 1 : decisions[j].phase = "audition"}
  BY <1>3
<1>5. CASE i = k
  <2>1. \A j \in DOMAIN decisions : decisions[j].pair # d.pair
    BY <1>1, <1>2, <1>3, <1>5
  <2>2. Trials < MaxAuditions
    BY <1>1, <1>2, <1>5, <2>1
  <2> QED
    BY <1>1, <1>4, <1>5, <2>2 DEF Trials
<1>6. CASE i # k
  <2>1. i \in DOMAIN decisions /\ decisions'[i] = decisions[i]
    BY <1>1, <1>6
  <2>2. \A j \in 1 .. i - 1 : decisions[j].pair # decisions[i].pair
    BY <1>2, <1>3, <2>1
  <2>3. decisions[i].phase = "audition"
    BY <1>2, <2>1
  <2>4. Cardinality({j \in 1 .. i - 1 : decisions[j].phase = "audition"}) < MaxAuditions
    BY <2>1, <2>2, <2>3 DEF GrowthInv, HeardWithinBudget
  <2> QED
    BY <1>4, <2>4
<1> QED
  BY <1>5, <1>6

\* A round with an audition.
LEMMA GrowthAudition ==
    ASSUME IInv, GrowthInv, NEW p \in Pairs, NEW proper \in {-1, 1},
           NEW rank \in (IF fit.ranked THEN {-1, 1} ELSE {0}), GrowAudition(p, proper, rank)
    PROVE  GrowthInv'
<1> DEFINE d == [round |-> Len(scored) + 1, pair |-> p, phase |-> "audition",
                 proper |-> proper, rank |-> rank]
<1>1. /\ loop = "grow" /\ Gate(p).phase = "audition"
      /\ gates' = [gates EXCEPT ![p] = Heard(Gate(p), proper, rank)]
      /\ decisions' = Append(decisions, d) /\ Grown(p, p) /\ fit' = fit
  BY DEF GrowAudition, Grown
<1>2. Len(scored) \in Nat /\ rank \in Int /\ (fit.ranked => rank \in {-1, 1}) /\ proper \in Int
  BY DEF IInv, TypeOK
<1>3. /\ d \in Decision /\ d.round = Len(scored) + 1 /\ d.pair = p /\ d.phase = "audition"
      /\ d.proper = proper /\ d.rank = rank
  BY <1>2 DEF Decision
<1> HIDE DEF d
<1>4. gates \in [Pairs -> Range(gates)]
  BY DEF IInv, TypeOK, Range
<1>5. Fresh' /\ Scheduled' /\ DeployedSoFar'
  BY <1>1, <1>3, Recorded
<1>6. Earned(p)'
  BY <1>1, <1>2, <1>3, AuditionEarns
<1>7. \A q \in Pairs : q # p => Earned(q)'
  BY <1>1, <1>3, <1>4, OthersStay
<1>8. (\A j \in DOMAIN decisions : decisions[j].pair # p) => Trials < MaxAuditions
  <2> SUFFICES ASSUME \A j \in DOMAIN decisions : decisions[j].pair # p
               PROVE  Trials < MaxAuditions
    OBVIOUS
  <2>1. Auditions(p) = {} /\ Cardinality(Auditions(p)) = 0
    BY FS_EmptySet DEF Auditions
  <2>2. gates[p].phase \in {"new", "audition"} /\ Earned(p)
    BY <1>1 DEF Gate, GrowthInv
  <2>3. gates[p].phase = "new"
    BY <2>1, <2>2 DEF Earned
  <2>4. ~(Trials >= MaxAuditions)
    BY <1>1, <2>3 DEF Gate, IInv, TypeOK
  <2>5. Trials \in Nat /\ MaxAuditions \in Nat
    <3>1. decisions \in Seq(Decision)
      BY DEF GrowthInv, Scheduled
    <3>2. IsFiniteSet(1 .. Len(decisions)) /\ DOMAIN decisions = 1 .. Len(decisions)
      BY <3>1, FS_Interval
    <3>3. IsFiniteSet({i \in DOMAIN decisions : decisions[i].phase = "audition"})
      BY <3>2, FS_Subset
    <3> QED
      BY <3>3, FS_CardinalityType, BoosterAssumption DEF Trials
  <2> QED
    BY <2>4, <2>5
<1>9. HeardWithinBudget'
  BY <1>1, <1>3, <1>8, BudgetStays
<1> QED
  BY <1>5, <1>6, <1>7, <1>9 DEF GrowthInv

\* A round that is routed by a verdict.
LEMMA GrowthRouted ==
    ASSUME IInv, GrowthInv, NEW p \in Pairs, GrowRouted(p)
    PROVE  GrowthInv'
<1> DEFINE d == [round |-> Len(scored) + 1, pair |-> p, phase |-> Gate(p).phase,
                 proper |-> 0, rank |-> 0]
           s == IF Gate(p).phase = "approved" THEN p ELSE NoPair
<1>1. /\ loop = "grow" /\ Gate(p).phase \in {"approved", "rejected"}
      /\ gates' = [gates EXCEPT ![p] = Gate(p)]
      /\ decisions' = Append(decisions, d) /\ Grown(p, s) /\ fit' = fit
  BY DEF GrowRouted, Grown
<1>2. Len(scored) \in Nat
  BY DEF IInv, TypeOK
<1>3. d \in Decision /\ d.round = Len(scored) + 1 /\ d.pair = p /\ d.phase = Gate(p).phase
  BY <1>1, <1>2 DEF Decision
<1> HIDE DEF d
<1>4. Grown(p, IF d.phase = "rejected" THEN NoPair ELSE p)
  <2>1. s = IF d.phase = "rejected" THEN NoPair ELSE p
    BY <1>1, <1>3
  <2> HIDE DEF s
  <2> QED
    BY <1>1, <2>1
<1>5. gates \in [Pairs -> Range(gates)]
  BY DEF IInv, TypeOK, Range
<1>6. Fresh' /\ Scheduled' /\ DeployedSoFar'
  BY <1>1, <1>3, <1>4, Recorded
<1>7. Earned(p)'
  BY <1>1, <1>3, RoutingEarns
<1>8. \A q \in Pairs : q # p => Earned(q)'
  BY <1>1, <1>3, <1>5, OthersStay
<1>9. HeardWithinBudget'
  BY <1>1, <1>3, BudgetStays
<1> QED
  BY <1>6, <1>7, <1>8, <1>9 DEF GrowthInv

\* Steps outside the loop leave the schedules alone.
LEMMA GrowthStutter == GrowthInv /\ UNCHANGED vars => GrowthInv'
<1> SUFFICES ASSUME GrowthInv, UNCHANGED vars PROVE GrowthInv'
  OBVIOUS
<1> USE DEF vars, fitVars, roundVars
<1>1. \A p \in Pairs : Earned(p)'
  BY EarnedStays DEF GrowthInv
<1>2. Fresh' /\ Scheduled' /\ HeardWithinBudget'
  BY DEF GrowthInv, Fresh, Scheduled, Grants, Attempts, HeardWithinBudget, Gated
<1>3. DeployedSoFar'
  BY DEF GrowthInv, DeployedSoFar, KeptRounds, Adaptive
<1> QED
  BY <1>1, <1>2, <1>3 DEF GrowthInv

\* Schedules, auditions and the deployed rounds agree in every state of the loop.
THEOREM GrowthInvariant == RoundsSpec => []GrowthInv
<1>1. IInv /\ GrowthInv /\ [RoundsNext]_vars => GrowthInv'
  <2> SUFFICES ASSUME IInv, GrowthInv, [RoundsNext]_vars PROVE GrowthInv'
    OBVIOUS
  <2>1. CASE \E f \in Fits : Begin(f)
    BY <2>1, GrowthBegin
  <2>2. CASE GrowOrdinary
    BY <2>2, GrowthOrdinary
  <2>3. CASE \E p \in Pairs, proper \in {-1, 1}, rank \in IF fit.ranked THEN {-1, 1} ELSE {0} :
                GrowAudition(p, proper, rank)
    BY <2>3, GrowthAudition
  <2>4. CASE \E p \in Pairs : GrowRouted(p)
    BY <2>4, GrowthRouted
  <2>5. CASE \E reading \in [fit.metrics -> fit.scores], look \in Looks : CompleteRound(reading, look)
    BY <2>5, GrowthComplete
  <2>6. CASE KeepPrefix \/ \E p \in Pairs : RefitRound(p)
    BY <2>6, GrowthDeploy
  <2>7. CASE UNCHANGED vars
    BY <2>7, GrowthStutter
  <2> QED
    BY <2>1, <2>2, <2>3, <2>4, <2>5, <2>6, <2>7 DEF RoundsNext
<1> QED
  BY GrowthInit, Inductive, <1>1, PTL DEF RoundsSpec, vars

\* A pair has its verdict from AuditionRounds auditions, all of which came before it and all
\* of which count; none is heard for the first time once the auditions are used up, and the
\* schedule has each decision as it was made (pair_expert_states, _PAIR_EXPERT_*).
THEOREM AuditionsDecide == RoundsSpec => []VerdictsAreEarned
<1>1. IInv /\ GrowthInv => VerdictsAreEarned
  <2> SUFFICES ASSUME IInv, GrowthInv PROVE VerdictsAreEarned
    OBVIOUS
  <2>1. ASSUME NEW p \in Pairs, Routings(p) # {}
        PROVE  /\ Cardinality(Auditions(p)) \in {0, AuditionRounds}
               /\ \A i \in Auditions(p), j \in Routings(p) : decisions[i].round < decisions[j].round
               /\ \A j \in Routings(p) :
                     decisions[j].phase = IF MostlyHarmed(p) THEN "rejected" ELSE "approved"
    <3>1. Earned(p)
      BY DEF GrowthInv
    <3>2. gates[p].phase \in {"approved", "rejected"}
      <4>1. PICK j \in DOMAIN decisions : decisions[j].pair = p /\ decisions[j].phase # "audition"
        BY <2>1 DEF Routings
      <4> QED
        BY <2>1, <3>1, <4>1 DEF Earned, IInv, TypeOK
    <3>3. /\ Cardinality(Auditions(p)) \in {0, AuditionRounds}
          /\ \A i \in Auditions(p), j \in Routings(p) : i < j
          /\ \A j \in Routings(p) :
                decisions[j].phase = IF MostlyHarmed(p) THEN "rejected" ELSE "approved"
      BY <3>1, <3>2 DEF Earned
    <3>4. \A i \in Auditions(p), j \in Routings(p) : decisions[i].round < decisions[j].round
      BY <3>3 DEF GrowthInv, Scheduled, Auditions, Routings
    <3> QED
      BY <3>3, <3>4
  <2>2. ASSUME NEW d \in Range(decisions), d.round \in DOMAIN granted
        PROVE  granted[d.round] = IF d.phase = "rejected" THEN NoPair ELSE d.pair
    <3>1. PICK i \in DOMAIN decisions : d = decisions[i]
      BY <2>2 DEF Range
    <3>2. Grants[d.round] = IF d.phase = "rejected" THEN NoPair ELSE d.pair
      BY <3>1 DEF GrowthInv, Scheduled
    <3> QED
      BY <2>2, <3>2 DEF Grants
  <2> QED
    BY <2>1, <2>2 DEF VerdictsAreEarned, GrowthInv, HeardWithinBudget
<1> QED
  BY Inductive, GrowthInvariant, <1>1, PTL

\* The larger of two numbers.
LEMMA MaxOfTwo ==
    ASSUME NEW a \in Int, NEW b \in Int
    PROVE  Max({a, b}) = IF a >= b THEN a ELSE b
<1>1. \E x \in {a, b} : \A y \in {a, b} : x >= y
  OBVIOUS
<1>2. Max({a, b}) \in {a, b} /\ \A y \in {a, b} : Max({a, b}) >= y
  BY <1>1 DEF Max
<1> QED
  BY <1>2

\* The rounds that were attempted and not granted, and the decisions that rejected them.
LEMMA RejectedAreDecided ==
    ASSUME IInv, GrowthInv, loop = "done", Adaptive
    PROVE  LET C == {i \in DOMAIN deployed : deployed[i] # NoPair}
               D == {d \in Retained : d.phase = "rejected"}
           IN  /\ RejectedRounds = Cardinality(D) /\ IsFiniteSet(D) /\ IsFiniteSet(C)
               /\ \A d \in Retained : d.phase # "rejected" => C # {}
<1> DEFINE K == KeptRounds
           A == {i \in DOMAIN deployed : attempted[i] # NoPair}
           C == {i \in DOMAIN deployed : deployed[i] # NoPair}
           R == A \ C
           D == {d \in Retained : d.phase = "rejected"}
<1>1. /\ K \in Nat /\ K <= Len(granted) /\ Len(attempted) = Len(granted)
      /\ DOMAIN deployed = 1 .. K /\ Len(granted) \in Nat
  <2>1. fit \in Fits /\ fit.primary \in fit.metrics
    BY FitTypes DEF IInv, Patient
  <2> QED
    BY <2>1 DEF IInv, TypeOK, InStep, KeptRounds, GrowthInv, DeployedSoFar
<1>2. \A i \in 1 .. K : (deployed[i] # NoPair) = (granted[i] # NoPair)
  BY <1>1 DEF GrowthInv, DeployedSoFar
<1>3. Grants = granted /\ Attempts = attempted
  BY DEF Grants, Attempts
<1>4. \A i \in DOMAIN decisions :
          /\ decisions[i].round \in 1 .. Len(attempted) /\ decisions[i].pair \in Pairs
          /\ decisions[i].pair # NoPair
          /\ attempted[decisions[i].round] = decisions[i].pair
          /\ granted[decisions[i].round] = IF decisions[i].phase = "rejected" THEN NoPair ELSE decisions[i].pair
  <2> SUFFICES ASSUME NEW i \in DOMAIN decisions
               PROVE  /\ decisions[i].round \in 1 .. Len(attempted) /\ decisions[i].pair \in Pairs
                      /\ decisions[i].pair # NoPair
                      /\ attempted[decisions[i].round] = decisions[i].pair
                      /\ granted[decisions[i].round] =
                            IF decisions[i].phase = "rejected" THEN NoPair ELSE decisions[i].pair
    OBVIOUS
  <2>1. decisions[i] \in Decision
    BY DEF GrowthInv, Scheduled
  <2>2. decisions[i].pair \in Pairs /\ decisions[i].pair # NoPair
    BY <2>1, BoosterAssumption DEF Decision
  <2>3. /\ decisions[i].round \in 1 .. Len(Attempts)
        /\ Attempts[decisions[i].round] = decisions[i].pair
        /\ Grants[decisions[i].round] =
              IF decisions[i].phase = "rejected" THEN NoPair ELSE decisions[i].pair
    BY DEF GrowthInv, Scheduled
  <2> QED
    BY <1>3, <2>2, <2>3
<1>5. \A i \in 1 .. K : attempted[i] # granted[i] => \E j \in DOMAIN decisions : decisions[j].round = i
  BY <1>1, <1>3 DEF GrowthInv, Scheduled
<1> HIDE DEF K
<1>6. C = {i \in 1 .. K : granted[i] # NoPair} /\ A = {i \in 1 .. K : attempted[i] # NoPair}
  BY <1>1, <1>2
<1>7. C \subseteq A
  BY <1>4, <1>5, <1>6
<1>8. IsFiniteSet(A) /\ IsFiniteSet(C)
  <2>1. IsFiniteSet(1 .. K)
    BY <1>1, FS_Interval
  <2> QED
    BY <1>6, <2>1, FS_Subset
<1>9. \A i \in R : \E d \in D : d.round = i
  <2> SUFFICES ASSUME NEW i \in R PROVE \E d \in D : d.round = i
    OBVIOUS
  <2>1. i \in 1 .. K /\ attempted[i] # NoPair /\ granted[i] = NoPair
    BY <1>6
  <2>2. PICK j \in DOMAIN decisions : decisions[j].round = i
    BY <1>5, <2>1
  <2>3. decisions[j].phase = "rejected"
    BY <1>4, <2>1, <2>2
  <2>4. decisions[j] \in Retained
    BY <1>1, <2>1, <2>2 DEF Retained, Range, K
  <2> QED
    BY <2>2, <2>3, <2>4
<1>10. \A d \in Retained : /\ d.round \in 1 .. K /\ attempted[d.round] # NoPair
                           /\ granted[d.round] = IF d.phase = "rejected" THEN NoPair ELSE d.pair
                           /\ d.pair # NoPair
  <2> SUFFICES ASSUME NEW d \in Retained
               PROVE  /\ d.round \in 1 .. K /\ attempted[d.round] # NoPair
                      /\ granted[d.round] = IF d.phase = "rejected" THEN NoPair ELSE d.pair
                      /\ d.pair # NoPair
    OBVIOUS
  <2>1. PICK j \in DOMAIN decisions : d = decisions[j]
    BY DEF Retained, Range
  <2>2. d.round <= K
    BY DEF Retained, K
  <2> QED
    BY <1>1, <1>4, <2>1, <2>2
<1>11. \A d, e \in Retained : d.round = e.round => d = e
  <2> SUFFICES ASSUME NEW d \in Retained, NEW e \in Retained, d.round = e.round
               PROVE  d = e
    OBVIOUS
  <2>1. PICK i \in DOMAIN decisions : d = decisions[i]
    BY DEF Retained, Range
  <2>2. PICK j \in DOMAIN decisions : e = decisions[j]
    BY DEF Retained, Range
  <2>3. /\ i \in Int /\ j \in Int /\ d.round \in Int
        /\ i < j => decisions[i].round < decisions[j].round
        /\ j < i => decisions[j].round < decisions[i].round
    BY <1>10, <2>1, <2>2 DEF GrowthInv, Scheduled
  <2> QED
    BY <2>1, <2>2, <2>3
<1>12. Cardinality(D) = Cardinality(R) /\ IsFiniteSet(D)
  <2> DEFINE f == [d \in D |-> d.round]
  <2>1. \A d \in D : d.round \in R
    BY <1>6, <1>10
  <2>2. f \in [D -> R] /\ (\A d, e \in D : f[d] = f[e] => d = e) /\ \A i \in R : \E d \in D : f[d] = i
    BY <1>9, <1>11, <2>1
  <2> HIDE DEF f
  <2>3. f \in Injection(D, R) /\ f \in Surjection(D, R)
    BY <2>2 DEF Injection, Surjection, IsInjective
  <2>4. IsFiniteSet(R)
    BY <1>8, FS_Difference
  <2> QED
    BY <2>3, <2>4, FS_Injection
<1>13. Cardinality(R) = Cardinality(A) - Cardinality(C) /\ Cardinality(R) \in Nat
  <2>1. A \cap C = C
    BY <1>7
  <2> HIDE DEF A, C
  <2> QED
    BY <1>8, <2>1, FS_Difference, FS_CardinalityType
<1>14. RejectedRounds = Cardinality(R)
  <2>1. AttemptedRounds = Cardinality(A) /\ ActiveRounds = Cardinality(C)
    BY DEF AttemptedRounds, ActiveRounds
  <2>2. Cardinality(A) \in Nat /\ Cardinality(C) \in Nat
    BY <1>8, FS_CardinalityType
  <2> DEFINE a == Cardinality(A)
             c == Cardinality(C)
             r == Cardinality(R)
  <2>3. a \in Nat /\ c \in Nat /\ r = a - c /\ r \in Nat
    BY <1>13, <2>2
  <2>4. RejectedRounds = Max({0, a - c})
    BY <2>1 DEF RejectedRounds
  <2> HIDE DEF a, c, r
  <2>5. Max({0, a - c}) = r
    BY <2>3, MaxOfTwo
  <2> QED
    BY <2>4, <2>5 DEF r
<1>15. \A d \in Retained : d.phase # "rejected" => C # {}
  BY <1>6, <1>10
<1> QED
  BY <1>8, <1>12, <1>14, <1>15

\* A deployed stage has the decision of its round behind it, where there is a gate.
LEMMA SlotsAreEarned ==
    ASSUME IInv, GrowthInv, loop = "done", Adaptive, NEW i \in DOMAIN deployed
    PROVE  /\ (deployed[i] # NoPair) = (granted[i] # NoPair)
           /\ fit.refit \/ deployed[i] = granted[i]
           /\ Gated /\ deployed[i] # NoPair =>
                 \E d \in Retained : /\ d.round = i /\ d.phase # "rejected"
                                     /\ fit.refit \/ d.pair = deployed[i]
<1>1. /\ KeptRounds \in Nat /\ KeptRounds <= Len(granted) /\ Len(attempted) = Len(granted)
      /\ DOMAIN deployed = 1 .. KeptRounds /\ Len(granted) \in Nat
  <2>1. fit \in Fits /\ fit.primary \in fit.metrics
    BY FitTypes DEF IInv, Patient
  <2> QED
    BY <2>1 DEF IInv, TypeOK, InStep, KeptRounds, GrowthInv, DeployedSoFar
<1>2. (deployed[i] # NoPair) = (granted[i] # NoPair) /\ (fit.refit \/ deployed[i] = granted[i])
  BY DEF GrowthInv, DeployedSoFar
<1>3. ASSUME Gated, deployed[i] # NoPair
      PROVE  \E d \in Retained : /\ d.round = i /\ d.phase # "rejected"
                                 /\ fit.refit \/ d.pair = deployed[i]
  <2>1. Grants = granted /\ Attempts = attempted
    BY DEF Grants, Attempts
  <2>2. i \in 1 .. Len(Attempts) /\ Grants[i] # NoPair
    BY <1>1, <1>2, <1>3, <2>1
  <2>3. PICK j \in DOMAIN decisions : decisions[j].round = i
    BY <1>3, <2>2 DEF GrowthInv, Scheduled
  <2>4. Grants[i] = IF decisions[j].phase = "rejected" THEN NoPair ELSE decisions[j].pair
    BY <2>3 DEF GrowthInv, Scheduled
  <2>5. decisions[j] \in Retained
    BY <1>1, <2>3 DEF Retained, Range
  <2> QED
    BY <1>2, <2>1, <2>2, <2>3, <2>4, <2>5
<1> QED
  BY <1>2, <1>3

\* The report counts what was deployed: each deployed slot was earned in its round (by the
\* decision of that round, where there is a gate) and, without a refit, holds the pair that
\* earned it; each round counted as rejected has the decision that rejected it
\* (pair_growth_schedule_, pair_growth).
THEOREM ReportsWhatItDeploys == RoundsSpec => []ReportIsDeployed
<1>1. IInv /\ GrowthInv => ReportIsDeployed
  <2> SUFFICES ASSUME IInv, GrowthInv, loop = "done", Adaptive
               PROVE  /\ Len(deployed) = KeptRounds
                      /\ \A i \in DOMAIN deployed :
                            /\ (deployed[i] # NoPair) = (granted[i] # NoPair)
                            /\ fit.refit \/ deployed[i] = granted[i]
                            /\ Gated /\ deployed[i] # NoPair =>
                                  \E d \in Retained : /\ d.round = i /\ d.phase # "rejected"
                                                      /\ fit.refit \/ d.pair = deployed[i]
                      /\ RejectedRounds = Cardinality({d \in Retained : d.phase = "rejected"})
                      /\ PairReason = "pair_expert_rejected" =>
                            Retained # {} /\ \A d \in Retained : d.phase = "rejected"
    BY DEF ReportIsDeployed
  <2> DEFINE C == {i \in DOMAIN deployed : deployed[i] # NoPair}
             D == {d \in Retained : d.phase = "rejected"}
  <2>1. /\ RejectedRounds = Cardinality(D) /\ IsFiniteSet(D) /\ IsFiniteSet(C)
        /\ \A d \in Retained : d.phase # "rejected" => C # {}
    BY RejectedAreDecided
  <2>2. Cardinality(C) = ActiveRounds
    BY DEF ActiveRounds
  <2>3. D \subseteq Retained
    OBVIOUS
  <2> HIDE DEF C, D
  <2>4. \A i \in DOMAIN deployed :
            /\ (deployed[i] # NoPair) = (granted[i] # NoPair)
            /\ fit.refit \/ deployed[i] = granted[i]
            /\ Gated /\ deployed[i] # NoPair =>
                  \E d \in Retained : /\ d.round = i /\ d.phase # "rejected"
                                      /\ fit.refit \/ d.pair = deployed[i]
    BY SlotsAreEarned
  <2>5. ASSUME PairReason = "pair_expert_rejected"
        PROVE  Retained # {} /\ \A d \in Retained : d.phase = "rejected"
    <3>1. ~(ActiveRounds > 0) /\ RejectedRounds > 0
      BY <2>5 DEF PairReason
    <3>2. C = {}
      BY <2>1, <2>2, <3>1, FS_CardinalityType, FS_EmptySet
    <3>3. D # {}
      BY <2>1, <3>1, FS_EmptySet
    <3> QED
      BY <2>1, <2>3, <3>2, <3>3
  <2> QED
    BY <2>1, <2>4, <2>5 DEF GrowthInv, DeployedSoFar, D
<1> QED
  BY Inductive, GrowthInvariant, <1>1, PTL

-----------------------------------------------------------------------------
(* Sequences of the members of a set.                                      *)

\* What SetToSeqs returns: every member once.
LEMMA SeqOfSet ==
    ASSUME NEW S, IsFiniteSet(S), NEW o \in SetToSeqs(S)
    PROVE  /\ Cardinality(S) \in Nat
           /\ o \in Seq(S) /\ Len(o) = Cardinality(S) /\ DOMAIN o = 1 .. Cardinality(S)
           /\ Range(o) = S /\ IsInjective(o)
<1>1. Cardinality(S) \in Nat
  BY FS_CardinalityType
<1> DEFINE n == Cardinality(S)
<1>2. o \in [1 .. n -> S] /\ \A i, j \in 1 .. n : i # j => o[i] # o[j]
  BY DEF SetToSeqs
<1>3. o \in Injection(1 .. n, S)
  BY <1>2 DEF Injection, IsInjective
<1>4. IsFiniteSet(1 .. n) /\ Cardinality(1 .. n) = n
  BY <1>1, FS_Interval
<1>5. o \in Surjection(1 .. n, S)
  BY <1>3, <1>4, FS_Injection
<1>6. Range(o) = S
  BY <1>2, <1>5 DEF Surjection, Range
<1>7. o \in Seq(S) /\ Len(o) = n
  BY <1>1, <1>2
<1> QED
  BY <1>1, <1>2, <1>3, <1>6, <1>7 DEF Injection

\* A strict total order of a finite set sorts it: Python's sorted() returns every candidate
\* once, in the order of the key.
LEMMA OrderedIsSorted ==
    ASSUME NEW S, IsFiniteSet(S), NEW R,
           \A a \in S : <<a, a>> \notin R,
           \A a, b, c \in S : <<a, b>> \in R /\ <<b, c>> \in R => <<a, c>> \in R,
           \A a, b \in S : a = b \/ <<a, b>> \in R \/ <<b, a>> \in R
    PROVE  /\ Ordered(S, R) \in SetToSeqs(S)
           /\ \A i, j \in DOMAIN Ordered(S, R) : i < j => <<Ordered(S, R)[i], Ordered(S, R)[j]>> \in R
<1> DEFINE n == Cardinality(S)
           below(a) == {b \in S : <<b, a>> \in R}
           place == [a \in S |-> Cardinality(below(a)) + 1]
<1>1. n \in Nat
  BY FS_CardinalityType
<1>2. ASSUME NEW a \in S
      PROVE  IsFiniteSet(below(a)) /\ Cardinality(below(a)) \in Nat
  <2>1. below(a) \in SUBSET S
    OBVIOUS
  <2> QED
    BY <2>1, FS_Subset, FS_CardinalityType
<1>3. ASSUME NEW a \in S
      PROVE  Cardinality(below(a)) + 1 <= n
  <2>1. below(a) \in SUBSET (S \ {a})
    OBVIOUS
  <2>2. IsFiniteSet(S \ {a}) /\ Cardinality(S \ {a}) = n - 1
    BY FS_RemoveElement
  <2> HIDE DEF below
  <2>3. Cardinality(below(a)) <= n - 1
    BY <2>1, <2>2, FS_Subset
  <2>4. Cardinality(below(a)) \in Nat
    BY <1>2
  <2> QED
    BY <1>1, <2>3, <2>4
<1>4. ASSUME NEW a \in S, NEW b \in S, <<a, b>> \in R
      PROVE  Cardinality(below(a)) < Cardinality(below(b))
  <2>1. (below(a) \cup {a}) \in SUBSET below(b)
    BY <1>4
  <2>2. a \notin below(a)
    OBVIOUS
  <2> HIDE DEF below
  <2>3. Cardinality(below(a) \cup {a}) = Cardinality(below(a)) + 1
    BY <1>2, <2>2, FS_AddElement
  <2>4. Cardinality(below(a) \cup {a}) <= Cardinality(below(b))
    BY <1>2, <2>1, FS_Subset
  <2> QED
    BY <1>2, <2>3, <2>4
<1>5. place \in [S -> 1 .. n]
  <2> HIDE DEF below, n
  <2> QED
    BY <1>1, <1>2, <1>3
<1>6. \A a, b \in S : <<a, b>> \in R => place[a] < place[b]
  <2> HIDE DEF below
  <2> QED
    BY <1>2, <1>4
<1> HIDE DEF place
<1>7. \A a, b \in S : place[a] = place[b] => a = b
  <2> SUFFICES ASSUME NEW a \in S, NEW b \in S, place[a] = place[b], a # b
               PROVE  FALSE
    OBVIOUS
  <2>1. place[a] < place[b] \/ place[b] < place[a]
    BY <1>6
  <2>2. place[a] \in Int /\ place[b] \in Int
    BY <1>1, <1>5
  <2> QED
    BY <2>1, <2>2
<1>8. place \in Surjection(S, 1 .. n)
  <2>1. place \in Injection(S, 1 .. n)
    BY <1>5, <1>7 DEF Injection, IsInjective
  <2>2. IsFiniteSet(1 .. n) /\ Cardinality(1 .. n) = n
    BY <1>1, FS_Interval
  <2> QED
    BY <2>1, <2>2, FS_Injection
<1> DEFINE o == [i \in 1 .. n |-> CHOOSE a \in S : place[a] = i]
<1>9. \A i \in 1 .. n : o[i] \in S /\ place[o[i]] = i
  BY <1>8 DEF Surjection
<1>10. o \in [1 .. n -> S]
  BY <1>9
<1> HIDE DEF o
<1>11. \A i, j \in 1 .. n : i # j => o[i] # o[j]
  BY <1>9
<1>12. \A i, j \in 1 .. n : i < j => <<o[i], o[j]>> \in R
  <2> SUFFICES ASSUME NEW i \in 1 .. n, NEW j \in 1 .. n, i < j, <<o[i], o[j]>> \notin R
               PROVE  FALSE
    OBVIOUS
  <2>1. <<o[j], o[i]>> \in R
    BY <1>9, <1>11
  <2>2. j < i
    BY <2>1, <1>6, <1>9
  <2> QED
    BY <2>2
<1>13. o \in SetToSeqs(S) /\ DOMAIN o = 1 .. n
  BY <1>10, <1>11 DEF SetToSeqs
<1>14. \E q \in SetToSeqs(S) : \A i, j \in DOMAIN q : i < j => <<q[i], q[j]>> \in R
  BY <1>12, <1>13
<1> QED
  BY <1>14 DEF Ordered

\* The smaller of two numbers.
LEMMA MinOfTwo ==
    ASSUME NEW a \in Int, NEW b \in Int
    PROVE  Min({a, b}) = IF a <= b THEN a ELSE b
<1>1. \E x \in {a, b} : \A y \in {a, b} : x <= y
  OBVIOUS
<1>2. Min({a, b}) \in {a, b} /\ \A y \in {a, b} : Min({a, b}) <= y
  BY <1>1 DEF Min
<1> QED
  BY <1>2

\* A sequence without repetitions is as long as its range is large.
LEMMA LengthOfInjective ==
    ASSUME NEW S, NEW o \in Seq(S), IsInjective(o)
    PROVE  IsFiniteSet(Range(o)) /\ Cardinality(Range(o)) = Len(o)
<1>1. o \in Surjection(1 .. Len(o), Range(o))
  BY DEF Surjection, Range
<1>2. o \in Injection(1 .. Len(o), Range(o))
  BY <1>1 DEF Surjection, Injection
<1>3. IsFiniteSet(1 .. Len(o)) /\ Cardinality(1 .. Len(o)) = Len(o)
  <2> DEFINE n == Len(o)
  <2>1. n \in Nat
    OBVIOUS
  <2> HIDE DEF n
  <2>2. IsFiniteSet(1 .. n) /\ Cardinality(1 .. n) = n
    BY <2>1, FS_Interval
  <2> QED
    BY <2>2 DEF n
<1> QED
  BY <1>1, <1>2, <1>3, FS_Surjection

\* The positions of a sequence without repetitions order its members strictly and totally.
LEMMA PrecedesIsStrict ==
    ASSUME NEW S, NEW o \in Seq(S), IsInjective(o)
    PROVE  /\ \A a \in Range(o) : ~Precedes(o, a, a)
           /\ \A a, b, c \in Range(o) : Precedes(o, a, b) /\ Precedes(o, b, c) => Precedes(o, a, c)
           /\ \A a, b \in Range(o) : a = b \/ Precedes(o, a, b) \/ Precedes(o, b, a)
<1>1. DOMAIN o \subseteq Nat
  OBVIOUS
<1>2. \A a \in Range(o) : ~Precedes(o, a, a)
  BY <1>1 DEF Precedes, IsInjective
<1>3. ASSUME NEW a, NEW b, NEW c, Precedes(o, a, b), Precedes(o, b, c)
      PROVE  Precedes(o, a, c)
  <2>1. PICK i, j \in DOMAIN o : i < j /\ o[i] = a /\ o[j] = b
    BY <1>3 DEF Precedes
  <2>2. PICK k, l \in DOMAIN o : k < l /\ o[k] = b /\ o[l] = c
    BY <1>3 DEF Precedes
  <2>3. j = k
    BY <2>1, <2>2 DEF IsInjective
  <2>4. i < l
    BY <1>1, <2>1, <2>2, <2>3
  <2> QED
    BY <2>1, <2>2, <2>4 DEF Precedes
<1>4. ASSUME NEW a \in Range(o), NEW b \in Range(o), a # b
      PROVE  Precedes(o, a, b) \/ Precedes(o, b, a)
  <2>1. PICK i \in DOMAIN o : o[i] = a
    BY DEF Range
  <2>2. PICK j \in DOMAIN o : o[j] = b
    BY DEF Range
  <2>3. i < j \/ j < i
    BY <1>1, <1>4, <2>1, <2>2
  <2> QED
    BY <2>1, <2>2, <2>3 DEF Precedes
<1> QED
  BY <1>2, <1>3, <1>4

-----------------------------------------------------------------------------
(* candidate_allocation.py *)

\* A sequence of candidates, each once, and the scores of a rung.
Field(s, cands) ==
    /\ cands \in Seq(Candidates) /\ IsInjective(cands) /\ Base \in Range(cands)
    /\ s \in [Range(cands) -> Scores]

\* The candidates of a rung, their number and their scores.
LEMMA FieldTypes ==
    ASSUME NEW s, NEW cands, Field(s, cands)
    PROVE  /\ Range(cands) \subseteq Candidates /\ IsFiniteSet(Range(cands))
           /\ Len(cands) = Cardinality(Range(cands)) /\ Len(cands) \in Nat \ {0}
           /\ Head(cands) \in Range(cands)
           /\ \A c \in Range(cands) : /\ s[c] \in Scores /\ s[c].abs \in Int
                                      /\ s[c].second \in Int /\ s[c].paired \in Seq(Int)
<1> USE DEF Field
<1>1. Range(cands) \subseteq Candidates
  BY DEF Range
<1>2. IsFiniteSet(Range(cands)) /\ Cardinality(Range(cands)) = Len(cands)
  BY LengthOfInjective
<1>3. PICK i \in DOMAIN cands : cands[i] = Base
  BY DEF Range
<1>4. Len(cands) \in Nat /\ i \in 1 .. Len(cands)
  OBVIOUS
<1>5. Len(cands) \in Nat \ {0} /\ 1 \in DOMAIN cands
  BY <1>4
<1>6. Head(cands) \in Range(cands)
  BY <1>5 DEF Range
<1>7. \A c \in Range(cands) : /\ s[c] \in Scores /\ s[c].abs \in Int
                              /\ s[c].second \in Int /\ s[c].paired \in Seq(Int)
  BY ScoresAssumption
<1> QED
  BY <1>1, <1>2, <1>5, <1>6, <1>7

\* The absolute order ranks every candidate once, and its head has the best metric.
LEMMA LeaderIsBest ==
    ASSUME NEW s, NEW cands, Field(s, cands)
    PROVE  /\ AbsRanked(s, cands) \in SetToSeqs(Range(cands))
           /\ Head(AbsRanked(s, cands)) \in Range(cands)
           /\ \A c \in Range(cands) : s[c].abs <= s[Head(AbsRanked(s, cands))].abs
<1> DEFINE S == Range(cands)
           R == {e \in S \X S : \/ AbsBefore(s, e[1], e[2])
                                \/ ~AbsBefore(s, e[2], e[1]) /\ Precedes(cands, e[1], e[2])}
           Q(a, b) == \/ AbsBefore(s, a, b)
                      \/ ~AbsBefore(s, b, a) /\ Precedes(cands, a, b)
<1>1. \A a \in S : s[a].abs \in Int /\ s[a].second \in Int
  BY FieldTypes
<1>2. IsFiniteSet(S) /\ Base \in S /\ Cardinality(S) \in Nat \ {0}
  BY FieldTypes DEF Field
<1>3. /\ \A a \in S : ~Precedes(cands, a, a)
      /\ \A a, b, c \in S : Precedes(cands, a, b) /\ Precedes(cands, b, c) => Precedes(cands, a, c)
      /\ \A a, b \in S : a = b \/ Precedes(cands, a, b) \/ Precedes(cands, b, a)
  BY PrecedesIsStrict DEF Field
<1> HIDE DEF S
<1>4. \A a, b \in S : <<a, b>> \in R <=> Q(a, b)
  OBVIOUS
<1>5. \A a \in S : ~Q(a, a)
  BY <1>1, <1>3 DEF AbsBefore
<1>6. ASSUME NEW a \in S, NEW b \in S, NEW c \in S, Q(a, b), Q(b, c)
      PROVE  Q(a, c)
  <2>1. CASE AbsBefore(s, a, c)
    BY <2>1
  <2>2. CASE ~AbsBefore(s, a, c)
    <3>1. ~AbsBefore(s, c, a) /\ ~AbsBefore(s, a, b) /\ ~AbsBefore(s, b, c)
      BY <1>1, <1>6, <2>2 DEF AbsBefore
    <3> QED
      BY <1>3, <1>6, <3>1
  <2> QED
    BY <2>1, <2>2
<1>7. \A a, b \in S : a = b \/ Q(a, b) \/ Q(b, a)
  BY <1>3
<1> HIDE DEF R, Q
<1>8. /\ \A a \in S : <<a, a>> \notin R
      /\ \A a, b, c \in S : <<a, b>> \in R /\ <<b, c>> \in R => <<a, c>> \in R
      /\ \A a, b \in S : a = b \/ <<a, b>> \in R \/ <<b, a>> \in R
  BY <1>4, <1>5, <1>6, <1>7
<1> DEFINE o == Ordered(S, R)
<1>9. o \in SetToSeqs(S) /\ \A i, j \in DOMAIN o : i < j => <<o[i], o[j]>> \in R
  BY <1>2, <1>8, OrderedIsSorted
<1>10. AbsRanked(s, cands) = o
  BY DEF AbsRanked, S, R
<1> HIDE DEF o
<1>11. o \in Seq(S) /\ DOMAIN o = 1 .. Cardinality(S) /\ Range(o) = S
  BY <1>2, <1>9, SeqOfSet
<1>12. 1 \in DOMAIN o /\ Head(o) = o[1] /\ Head(o) \in S
  BY <1>2, <1>11
<1>13. ASSUME NEW c \in S
       PROVE  s[c].abs <= s[Head(o)].abs
  <2>1. PICK j \in DOMAIN o : o[j] = c
    BY <1>11 DEF Range
  <2>2. CASE j = 1
    BY <1>1, <1>12, <2>1, <2>2
  <2>3. CASE j # 1
    <3>1. 1 < j
      BY <1>11, <2>3
    <3>2. Q(Head(o), c)
      BY <1>4, <1>9, <1>12, <2>1, <3>1
    <3>3. AbsBefore(s, Head(o), c) \/ ~AbsBefore(s, c, Head(o))
      BY <3>2 DEF Q
    <3> QED
      BY <1>1, <1>12, <3>3 DEF AbsBefore
  <2> QED
    BY <2>2, <2>3
<1> QED
  BY <1>9, <1>10, <1>12, <1>13 DEF S

\* Every order an allocation may take is one of all its candidates.
LEMMA OrdersAreComplete ==
    ASSUME NEW s, NEW cands, Field(s, cands), NEW o \in Orders(s, cands)
    PROVE  o \in SetToSeqs(Range(cands))
BY LeaderIsBest DEF Orders, RobustOrders

\* The members of a set kept in the order of a sequence.
LEMMA StayInOrder ==
    ASSUME NEW S, NEW o \in Seq(S), IsInjective(o), NEW T \in SUBSET Range(o)
    PROVE  LET q == Ordered(T, {e \in T \X T : Precedes(o, e[1], e[2])})
           IN  q \in Seq(T) /\ IsInjective(q)
<1> DEFINE R == {e \in T \X T : Precedes(o, e[1], e[2])}
           q == Ordered(T, R)
<1>1. IsFiniteSet(T)
  BY LengthOfInjective, FS_Subset
<1>2. \A a, b \in T : <<a, b>> \in R <=> Precedes(o, a, b)
  OBVIOUS
<1>3. \A a \in T : a \in Range(o)
  OBVIOUS
<1> HIDE DEF R
<1>4. /\ \A a \in T : <<a, a>> \notin R
      /\ \A a, b, c \in T : <<a, b>> \in R /\ <<b, c>> \in R => <<a, c>> \in R
      /\ \A a, b \in T : a = b \/ <<a, b>> \in R \/ <<b, a>> \in R
  BY <1>2, <1>3, PrecedesIsStrict
<1>5. q \in SetToSeqs(T)
  BY <1>1, <1>4, OrderedIsSorted
<1> HIDE DEF q
<1>6. q \in Seq(T) /\ IsInjective(q)
  BY <1>1, <1>5, SeqOfSet
<1> QED
  BY <1>6 DEF q, R

\* The leader and then the others, cut to the budget.
LEMMA CutToBudget ==
    ASSUME NEW S, NEW leader \in S, NEW q \in Seq(S), IsInjective(q), leader \notin Range(q),
           NEW k \in 1 .. 1 + Len(q)
    PROVE  LET kept == SubSeq(<<leader>> \o q, 1, k)
           IN  kept \in Seq(S) /\ Len(kept) = k /\ IsInjective(kept) /\ leader \in Range(kept)
<1> DEFINE l == <<leader>>
           all == l \o q
           kept == SubSeq(all, 1, k)
<1>1. l \in Seq(S) /\ Len(l) = 1 /\ l[1] = leader
  OBVIOUS
<1>2. Len(q) \in Nat /\ k \in Nat /\ k >= 1 /\ k <= 1 + Len(q)
  OBVIOUS
<1> HIDE DEF l
<1>3. /\ all \in Seq(S) /\ Len(all) = 1 + Len(q)
      /\ \A i \in 1 .. 1 + Len(q) : all[i] = IF i <= 1 THEN l[i] ELSE q[i - 1]
  <2>1. /\ all \in Seq(S) /\ Len(all) = Len(l) + Len(q)
        /\ \A i \in 1 .. Len(l) + Len(q) : all[i] = IF i <= Len(l) THEN l[i] ELSE q[i - Len(l)]
    <3>1. l \in Seq(S) /\ q \in Seq(S)
      BY <1>1
    <3> QED
      BY <3>1, ConcatProperties, Zenon
  <2> HIDE DEF all
  <2> QED
    BY <1>1, <2>1
<1>4. all[1] = leader /\ \A i \in 2 .. k : i - 1 \in DOMAIN q /\ all[i] = q[i - 1]
  BY <1>1, <1>2, <1>3
<1> HIDE DEF all
<1>5. /\ kept \in Seq(S) /\ Len(kept) = k
      /\ \A i \in 1 .. k : kept[i] = all[i]
  <2>1. \A i \in 1 .. k : all[i] \in S
    BY <1>2, <1>3
  <2>2. kept \in Seq(S) /\ Len(kept) = k - 1 + 1 /\ \A i \in 1 .. k - 1 + 1 : kept[i] = all[1 + i - 1]
    BY <1>2, <2>1, SubSeqProperties
  <2> QED
    BY <1>2, <2>2
<1> HIDE DEF kept
<1>6. DOMAIN kept = 1 .. k
  BY <1>5
<1>7. leader \in Range(kept)
  BY <1>2, <1>4, <1>5, <1>6 DEF Range
<1>8. \A i \in 2 .. k : all[i] # leader
  BY <1>4 DEF Range
<1>9. \A i, j \in 2 .. k : all[i] = all[j] => i = j
  <2> SUFFICES ASSUME NEW i \in 2 .. k, NEW j \in 2 .. k, all[i] = all[j] PROVE i = j
    OBVIOUS
  <2>1. i - 1 = j - 1
    BY <1>4 DEF IsInjective
  <2> QED
    BY <2>1
<1>10. \A i \in 1 .. k : i = 1 \/ i \in 2 .. k
  BY <1>2
<1>11. IsInjective(kept)
  <2> SUFFICES ASSUME NEW i \in 1 .. k, NEW j \in 1 .. k, kept[i] = kept[j] PROVE i = j
    BY <1>6 DEF IsInjective
  <2>1. all[i] = all[j]
    BY <1>5
  <2> QED
    BY <1>4, <1>8, <1>9, <1>10, <2>1
<1> QED
  BY <1>5, <1>7, <1>11 DEF kept, all, l

\* A member appended unless it is there.
LEMMA WithAnchor ==
    ASSUME NEW S, NEW kept \in Seq(S), IsInjective(kept), NEW base \in S
    PROVE  LET p == IF base \in Range(kept) THEN kept ELSE Append(kept, base)
           IN  /\ p \in Seq(S) /\ IsInjective(p) /\ base \in Range(p)
               /\ Range(kept) \subseteq Range(p) /\ Len(p) <= Len(kept) + 1
<1>1. CASE base \in Range(kept)
  BY <1>1
<1>2. CASE base \notin Range(kept)
  <2> DEFINE p == Append(kept, base)
             n == Len(kept)
  <2>1. /\ p \in Seq(S) /\ Len(p) = n + 1 /\ p[n + 1] = base
        /\ \A i \in 1 .. n : p[i] = kept[i]
    BY AppendProperties
  <2>2. n \in Nat /\ DOMAIN kept = 1 .. n
    OBVIOUS
  <2> HIDE DEF p, n
  <2>3. DOMAIN p = 1 .. n + 1 /\ \A i \in 1 .. n + 1 : i \in 1 .. n \/ i = n + 1
    BY <2>1, <2>2
  <2>4. n + 1 \in DOMAIN p /\ \A i \in 1 .. n : i \in DOMAIN p
    BY <2>2, <2>3
  <2>5. base \in Range(p) /\ Range(kept) \subseteq Range(p)
    BY <2>1, <2>2, <2>4 DEF Range
  <2>6. \A i \in 1 .. n : p[i] # base
    BY <1>2, <2>1, <2>2 DEF Range
  <2>7. \A i, j \in 1 .. n : p[i] = p[j] => i = j
    BY <2>1, <2>2 DEF IsInjective
  <2>8. IsInjective(p)
    BY <2>1, <2>3, <2>6, <2>7 DEF IsInjective
  <2>9. p \in Seq(S) /\ IsInjective(p) /\ base \in Range(p)
        /\ Range(kept) \subseteq Range(p) /\ Len(p) <= n + 1
    BY <2>1, <2>2, <2>5, <2>8
  <2> QED
    BY <1>2, <2>9 DEF p, n
<1> QED
  BY <1>1, <1>2

\* allocate_candidates: the next rung has the leader and the default, within the budget and
\* one, and nobody new.
LEMMA PromotedKeepsAnchors ==
    ASSUME NEW s, NEW cands, Field(s, cands), NEW order \in Orders(s, cands),
           NEW keep \in Nat \ {0}, NEW prune \in BOOLEAN
    PROVE  LET p == Promoted(s, cands, order, keep, prune)
           IN  /\ p \in Seq(Range(cands)) /\ IsInjective(p) /\ Base \in Range(p)
               /\ Head(AbsRanked(s, cands)) \in Range(p) /\ Len(p) <= keep + 1
<1> DEFINE S        == Range(cands)
           leader   == Head(AbsRanked(s, cands))
           dropped  == (IF prune /\ RelativeActive(s, cands) THEN Dominated(s, cands) ELSE {}) \ {leader}
           stay     == Range(order) \ (dropped \cup {leader})
           eligible == Ordered(stay, {e \in stay \X stay : Precedes(order, e[1], e[2])})
           k        == Min({keep, 1 + Len(eligible)})
           kept     == SubSeq(<<leader>> \o eligible, 1, k)
           p        == IF Base \in Range(kept) THEN kept ELSE Append(kept, Base)
<1>1. leader \in S /\ Base \in S /\ IsFiniteSet(S)
  BY LeaderIsBest, FieldTypes DEF Field
<1>2. order \in Seq(S) /\ IsInjective(order) /\ Range(order) = S
  <2>1. order \in SetToSeqs(S)
    BY OrdersAreComplete
  <2> HIDE DEF S
  <2> QED
    BY <1>1, <2>1, SeqOfSet
<1>3. stay \in SUBSET Range(order) /\ leader \notin stay
  OBVIOUS
<1> HIDE DEF stay
<1>4. eligible \in Seq(stay) /\ IsInjective(eligible)
  BY <1>2, <1>3, StayInOrder
<1> HIDE DEF eligible, S, leader
<1>5. eligible \in Seq(S) /\ leader \notin Range(eligible) /\ Len(eligible) \in Nat
  BY <1>2, <1>3, <1>4 DEF Range
<1>6. k = IF keep <= 1 + Len(eligible) THEN keep ELSE 1 + Len(eligible)
  BY <1>5, MinOfTwo
<1>7. k \in 1 .. 1 + Len(eligible) /\ k <= keep
  BY <1>5, <1>6
<1> HIDE DEF k
<1>8. kept \in Seq(S) /\ Len(kept) = k /\ IsInjective(kept) /\ leader \in Range(kept)
  BY <1>1, <1>4, <1>5, <1>7, CutToBudget
<1> HIDE DEF kept
<1>9. /\ p \in Seq(S) /\ IsInjective(p) /\ Base \in Range(p)
      /\ Range(kept) \subseteq Range(p) /\ Len(p) <= Len(kept) + 1
  BY <1>1, <1>8, WithAnchor
<1>10. Promoted(s, cands, order, keep, prune) = p
  BY DEF Promoted, leader, stay, eligible, k, kept
<1> HIDE DEF p
<1>11. Len(p) <= keep + 1
  <2>1. Len(p) \in Nat
    BY <1>9
  <2> QED
    BY <2>1, <1>7, <1>8, <1>9
<1> QED
  BY <1>8, <1>9, <1>10, <1>11 DEF S, leader

\* The members of a finite set of candidates have a sequence.
LEMMA CandidatesHaveASequence ==
    ASSUME NEW S \in SUBSET Candidates
    PROVE  SetToSeq(S) \in Seq(S) /\ Range(SetToSeq(S)) = S
<1> DEFINE n == Cardinality(S)
<1>1. IsFiniteSet(S) /\ n \in Nat
  BY CandidatesAssumption, FS_Subset, FS_CardinalityType
<1>2. PICK f \in Bijection(1 .. n, S) : TRUE
  BY <1>1, FS_CardinalityType DEF ExistsBijection
<1>3. f \in [1 .. n -> S] /\ IsInjective(f)
  BY <1>2 DEF Bijection, Injection
<1>4. SetToSeq(S) \in [1 .. n -> S] /\ IsInjective(SetToSeq(S))
  BY <1>3 DEF SetToSeq
<1>5. SetToSeq(S) \in SetToSeqs(S)
  BY <1>4 DEF SetToSeqs, IsInjective
<1> HIDE DEF n
<1> QED
  BY <1>1, <1>5, SeqOfSet

\* Whether the paired evidence decides does not depend on the order of the candidates.
LEMMA RelativeIsOfTheSet ==
    ASSUME NEW s, NEW o, NEW q, NEW S, o \in Seq(S), q \in Seq(S), Range(o) = S, Range(q) = S, S # {},
           RelativeActive(s, o)
    PROVE  RelativeActive(s, q)
<1>1. Head(o) \in S /\ Head(q) \in S
  <2>1. o # <<>> /\ q # <<>>
    BY DEF Range
  <2> QED
    BY <2>1, HeadTailProperties
<1>2. \A c \in S : Len(s[c].paired) >= MinUnits /\ Len(s[c].paired) = Len(s[Head(o)].paired)
  BY DEF RelativeActive
<1>3. \A c \in S : Len(s[c].paired) = Len(s[Head(q)].paired)
  BY <1>1, <1>2
<1> QED
  BY <1>2, <1>3 DEF RelativeActive

-----------------------------------------------------------------------------
(* The successive halving: its inductive invariant.                        *)

SearchTypes ==
    /\ rung \in 1 .. Rungs
    /\ survivors \in Seq(Candidates) /\ IsInjective(survivors) /\ Base \in Range(survivors)
    /\ scores \in [Candidates -> {NoScore} \cup [rung : Nat, score : Scores]]
    /\ fitted \in Seq(SUBSET Candidates)
    /\ pick \in Candidates \cup {NoPick}
    /\ phase \in {"halving", "gate", "done", "fallback", "raised"}

\* One rung after the other, each within the one before.
RungsNest ==
    /\ phase \in {"halving", "fallback", "raised"} => Len(fitted) = rung - 1
    /\ phase \in {"gate", "done"} => rung = Rungs /\ Len(fitted) = Rungs
    /\ \A r \in DOMAIN fitted : Base \in fitted[r]
    /\ \A r \in 2 .. Len(fitted) :
          /\ fitted[r] \subseteq fitted[r - 1]
          /\ Cardinality(fitted[r]) <= (Cardinality(fitted[r - 1]) + 1) \div 2 + 1

\* The survivors of the last rung fitted, with their scores in it.
NextRung ==
    phase = "halving" /\ rung > 1 =>
        /\ Range(survivors) \subseteq fitted[rung - 1]
        /\ Len(survivors) <= (Cardinality(fitted[rung - 1]) + 1) \div 2 + 1
        /\ \A c \in fitted[rung - 1] : scores[c].score \in Scores
        /\ \E c \in Range(survivors) :
              \A d \in fitted[rung - 1] : scores[d].score.abs <= scores[c].score.abs

\* The gate sees the scores of the full budget.
GateSeesFinal ==
    phase \in {"gate", "done"} =>
        /\ fitted[Rungs] = Range(survivors)
        /\ \A c \in Range(survivors) : scores[c].rung = Rungs /\ scores[c].score \in Scores

\* A finished search deploys one of its candidates.
PickIsMade == phase \in {"done", "fallback"} => pick \in Candidates

SearchInv ==
    SearchTypes /\ RungsNest /\ NextRung /\ GateSeesFinal /\ PickIsMade /\ DeploysOnEqualBudget

\* The listing of the candidates has each of them once.
LEMMA AllAreListed == AsListed \in Seq(Candidates) /\ IsInjective(AsListed) /\ Range(AsListed) = Candidates
<1> DEFINE R == {e \in Candidates \X Candidates : e[1] < e[2]}
<1>1. IsFiniteSet(Candidates) /\ Candidates \subseteq Nat
  BY CandidatesAssumption
<1>2. \A a, b \in Candidates : <<a, b>> \in R <=> a < b
  OBVIOUS
<1> HIDE DEF R
<1>3. /\ \A a \in Candidates : <<a, a>> \notin R
      /\ \A a, b, c \in Candidates : <<a, b>> \in R /\ <<b, c>> \in R => <<a, c>> \in R
      /\ \A a, b \in Candidates : a = b \/ <<a, b>> \in R \/ <<b, a>> \in R
  BY <1>1, <1>2
<1>4. AsListed \in SetToSeqs(Candidates)
  BY <1>1, <1>3, OrderedIsSorted DEF AsListed, R
<1> QED
  BY <1>1, <1>4, SeqOfSet

\* The first rung fits all candidates.
LEMMA SearchStarts == SearchInit => SearchInv
<1> SUFFICES ASSUME SearchInit PROVE SearchInv
  OBVIOUS
<1> USE DEF SearchInit
<1>1. SearchTypes
  BY AllAreListed, CandidatesAssumption, RungsAssumption DEF SearchTypes
<1>2. RungsNest /\ NextRung /\ GateSeesFinal /\ PickIsMade /\ DeploysOnEqualBudget
  BY DEF RungsNest, NextRung, GateSeesFinal, PickIsMade, DeploysOnEqualBudget
<1> QED
  BY <1>1, <1>2 DEF SearchInv

\* The call that returns leaves the variables of the next one.
LEMMA ReturnStarts == SearchReturn => SearchInv'
<1> SUFFICES ASSUME SearchReturn PROVE SearchInv'
  OBVIOUS
<1> USE DEF SearchReturn
<1>1. AsListed' = AsListed
  OBVIOUS
<1>2. SearchTypes'
  BY AllAreListed, CandidatesAssumption, RungsAssumption DEF SearchTypes
<1>3. RungsNest' /\ NextRung' /\ GateSeesFinal' /\ PickIsMade' /\ DeploysOnEqualBudget'
  BY DEF RungsNest, NextRung, GateSeesFinal, PickIsMade, DeploysOnEqualBudget
<1> QED
  BY <1>2, <1>3 DEF SearchInv

\* Fitting the survivors: the rung just fitted joins the earlier ones.
LEMMA RungIsFitted ==
    ASSUME SearchInv, phase = "halving",
           NEW s \in [Range(survivors) -> Scores],
           scores' = [c \in DOMAIN scores |->
                         IF c \in Range(survivors) THEN [rung |-> rung, score |-> s[c]]
                         ELSE scores[c]],
           fitted' = Append(fitted, Range(survivors))
    PROVE  /\ Field(s, survivors)
           /\ scores' \in [Candidates -> {NoScore} \cup [rung : Nat, score : Scores]]
           /\ fitted' \in Seq(SUBSET Candidates) /\ Len(fitted') = rung
           /\ fitted'[rung] = Range(survivors)
           /\ \A c \in Range(survivors) : scores'[c] = [rung |-> rung, score |-> s[c]]
           /\ \A r \in DOMAIN fitted' : Base \in fitted'[r]
           /\ \A r \in 2 .. Len(fitted') :
                 /\ fitted'[r] \subseteq fitted'[r - 1]
                 /\ Cardinality(fitted'[r]) <= (Cardinality(fitted'[r - 1]) + 1) \div 2 + 1
           /\ Cardinality(Range(survivors)) = Len(survivors)
<1> USE DEF SearchInv
<1>1. Field(s, survivors)
  BY DEF SearchTypes, Field
<1>2. Range(survivors) \subseteq Candidates /\ Cardinality(Range(survivors)) = Len(survivors)
  BY <1>1, FieldTypes
<1>3. rung \in Nat /\ rung >= 1 /\ Len(fitted) = rung - 1 /\ Base \in Range(survivors)
  BY RungsAssumption DEF SearchTypes, RungsNest
<1>4. scores' \in [Candidates -> {NoScore} \cup [rung : Nat, score : Scores]]
  BY <1>3 DEF SearchTypes
<1>5. \A c \in Range(survivors) : scores'[c] = [rung |-> rung, score |-> s[c]]
  BY <1>2 DEF SearchTypes
<1>6. /\ fitted' \in Seq(SUBSET Candidates) /\ Len(fitted') = rung
      /\ fitted'[rung] = Range(survivors)
      /\ \A r \in 1 .. rung - 1 : fitted'[r] = fitted[r]
  <2>1. fitted \in Seq(SUBSET Candidates) /\ Range(survivors) \in SUBSET Candidates
    BY <1>2 DEF SearchTypes
  <2>2. /\ fitted' \in Seq(SUBSET Candidates) /\ Len(fitted') = Len(fitted) + 1
        /\ fitted'[Len(fitted) + 1] = Range(survivors)
        /\ \A r \in 1 .. Len(fitted) : fitted'[r] = fitted[r]
    BY <2>1, AppendProperties
  <2> QED
    BY <1>3, <2>2
<1>7. DOMAIN fitted = 1 .. rung - 1 /\ DOMAIN fitted' = 1 .. rung
  BY <1>3, <1>6 DEF SearchTypes
<1>8. \A r \in DOMAIN fitted' : Base \in fitted'[r]
  BY <1>3, <1>6, <1>7 DEF RungsNest
<1>9. ASSUME NEW r \in 2 .. rung
      PROVE  /\ fitted'[r] \subseteq fitted'[r - 1]
             /\ Cardinality(fitted'[r]) <= (Cardinality(fitted'[r - 1]) + 1) \div 2 + 1
  <2>1. CASE r < rung
    <3>1. r \in 2 .. Len(fitted) /\ r \in 1 .. rung - 1 /\ r - 1 \in 1 .. rung - 1
      BY <1>3, <2>1
    <3>2. fitted'[r] = fitted[r] /\ fitted'[r - 1] = fitted[r - 1]
      BY <1>6, <3>1
    <3> QED
      BY <3>1, <3>2 DEF RungsNest
  <2>2. CASE r = rung
    <3>1. rung > 1 /\ r - 1 \in 1 .. rung - 1
      BY <1>3, <2>2
    <3>2. fitted'[r - 1] = fitted[rung - 1] /\ fitted'[r] = Range(survivors)
      BY <1>6, <2>2, <3>1
    <3>3. /\ Range(survivors) \subseteq fitted[rung - 1]
          /\ Len(survivors) <= (Cardinality(fitted[rung - 1]) + 1) \div 2 + 1
      BY <3>1 DEF NextRung
    <3> QED
      BY <1>2, <3>2, <3>3
  <2> QED
    BY <1>3, <2>1, <2>2
<1> QED
  BY <1>1, <1>2, <1>4, <1>5, <1>6, <1>8, <1>9

\* A rung keeps the anchors and shrinks the field.
LEMMA HalveKeeps == SearchInv /\ Halve => SearchInv'
<1> SUFFICES ASSUME SearchInv, Halve PROVE SearchInv'
  OBVIOUS
<1>1. /\ phase = "halving" /\ phase' = "halving" /\ rung < Rungs /\ rung' = rung + 1
      /\ pick' = pick /\ fitted' = Append(fitted, Range(survivors))
  BY DEF Halve
<1>2. PICK s \in [Range(survivors) -> Scores] :
         /\ scores' = [c \in DOMAIN scores |->
                          IF c \in Range(survivors) THEN [rung |-> rung, score |-> s[c]]
                          ELSE scores[c]]
         /\ \E order \in Orders(s, survivors) :
               survivors' = Promoted(s, survivors, order, Keep, rung > 1)
  BY DEF Halve
<1>3. PICK order \in Orders(s, survivors) :
         survivors' = Promoted(s, survivors, order, Keep, rung > 1)
  BY <1>2
<1>4. /\ Field(s, survivors)
      /\ scores' \in [Candidates -> {NoScore} \cup [rung : Nat, score : Scores]]
      /\ fitted' \in Seq(SUBSET Candidates) /\ Len(fitted') = rung
      /\ fitted'[rung] = Range(survivors)
      /\ \A c \in Range(survivors) : scores'[c] = [rung |-> rung, score |-> s[c]]
      /\ \A r \in DOMAIN fitted' : Base \in fitted'[r]
      /\ \A r \in 2 .. Len(fitted') :
            /\ fitted'[r] \subseteq fitted'[r - 1]
            /\ Cardinality(fitted'[r]) <= (Cardinality(fitted'[r - 1]) + 1) \div 2 + 1
      /\ Cardinality(Range(survivors)) = Len(survivors)
  BY <1>1, <1>2, RungIsFitted
<1>5. /\ rung \in Nat /\ rung >= 1 /\ rung' \in 1 .. Rungs /\ rung' - 1 = rung
      /\ pick \in Candidates \cup {NoPick}
  BY <1>1, RungsAssumption DEF SearchInv, SearchTypes
<1>6. Keep \in Nat \ {0} /\ Keep = (Len(survivors) + 1) \div 2
  <2>1. Len(survivors) \in Nat \ {0}
    BY <1>4, FieldTypes
  <2> QED
    BY <2>1 DEF Keep
<1> DEFINE leader == Head(AbsRanked(s, survivors))
<1>7. /\ survivors' \in Seq(Range(survivors)) /\ IsInjective(survivors') /\ Base \in Range(survivors')
      /\ leader \in Range(survivors') /\ Len(survivors') <= Keep + 1
  <2> DEFINE prune == rung > 1
  <2>1. prune \in BOOLEAN /\ survivors' = Promoted(s, survivors, order, Keep, prune)
    BY <1>3
  <2> HIDE DEF prune
  <2> DEFINE p == Promoted(s, survivors, order, Keep, prune)
  <2>2. /\ p \in Seq(Range(survivors)) /\ IsInjective(p) /\ Base \in Range(p)
        /\ Head(AbsRanked(s, survivors)) \in Range(p) /\ Len(p) <= Keep + 1
    BY <1>4, <1>6, <2>1, PromotedKeepsAnchors
  <2> HIDE DEF p
  <2>3. survivors' = p
    BY <2>1 DEF p
  <2> QED
    BY <2>2, <2>3
<1>8. /\ leader \in Range(survivors)
      /\ \A c \in Range(survivors) : s[c].abs <= s[leader].abs
  BY <1>4, LeaderIsBest
<1> HIDE DEF leader
<1>9. Range(survivors') \subseteq Range(survivors) /\ survivors' \in Seq(Candidates)
  <2>1. Range(survivors) \subseteq Candidates
    BY <1>4, FieldTypes
  <2>2. Range(survivors') \subseteq Range(survivors)
    BY <1>7 DEF Range
  <2> QED
    BY <1>7, <2>1, <2>2, SeqMonotonic
<1>10. SearchTypes'
  BY <1>1, <1>4, <1>5, <1>7, <1>9 DEF SearchTypes
<1>11. RungsNest'
  BY <1>1, <1>4, <1>5 DEF RungsNest
<1>12. NextRung'
  <2>1. \A c \in Range(survivors) : scores'[c].score = s[c] /\ s[c] \in Scores
    <3> SUFFICES ASSUME NEW c \in Range(survivors)
                 PROVE  scores'[c].score = s[c] /\ s[c] \in Scores
      OBVIOUS
    <3>1. s[c] \in Scores
      BY <1>4, FieldTypes
    <3>2. scores'[c] = [rung |-> rung, score |-> s[c]]
      BY <1>4
    <3> QED
      BY <3>1, <3>2
  <2>2. \A d \in Range(survivors) : scores'[d].score.abs <= scores'[leader].score.abs
    BY <1>8, <2>1
  <2>3. Len(survivors') <= (Cardinality(Range(survivors)) + 1) \div 2 + 1
    BY <1>4, <1>6, <1>7
  <2> QED
    BY <1>4, <1>5, <1>7, <1>9, <2>1, <2>2, <2>3 DEF NextRung
<1>13. GateSeesFinal' /\ PickIsMade' /\ DeploysOnEqualBudget'
  BY <1>1 DEF GateSeesFinal, PickIsMade, DeploysOnEqualBudget
<1> QED
  BY <1>10, <1>11, <1>12, <1>13 DEF SearchInv

\* The last rung nominates on the full budget.
LEMMA FinalKeeps == SearchInv /\ Final => SearchInv'
<1> SUFFICES ASSUME SearchInv, Final PROVE SearchInv'
  OBVIOUS
<1>1. /\ phase = "halving" /\ phase' = "gate" /\ rung = Rungs
      /\ UNCHANGED <<rung, survivors, pick>> /\ fitted' = Append(fitted, Range(survivors))
  BY DEF Final
<1>2. PICK s \in [Range(survivors) -> Scores] :
         scores' = [c \in DOMAIN scores |->
                       IF c \in Range(survivors) THEN [rung |-> rung, score |-> s[c]]
                       ELSE scores[c]]
  BY DEF Final
<1>3. /\ Field(s, survivors)
      /\ scores' \in [Candidates -> {NoScore} \cup [rung : Nat, score : Scores]]
      /\ fitted' \in Seq(SUBSET Candidates) /\ Len(fitted') = rung
      /\ fitted'[rung] = Range(survivors)
      /\ \A c \in Range(survivors) : scores'[c] = [rung |-> rung, score |-> s[c]]
      /\ \A r \in DOMAIN fitted' : Base \in fitted'[r]
      /\ \A r \in 2 .. Len(fitted') :
            /\ fitted'[r] \subseteq fitted'[r - 1]
            /\ Cardinality(fitted'[r]) <= (Cardinality(fitted'[r - 1]) + 1) \div 2 + 1
  BY <1>1, <1>2, RungIsFitted
<1>4. SearchTypes'
  BY <1>1, <1>3 DEF SearchInv, SearchTypes
<1>5. RungsNest'
  BY <1>1, <1>3 DEF RungsNest
<1>6. NextRung' /\ PickIsMade' /\ DeploysOnEqualBudget'
  BY <1>1 DEF NextRung, PickIsMade, DeploysOnEqualBudget
<1>7. GateSeesFinal'
  <2>1. \A c \in Range(survivors) : scores'[c].rung = rung /\ scores'[c].score = s[c] /\ s[c] \in Scores
    <3> SUFFICES ASSUME NEW c \in Range(survivors)
                 PROVE  scores'[c].rung = rung /\ scores'[c].score = s[c] /\ s[c] \in Scores
      OBVIOUS
    <3>1. s[c] \in Scores
      BY <1>3, FieldTypes
    <3>2. scores'[c] = [rung |-> rung, score |-> s[c]]
      BY <1>3
    <3> QED
      BY <3>1, <3>2
  <2> QED
    BY <1>1, <1>3, <2>1 DEF GateSeesFinal
<1> QED
  BY <1>4, <1>5, <1>6, <1>7 DEF SearchInv

\* The gate's choice: the finalist, or the default.
LEMMA GateDeploys ==
    ASSUME SearchInv, NEW guarded, Deploy(guarded)
    PROVE  SearchInv'
<1> DEFINE s == [c \in Range(survivors) |-> scores[c].score]
<1>1. /\ phase = "gate" /\ phase' = "done"
      /\ UNCHANGED <<rung, survivors, scores, fitted>>
  BY DEF Deploy
<1>2. PICK order \in IF Len(survivors) > 1 THEN Orders(s, survivors) ELSE {survivors} :
         pick' = IF Deployable(Head(order), guarded) THEN Head(order) ELSE Base
  BY DEF Deploy
<1>3. /\ rung = Rungs /\ fitted[Rungs] = Range(survivors)
      /\ \A c \in Range(survivors) : scores[c].rung = Rungs /\ scores[c].score \in Scores
  BY <1>1 DEF SearchInv, RungsNest, GateSeesFinal
<1>4. Field(s, survivors)
  BY <1>3 DEF SearchInv, SearchTypes, Field
<1> HIDE DEF s
<1>5. /\ Range(survivors) \subseteq Candidates /\ Base \in Range(survivors)
      /\ Len(survivors) \in Nat \ {0} /\ Head(survivors) \in Range(survivors)
      /\ survivors \in Seq(Candidates)
  BY <1>4, FieldTypes DEF Field
<1>6. Head(order) \in Range(survivors) /\ Len(order) \in Nat \ {0} /\ Head(order) = order[1]
  <2>1. CASE Len(survivors) > 1
    <3>1. order \in SetToSeqs(Range(survivors))
      BY <1>2, <1>4, <2>1, OrdersAreComplete
    <3>2. IsFiniteSet(Range(survivors)) /\ Cardinality(Range(survivors)) = Len(survivors)
      BY <1>4, FieldTypes
    <3>3. order \in Seq(Range(survivors)) /\ Len(order) = Len(survivors)
      BY <3>1, <3>2, SeqOfSet
    <3> QED
      BY <1>5, <3>3
  <2>2. CASE ~(Len(survivors) > 1)
    BY <1>2, <1>5, <2>2
  <2> QED
    BY <2>1, <2>2
<1>7. pick' \in Range(survivors)
  BY <1>2, <1>5, <1>6
<1>8. SearchTypes'
  BY <1>1, <1>5, <1>7 DEF SearchInv, SearchTypes
<1>9. RungsNest' /\ NextRung' /\ GateSeesFinal' /\ PickIsMade'
  <2>1. RungsNest'
    BY <1>1 DEF SearchInv, RungsNest
  <2>2. NextRung'
    BY <1>1 DEF NextRung
  <2>3. GateSeesFinal'
    BY <1>1 DEF SearchInv, GateSeesFinal
  <2>4. PickIsMade'
    BY <1>5, <1>7 DEF PickIsMade
  <2> QED
    BY <2>1, <2>2, <2>3, <2>4
<1>10. ASSUME NEW p, p = pick', p # Base
       PROVE  /\ scores[p].rung = Rungs /\ scores[Base].rung = Rungs
              /\ scores[p].score.abs > scores[Base].score.abs + Margin
              /\ \A c \in fitted[Rungs] \ {p} :
                    Dominates(s, c, p) => \/ AbsBefore(s, p, c)
                                          \/ ~RelativeActive(s, SetToSeq(fitted[Rungs]))
  <2>1. p = Head(order) /\ Deployable(p, guarded)
    BY <1>2, <1>10
  <2>2. scores[p].score.abs > scores[Base].score.abs + Margin
    BY <2>1 DEF Deployable
  <2>3. ASSUME NEW c \in fitted[Rungs] \ {p}, Dominates(s, c, p), ~AbsBefore(s, p, c),
               RelativeActive(s, SetToSeq(fitted[Rungs]))
        PROVE  FALSE
    <3>1. c \in Range(survivors) /\ c # p
      BY <1>3
    <3>2. Len(survivors) > 1
      <4> SUFFICES ASSUME ~(Len(survivors) > 1) PROVE FALSE
        OBVIOUS
      <4>0. Len(survivors) = 1
        <5> DEFINE n == Len(survivors)
        <5>1. n \in Nat /\ n # 0 /\ ~(n > 1)
          BY <1>5
        <5> HIDE DEF n
        <5>2. n = 1
          BY <5>1
        <5> QED
          BY <5>2 DEF n
      <4>1. order = survivors /\ Len(survivors) = 1
        <5>1. order \in {survivors}
          OBVIOUS
        <5> QED
          BY <4>0, <5>1
      <4>2. \A d \in Range(survivors) : d = survivors[1]
        BY <1>5, <4>1 DEF Range
      <4> QED
        BY <1>6, <2>1, <3>1, <4>1, <4>2
    <3>3. RelativeActive(s, survivors)
      <4> DEFINE q == SetToSeq(fitted[Rungs])
      <4>1. q \in Seq(Range(survivors)) /\ Range(q) = Range(survivors)
        BY <1>3, <1>5, CandidatesHaveASequence
      <4>2. survivors \in Seq(Range(survivors))
        BY <1>5, SeqOfRange
      <4>3. RelativeActive(s, q)
        BY <2>3
      <4> HIDE DEF q
      <4> QED
        BY <1>5, <4>1, <4>2, <4>3, RelativeIsOfTheSet
    <3>4. order \in RobustOrders(s, survivors)
      BY <1>2, <3>2, <3>3 DEF Orders
    <3>5. /\ order \in SetToSeqs(Range(survivors))
          /\ \A i, j \in DOMAIN order :
                i < j => ~(Dominates(s, order[j], order[i]) /\ ~AbsBefore(s, order[i], order[j]))
      BY <3>4 DEF RobustOrders
    <3>6. order \in Seq(Range(survivors)) /\ Range(order) = Range(survivors)
      BY <1>4, <3>5, FieldTypes, SeqOfSet
    <3>7. PICK j \in DOMAIN order : order[j] = c
      BY <3>1, <3>6 DEF Range
    <3>8. 1 \in DOMAIN order /\ 1 < j
      BY <1>6, <2>1, <3>1, <3>6, <3>7
    <3> QED
      BY <1>6, <2>1, <2>3, <3>5, <3>7, <3>8
  <2> QED
    BY <1>3, <1>5, <1>7, <1>10, <2>2, <2>3
<1>11. DeploysOnEqualBudget'
  <2>1. s = [k \in fitted[Rungs] |-> scores[k].score]
    BY <1>3 DEF s
  <2>2. scores' = scores /\ fitted' = fitted
    BY <1>1
  <2> SUFFICES ASSUME pick' # Base
               PROVE  /\ scores[pick'].rung = Rungs /\ scores[Base].rung = Rungs
                      /\ scores[pick'].score.abs > scores[Base].score.abs + Margin
                      /\ \A c \in fitted[Rungs] \ {pick'} :
                            Dominates(s, c, pick') => \/ AbsBefore(s, pick', c)
                                                      \/ ~RelativeActive(s, SetToSeq(fitted[Rungs]))
    BY <2>1, <2>2 DEF DeploysOnEqualBudget
  <2> QED
    BY <1>10
<1> QED
  BY <1>8, <1>9, <1>11 DEF SearchInv

\* A failure falls back to the default or raises.
LEMMA FailKeeps ==
    ASSUME SearchInv, NEW future, Fail(future)
    PROVE  SearchInv'
<1>1. /\ phase = "halving" /\ UNCHANGED <<rung, survivors, scores, fitted>>
      /\ \/ phase' = "fallback" /\ pick' = Base
         \/ phase' = "raised" /\ pick' = pick
  BY DEF Fail
<1>2. SearchTypes'
  BY <1>1, CandidatesAssumption DEF SearchInv, SearchTypes
<1>3. RungsNest'
  BY <1>1 DEF SearchInv, RungsNest
<1>4. NextRung' /\ GateSeesFinal' /\ PickIsMade' /\ DeploysOnEqualBudget'
  BY <1>1, CandidatesAssumption DEF NextRung, GateSeesFinal, PickIsMade, DeploysOnEqualBudget
<1> QED
  BY <1>2, <1>3, <1>4 DEF SearchInv

\* Every step of the search keeps its invariant.
LEMMA StepKeeps ==
    ASSUME SearchInv, NEW guarded, NEW future, SearchStep(guarded, future)
    PROVE  SearchInv'
BY HalveKeeps, FinalKeeps, GateDeploys, FailKeeps DEF SearchStep

\* The gates after the search leave it alone.
LEMMA SearchStutters == SearchInv /\ UNCHANGED searchVars => SearchInv'
<1> SUFFICES ASSUME SearchInv, UNCHANGED searchVars PROVE SearchInv'
  OBVIOUS
<1>1. UNCHANGED <<rung, survivors, scores, fitted, pick, phase>>
  BY DEF searchVars
<1>2. SearchTypes' /\ RungsNest'
  BY <1>1 DEF SearchInv, SearchTypes, RungsNest
<1>3. NextRung' /\ GateSeesFinal' /\ PickIsMade'
  BY <1>1 DEF SearchInv, NextRung, GateSeesFinal, PickIsMade
<1>4. DeploysOnEqualBudget'
  BY <1>1 DEF SearchInv, DeploysOnEqualBudget
<1> QED
  BY <1>2, <1>3, <1>4 DEF SearchInv

\* The invariant says what both properties say.
LEMMA AnchorsFollow == SearchInv => AnchorsSurvive
<1> SUFFICES ASSUME SearchInv PROVE AnchorsSurvive
  OBVIOUS
<1>1. ASSUME rung > 1, phase = "halving"
      PROVE  LET before == fitted[rung - 1]
                 leading == CHOOSE a \in {scores[c].score.abs : c \in before} :
                               \A c \in before : scores[c].score.abs <= a
             IN  \E c \in Range(survivors) : scores[c].score.abs = leading
  <2> DEFINE before == fitted[rung - 1]
             leading == CHOOSE a \in {scores[c].score.abs : c \in before} :
                           \A c \in before : scores[c].score.abs <= a
  <2>1. /\ Range(survivors) \subseteq before
        /\ \A c \in before : scores[c].score.abs \in Int
    BY <1>1, ScoresAssumption DEF SearchInv, NextRung
  <2>2. PICK c \in Range(survivors) : \A d \in before : scores[d].score.abs <= scores[c].score.abs
    BY <1>1 DEF SearchInv, NextRung
  <2> HIDE DEF before
  <2>3. c \in before
    BY <2>1, <2>2
  <2>4. /\ leading \in {scores[d].score.abs : d \in before}
        /\ \A d \in before : scores[d].score.abs <= leading
    BY <2>2, <2>3
  <2> HIDE DEF leading
  <2>5. PICK e \in before : leading = scores[e].score.abs
    BY <2>4
  <2>6. scores[c].score.abs = leading
    BY <2>1, <2>2, <2>3, <2>4, <2>5
  <2> QED
    BY <2>6 DEF leading, before
<1> QED
  BY <1>1 DEF SearchInv, AnchorsSurvive, SearchTypes, RungsNest

-----------------------------------------------------------------------------
(* The chain of gates.                                                     *)

Fields == DOMAIN Blank

\* A configuration with the booster's fields.
Full(c) == c = [x \in Fields |-> c[x]]

\* What no gate may break, whichever of them accept.
Sound ==
    /\ rare => Binary /\ ~cfg.weighted /\ ~cfg.linear
    /\ cfg.pairs => Multiclass
    /\ cfg.mono \/ cfg.squared => Regression
    /\ cfg.metric = "auc" => Binary /\ ~rare
    /\ cfg.metric = "average_precision" => rare
    /\ cfg.metric = "macro_ovo_auc" => Multiclass
    /\ cfg.head => Multiclass /\ ~cfg.linear /\ cfg.program
    /\ cfg.program /\ ~cfg.head => cfg.columns # "pool"

\* The fields the linear gate does not pass on are still the booster's defaults.
Passed == {"shape", "rounds", "pairs", "columns", "weighted"}
AsSearched(c) == \A x \in Fields \ Passed : c[x] = Blank[x]

\* What the order of the gates adds.
InOrder ==
    /\ stage \in {"rare", "screen", "search"} => cfg = Blank
    /\ stage \in {"loss", "monotone", "leaf"} => Regression /\ cfg.linear = FALSE
    /\ stage \in {"loss", "monotone"} => cfg.mono = FALSE
    /\ stage \in {"memo", "shallow", "weight", "linear"} => AsSearched(cfg)
    /\ stage \in {"loss", "monotone", "leaf", "memo", "shallow", "weight", "linear", "joint",
                  "checkpoint", "interactions"} => ~cfg.head /\ ~cfg.program
    /\ stage = "done" => (cfg.rareFit <=> rare)

ArchInv == Full(cfg) /\ Sound /\ InOrder /\ EditsJudgedOnConfiguration

\* The fields of a configuration.
LEMMA FieldNames ==
    Fields = {"shape", "rounds", "pairs", "columns", "weighted", "linear", "metric", "squared",
              "mono", "head", "stratified", "program", "refit", "capped", "rareFit"}
BY DEF Fields, Blank

\* The configuration before any gate.
LEMMA BlankFields ==
    /\ Full(Blank)
    /\ Blank.pairs = FALSE /\ Blank.weighted = FALSE /\ Blank.linear = FALSE
    /\ Blank.metric = "logloss" /\ Blank.squared = FALSE /\ Blank.mono = FALSE
    /\ Blank.head = FALSE /\ Blank.program = FALSE
BY DEF Full, Fields, Blank

\* Setting one field leaves the others.
LEMMA SetField ==
    ASSUME NEW c, Full(c), NEW f \in Fields, NEW v
    PROVE  LET d == [c EXCEPT ![f] = v]
           IN  Full(d) /\ d[f] = v /\ \A x \in Fields \ {f} : d[x] = c[x]
BY DEF Full

\* Setting a field to what it holds changes nothing.
LEMMA SettingTheSame ==
    ASSUME NEW c, Full(c), NEW f \in Fields, NEW v, c[f] = v
    PROVE  [c EXCEPT ![f] = v] = c
BY DEF Full

\* The linear gate's projection drops nothing that is set by then.
LEMMA GatePassesAll ==
    ASSUME NEW c, Full(c), AsSearched(c)
    PROVE  LinearGateConfig(c) = c
<1> DEFINE a1 == [Blank EXCEPT !.shape = c.shape]
           a2 == [a1 EXCEPT !.rounds = c.rounds]
           a3 == [a2 EXCEPT !.pairs = c.pairs]
           a4 == [a3 EXCEPT !.columns = c.columns]
           a5 == [a4 EXCEPT !.weighted = c.weighted]
<1>1. LinearGateConfig(c) = a5
  BY DEF LinearGateConfig
<1>2. Full(a1) /\ \A x \in Fields : a1[x] = IF x = "shape" THEN c[x] ELSE Blank[x]
  BY BlankFields, FieldNames, SetField
<1> HIDE DEF a1
<1>3. Full(a2) /\ \A x \in Fields : a2[x] = IF x \in {"shape", "rounds"} THEN c[x] ELSE Blank[x]
  BY <1>2, FieldNames, SetField
<1> HIDE DEF a2
<1>4. Full(a3) /\ \A x \in Fields : a3[x] = IF x \in {"shape", "rounds", "pairs"} THEN c[x] ELSE Blank[x]
  BY <1>3, FieldNames, SetField
<1> HIDE DEF a3
<1>5. Full(a4) /\ \A x \in Fields : a4[x] = IF x \in {"shape", "rounds", "pairs", "columns"}
                                            THEN c[x] ELSE Blank[x]
  BY <1>4, FieldNames, SetField
<1> HIDE DEF a4
<1>6. Full(a5) /\ \A x \in Fields : a5[x] = IF x \in Passed THEN c[x] ELSE Blank[x]
  BY <1>5, FieldNames, SetField DEF Passed
<1> HIDE DEF a5
<1>7. \A x \in Fields : a5[x] = c[x]
  BY <1>6 DEF AsSearched
<1> QED
  BY <1>1, <1>6, <1>7 DEF Full

\* SymbolicLayers: the choices assumed are those its gates make, whatever they measured.
THEOREM GatesChooseSo ==
    ASSUME NEW e
    PROVE  /\ ~RareProgram(e).head /\ ~BinaryProgram(e).head /\ ~ThresholdProgram(e).head
           /\ MultiProgram(e).head => MultiProgram(e).families # {}
<1>1. RareProgram(e).head = FALSE
  BY DEF RareProgram
<1>2. BinaryProgram(e).head = FALSE
  BY DEF BinaryProgram
<1>3. ThresholdProgram(e).head = FALSE
  BY DEF ThresholdProgram
<1>4. MultiProgram(e).head => MultiProgram(e).families # {}
  BY DEF MultiProgram
<1> QED
  BY <1>1, <1>2, <1>3, <1>4

\* Before the gates, and where no search is under way.
LEMMA ArchStarts ==
    cfg = Blank /\ rare = FALSE /\ judged.gate = "none" /\ stage \in {"rare", "called"} => ArchInv
<1> SUFFICES ASSUME cfg = Blank, rare = FALSE, judged.gate = "none", stage \in {"rare", "called"}
             PROVE  ArchInv
  OBVIOUS
<1>1. Full(cfg)
  BY BlankFields
<1>2. Sound /\ InOrder /\ EditsJudgedOnConfiguration
  BY BlankFields DEF Sound, InOrder, EditsJudgedOnConfiguration
<1> QED
  BY <1>1, <1>2 DEF ArchInv

\* A step that leaves the configuration and the table, and moves to a stage that asks for
\* no more.
LEMMA SoundStutters ==
    Sound /\ UNCHANGED <<cfg, rare, table>> => Sound'
BY DEF Sound, Binary, Multiclass, Regression

\* The round loop leaves the configuration alone.
LEMMA ArchStutters == ArchInv /\ UNCHANGED archVars => ArchInv'
<1> SUFFICES ASSUME ArchInv, UNCHANGED archVars PROVE ArchInv'
  OBVIOUS
<1>1. UNCHANGED <<table, stage, rare, cfg, judged>>
  BY DEF archVars
<1>2. Sound' /\ Full(cfg')
  BY <1>1, SoundStutters DEF ArchInv
<1>3. InOrder' /\ EditsJudgedOnConfiguration'
  BY <1>1 DEF ArchInv, InOrder, EditsJudgedOnConfiguration, Regression
<1> QED
  BY <1>2, <1>3 DEF ArchInv

LEMMA RareArchitectureKeeps == ArchInv /\ RareArchitecture => ArchInv'
<1> SUFFICES ASSUME ArchInv, RareArchitecture PROVE ArchInv'
  OBVIOUS
<1>1. /\ stage = "rare" /\ stage' = "screen" /\ UNCHANGED <<table, cfg, judged>>
  BY DEF RareArchitecture, At, To
<1>2. rare' => Binary
  <2>1. CASE ~(Binary /\ RateAtMost(1, 10))
    BY <2>1 DEF RareArchitecture
  <2> QED
    BY <2>1
<1>3. cfg = Blank
  BY <1>1 DEF ArchInv, InOrder
<1>4. Full(cfg') /\ InOrder' /\ EditsJudgedOnConfiguration'
  BY <1>1, <1>3 DEF ArchInv, InOrder, EditsJudgedOnConfiguration
<1>5. Sound'
  BY <1>1, <1>2, <1>3, BlankFields DEF Sound, Binary, Multiclass, Regression
<1> QED
  BY <1>4, <1>5 DEF ArchInv

LEMMA WideScreenKeeps == ArchInv /\ WideScreen => ArchInv'
<1> SUFFICES ASSUME ArchInv, WideScreen PROVE ArchInv'
  OBVIOUS
<1>1. stage = "screen" /\ stage' = "search" /\ UNCHANGED <<table, rare, cfg, judged>>
  BY DEF WideScreen, At, To
<1>2. Full(cfg') /\ Sound'
  BY <1>1, SoundStutters DEF ArchInv
<1>3. InOrder' /\ EditsJudgedOnConfiguration'
  BY <1>1 DEF ArchInv, InOrder, EditsJudgedOnConfiguration
<1> QED
  BY <1>2, <1>3 DEF ArchInv

LEMMA RaisedKeeps == ArchInv /\ Raised => ArchInv'
<1> SUFFICES ASSUME ArchInv, Raised PROVE ArchInv'
  OBVIOUS
<1>1. stage' = "raised" /\ UNCHANGED <<table, rare, cfg, judged>>
  BY DEF Raised, To
<1>2. Full(cfg') /\ Sound'
  BY <1>1, SoundStutters DEF ArchInv
<1>3. InOrder' /\ EditsJudgedOnConfiguration'
  BY <1>1 DEF ArchInv, InOrder, EditsJudgedOnConfiguration
<1> QED
  BY <1>2, <1>3 DEF ArchInv

LEMMA LinearMemoKeeps == ArchInv /\ LinearMemo => ArchInv'
<1> SUFFICES ASSUME ArchInv, LinearMemo PROVE ArchInv'
  OBVIOUS
<1>1. stage = "memo" /\ stage' = "shallow" /\ UNCHANGED <<table, rare, cfg, judged>>
  BY DEF LinearMemo, At, To
<1>2. Full(cfg') /\ Sound'
  BY <1>1, SoundStutters DEF ArchInv
<1>3. InOrder' /\ EditsJudgedOnConfiguration'
  BY <1>1 DEF ArchInv, InOrder, EditsJudgedOnConfiguration
<1> QED
  BY <1>2, <1>3 DEF ArchInv

\* The configuration of a search, and the one of too little data.
LEMMA FoundKeeps ==
    ASSUME ArchInv, NEW found, Full(found), \A x \in Fields \ {"shape", "rounds", "columns"} : found[x] = Blank[x],
           UNCHANGED <<table, rare, judged>>, cfg' = WithPairs(found),
           stage' \in {"loss", "monotone", "memo", "shallow"},
           stage' \in {"loss", "monotone"} => Regression
    PROVE  ArchInv'
<1> DEFINE pairs == Multiclass /\ table.rows >= 400 /\ BoundedPairs /\ ~rare
<1>1. (pairs => Multiclass) /\ cfg' = [found EXCEPT !.pairs = pairs]
  BY DEF WithPairs
<1> HIDE DEF pairs
<1>2. /\ Full(cfg') /\ cfg'.pairs = pairs
      /\ \A x \in Fields \ {"shape", "rounds", "columns", "pairs"} : cfg'[x] = Blank[x]
  BY <1>1, FieldNames, SetField
<1>3. AsSearched(cfg')
  BY <1>2, FieldNames DEF AsSearched, Passed
<1>4. /\ cfg'.weighted = FALSE /\ cfg'.linear = FALSE /\ cfg'.metric = "logloss"
      /\ cfg'.squared = FALSE /\ cfg'.mono = FALSE /\ cfg'.head = FALSE /\ cfg'.program = FALSE
  BY <1>2, BlankFields, FieldNames
<1>5. Sound'
  <2>1. (rare => Binary)
    BY DEF ArchInv, Sound
  <2> QED
    BY <1>1, <1>2, <1>4, <2>1 DEF Sound, Binary, Multiclass, Regression
<1>6. InOrder' /\ EditsJudgedOnConfiguration'
  BY <1>3, <1>4 DEF ArchInv, InOrder, EditsJudgedOnConfiguration, Regression
<1> QED
  BY <1>2, <1>5, <1>6 DEF ArchInv

LEMMA SmallDefaultKeeps == ArchInv /\ SmallDefault => ArchInv'
<1> SUFFICES ASSUME ArchInv, SmallDefault PROVE ArchInv'
  OBVIOUS
<1> DEFINE n == IF Regression THEN 800 ELSE 600
           found == [Blank EXCEPT !.rounds = n]
<1>1. Full(found) /\ \A x \in Fields \ {"shape", "rounds", "columns"} : found[x] = Blank[x]
  <2> HIDE DEF n
  <2> QED
    BY BlankFields, FieldNames, SetField
<1>2. cfg' = WithPairs(found) /\ UNCHANGED <<table, rare, judged>>
  BY DEF SmallDefault, Quiet
<1>3. stage' = IF Regression THEN "monotone" ELSE "shallow"
  BY DEF SmallDefault, To
<1> HIDE DEF found
<1> QED
  BY <1>1, <1>2, <1>3, FoundKeeps

LEMMA SearchDoneKeeps == ArchInv /\ SearchDone => ArchInv'
<1> SUFFICES ASSUME ArchInv, SearchDone PROVE ArchInv'
  OBVIOUS
<1> DEFINE n == IF Regression THEN 2000 ELSE 800
           columns == IF phase = "done" THEN pools.final ELSE "all"
           a1 == [Blank EXCEPT !.shape = pick]
           a2 == [a1 EXCEPT !.rounds = n]
           found == [a2 EXCEPT !.columns = columns]
<1>1. Full(found) /\ \A x \in Fields \ {"shape", "rounds", "columns"} : found[x] = Blank[x]
  <2> HIDE DEF n, columns
  <2>1. Full(a1) /\ \A x \in Fields \ {"shape"} : a1[x] = Blank[x]
    BY BlankFields, FieldNames, SetField
  <2> HIDE DEF a1
  <2>2. Full(a2) /\ \A x \in Fields \ {"shape", "rounds"} : a2[x] = Blank[x]
    <3>1. Full(a1) /\ "rounds" \in Fields
      BY <2>1, FieldNames
    <3>2. Full(a2) /\ \A x \in Fields \ {"rounds"} : a2[x] = a1[x]
      BY <3>1, SetField
    <3> HIDE DEF a2
    <3> QED
      BY <2>1, <3>2
  <2> HIDE DEF a2
  <2> QED
    <3>1. Full(a2) /\ "columns" \in Fields
      BY <2>2, FieldNames
    <3>2. Full(found) /\ \A x \in Fields \ {"columns"} : found[x] = a2[x]
      BY <3>1, SetField
    <3> HIDE DEF found
    <3> QED
      BY <2>2, <3>2
<1>2. cfg' = WithPairs(found) /\ UNCHANGED <<table, rare, judged>>
  BY DEF SearchDone
<1>3. stage' = CASE Regression -> "loss"
                 [] phase = "done" /\ Binary /\ ~rare /\ ~table.temporal -> "memo"
                 [] OTHER -> "shallow"
  BY DEF SearchDone, To
<1>4. stage' \in {"loss", "memo", "shallow"} /\ (stage' = "loss" => Regression)
  BY <1>3 DEF Regression, Binary
<1> HIDE DEF found
<1> QED
  BY <1>1, <1>2, <1>4, FoundKeeps

\* An accepted edit was measured on the configuration it replaces.
LEMMA AcceptJudges ==
    ASSUME NEW gate, NEW edited, Accept(gate, cfg, edited)
    PROVE  cfg' = edited /\ EditsJudgedOnConfiguration'
BY DEF Accept, EditsJudgedOnConfiguration

\* A gate that refuses, and moves on to a stage that asks for no more.
LEMMA RefuseKeeps ==
    ASSUME ArchInv, Refuse, UNCHANGED <<table, rare>>, InOrder'
    PROVE  ArchInv'
<1>1. UNCHANGED <<cfg, judged>>
  BY DEF Refuse
<1>2. Full(cfg') /\ Sound' /\ EditsJudgedOnConfiguration'
  BY <1>1, SoundStutters DEF ArchInv, EditsJudgedOnConfiguration
<1> QED
  BY <1>2 DEF ArchInv

LEMMA SquaredLossKeeps == ArchInv /\ SquaredLoss => ArchInv'
<1> SUFFICES ASSUME ArchInv, SquaredLoss PROVE ArchInv'
  OBVIOUS
<1>1. stage = "loss" /\ stage' = "monotone" /\ UNCHANGED <<table, rare>>
  BY DEF SquaredLoss, At, To, Quiet
<1>2. /\ Regression /\ cfg.linear = FALSE /\ cfg.mono = FALSE /\ ~cfg.head /\ ~cfg.program
      /\ Full(cfg) /\ Sound
  BY <1>1 DEF ArchInv, InOrder
<1>3. CASE Refuse
  <2>1. InOrder'
    BY <1>1, <1>2, <1>3 DEF InOrder, Refuse, Regression
  <2> QED
    BY <1>1, <1>3, <2>1, RefuseKeeps
<1> DEFINE edited == [cfg EXCEPT !.squared = TRUE]
<1>4. CASE Accept("squared", cfg, edited)
  <2>1. Full(edited) /\ \A x \in Fields \ {"squared"} : edited[x] = cfg[x]
    <3>1. Full(cfg) /\ "squared" \in Fields
      BY <1>2, FieldNames
    <3> QED
      BY <3>1, SetField
  <2> HIDE DEF edited
  <2>2. cfg' = edited /\ EditsJudgedOnConfiguration'
    BY <1>4, AcceptJudges
  <2>3. /\ cfg'.linear = cfg.linear /\ cfg'.mono = cfg.mono /\ cfg'.head = cfg.head
        /\ cfg'.program = cfg.program /\ cfg'.weighted = cfg.weighted /\ cfg'.pairs = cfg.pairs
        /\ cfg'.metric = cfg.metric
    BY <2>1, <2>2, FieldNames
  <2>4. InOrder'
    BY <1>1, <1>2, <2>3 DEF InOrder, Regression
  <2>5. Sound'
    BY <1>1, <1>2, <2>3 DEF Sound, Regression, Binary, Multiclass
  <2> QED
    BY <2>1, <2>2, <2>4, <2>5 DEF ArchInv
<1> QED
  BY <1>3, <1>4 DEF SquaredLoss

LEMMA ShallowBoostKeeps == ArchInv /\ ShallowBoost => ArchInv'
<1> SUFFICES ASSUME ArchInv, ShallowBoost PROVE ArchInv'
  OBVIOUS
<1>1. stage = "shallow" /\ stage' = "weight" /\ UNCHANGED <<table, rare>>
  BY DEF ShallowBoost, At, To, Quiet
<1>2. AsSearched(cfg) /\ ~cfg.head /\ ~cfg.program /\ Full(cfg) /\ Sound
  BY <1>1 DEF ArchInv, InOrder
<1>3. CASE Refuse
  <2>1. InOrder'
    BY <1>1, <1>2, <1>3 DEF InOrder, Refuse
  <2> QED
    BY <1>1, <1>3, <2>1, RefuseKeeps
<1> DEFINE edited == [cfg EXCEPT !.shape = Shallow]
<1>4. CASE Accept("shallow", cfg, edited)
  <2>1. Full(edited) /\ \A x \in Fields \ {"shape"} : edited[x] = cfg[x]
    <3>1. Full(cfg) /\ "shape" \in Fields
      BY <1>2, FieldNames
    <3> QED
      BY <3>1, SetField
  <2> HIDE DEF edited
  <2>2. cfg' = edited /\ EditsJudgedOnConfiguration'
    BY <1>4, AcceptJudges
  <2>3. /\ cfg'.linear = cfg.linear /\ cfg'.mono = cfg.mono /\ cfg'.head = cfg.head
        /\ cfg'.program = cfg.program /\ cfg'.weighted = cfg.weighted /\ cfg'.pairs = cfg.pairs
        /\ cfg'.metric = cfg.metric /\ cfg'.squared = cfg.squared
    BY <2>1, <2>2, FieldNames
  <2>4. AsSearched(cfg')
    BY <1>2, <2>1, <2>2 DEF AsSearched, Passed
  <2>5. InOrder'
    BY <1>1, <1>2, <2>3, <2>4 DEF InOrder
  <2>6. Sound'
    BY <1>1, <1>2, <2>3 DEF Sound, Regression, Binary, Multiclass
  <2> QED
    BY <2>1, <2>2, <2>5, <2>6 DEF ArchInv
<1> QED
  BY <1>3, <1>4 DEF ShallowBoost

LEMMA ClassWeightKeeps == ArchInv /\ ClassWeight => ArchInv'
<1> SUFFICES ASSUME ArchInv, ClassWeight PROVE ArchInv'
  OBVIOUS
<1>1. stage = "weight" /\ stage' = "linear" /\ UNCHANGED <<table, rare>>
  BY DEF ClassWeight, At, To, Quiet
<1>2. AsSearched(cfg) /\ ~cfg.head /\ ~cfg.program /\ Full(cfg) /\ Sound
  BY <1>1 DEF ArchInv, InOrder
<1>3. CASE Refuse
  <2>1. InOrder'
    BY <1>1, <1>2, <1>3 DEF InOrder, Refuse
  <2> QED
    BY <1>1, <1>3, <2>1, RefuseKeeps
<1> DEFINE edited == [cfg EXCEPT !.weighted = TRUE]
<1>4. CASE ~rare /\ Accept("weight", cfg, edited)
  <2>1. Full(edited) /\ \A x \in Fields \ {"weighted"} : edited[x] = cfg[x]
    <3>1. Full(cfg) /\ "weighted" \in Fields
      BY <1>2, FieldNames
    <3> QED
      BY <3>1, SetField
  <2> HIDE DEF edited
  <2>2. cfg' = edited /\ EditsJudgedOnConfiguration'
    BY <1>4, AcceptJudges
  <2>3. /\ cfg'.linear = cfg.linear /\ cfg'.mono = cfg.mono /\ cfg'.head = cfg.head
        /\ cfg'.program = cfg.program /\ cfg'.pairs = cfg.pairs
        /\ cfg'.metric = cfg.metric /\ cfg'.squared = cfg.squared
    BY <2>1, <2>2, FieldNames
  <2>4. AsSearched(cfg')
    BY <1>2, <2>1, <2>2 DEF AsSearched, Passed
  <2>5. InOrder'
    BY <1>1, <1>2, <2>3, <2>4 DEF InOrder
  <2>6. Sound'
    BY <1>1, <1>2, <1>4, <2>3 DEF Sound, Regression, Binary, Multiclass
  <2> QED
    BY <2>1, <2>2, <2>5, <2>6 DEF ArchInv
<1> QED
  BY <1>3, <1>4 DEF ClassWeight

\* The verdict kept from the search counts only for the configuration still in force, and
\* the gate's own baseline is that configuration.
LEMMA LinearLeavesKeeps == ArchInv /\ LinearLeaves => ArchInv'
<1> SUFFICES ASSUME ArchInv, LinearLeaves PROVE ArchInv'
  OBVIOUS
<1>1. stage = "linear" /\ stage' = "joint" /\ UNCHANGED <<table, rare>>
  BY DEF LinearLeaves, At, To, Quiet
<1>2. AsSearched(cfg) /\ ~cfg.head /\ ~cfg.program /\ Full(cfg) /\ Sound
  BY <1>1 DEF ArchInv, InOrder
<1>3. CASE Refuse
  <2>1. InOrder'
    BY <1>1, <1>2, <1>3 DEF InOrder, Refuse
  <2> QED
    BY <1>1, <1>3, <2>1, RefuseKeeps
<1> DEFINE edited == [cfg EXCEPT !.linear = TRUE]
<1>4. CASE ~rare /\ \E against \in {cfg} : Accept("linear", against, edited)
  <2>1. Full(edited) /\ \A x \in Fields \ {"linear"} : edited[x] = cfg[x]
    <3>1. Full(cfg) /\ "linear" \in Fields
      BY <1>2, FieldNames
    <3> QED
      BY <3>1, SetField
  <2> HIDE DEF edited
  <2>2. cfg' = edited /\ EditsJudgedOnConfiguration'
    BY <1>4, AcceptJudges
  <2>3. /\ cfg'.mono = cfg.mono /\ cfg'.head = cfg.head
        /\ cfg'.program = cfg.program /\ cfg'.pairs = cfg.pairs
        /\ cfg'.metric = cfg.metric /\ cfg'.squared = cfg.squared
    BY <2>1, <2>2, FieldNames
  <2>4. InOrder'
    BY <1>1, <1>2, <2>3 DEF InOrder
  <2>5. Sound'
    BY <1>1, <1>2, <1>4, <2>3 DEF Sound, Regression, Binary, Multiclass
  <2> QED
    BY <2>1, <2>2, <2>4, <2>5 DEF ArchInv
<1>5. ASSUME ~rare, MemoApplies, NEW of \in memo.of, Accept("linear", of, edited)
      PROVE  \E against \in {cfg} : Accept("linear", against, edited)
  BY <1>5 DEF MemoApplies
<1>6. ASSUME Accept("linear", LinearGateConfig(cfg), edited)
      PROVE  \E against \in {cfg} : Accept("linear", against, edited)
  BY <1>2, <1>6, GatePassesAll
<1> QED
  BY <1>3, <1>4, <1>5, <1>6 DEF LinearLeaves

LEMMA JointRankRegionsKeeps == ArchInv /\ JointRankRegions => ArchInv'
<1> SUFFICES ASSUME ArchInv, JointRankRegions PROVE ArchInv'
  OBVIOUS
<1>1. stage = "joint" /\ stage' = "checkpoint" /\ UNCHANGED <<table, rare>>
  BY DEF JointRankRegions, At, To, Quiet
<1>2. ~cfg.head /\ ~cfg.program /\ Full(cfg) /\ Sound
  BY <1>1 DEF ArchInv, InOrder
<1>3. CASE Refuse
  <2>1. InOrder'
    BY <1>1, <1>2, <1>3 DEF InOrder, Refuse
  <2> QED
    BY <1>1, <1>3, <2>1, RefuseKeeps
<1> DEFINE a1 == [cfg EXCEPT !.shape = Joint]
           a2 == [a1 EXCEPT !.linear = TRUE]
           edited == [a2 EXCEPT !.metric = "auc"]
<1>4. CASE ~rare /\ Binary /\ Accept("joint", cfg, edited)
  <2>1. Full(a1) /\ \A x \in Fields \ {"shape"} : a1[x] = cfg[x]
    <3>1. Full(cfg) /\ "shape" \in Fields
      BY <1>2, FieldNames
    <3>2. Full(a1) /\ \A x \in Fields \ {"shape"} : a1[x] = cfg[x]
      BY <3>1, SetField
    <3> HIDE DEF a1
    <3> QED
      BY <1>2, <3>2
  <2> HIDE DEF a1
  <2>2. Full(a2) /\ \A x \in Fields \ {"shape", "linear"} : a2[x] = cfg[x]
    <3>1. Full(a1) /\ "linear" \in Fields
      BY <2>1, FieldNames
    <3>2. Full(a2) /\ \A x \in Fields \ {"linear"} : a2[x] = a1[x]
      BY <3>1, SetField
    <3> HIDE DEF a2
    <3> QED
      BY <2>1, <3>2
  <2> HIDE DEF a2
  <2>3. /\ Full(edited) /\ edited.metric = "auc"
        /\ \A x \in Fields \ {"shape", "linear", "metric"} : edited[x] = cfg[x]
    <3>1. Full(a2) /\ "metric" \in Fields
      BY <2>2, FieldNames
    <3>2. Full(edited) /\ edited.metric = "auc" /\ \A x \in Fields \ {"metric"} : edited[x] = a2[x]
      BY <3>1, SetField
    <3> HIDE DEF edited
    <3> QED
      BY <2>2, <3>2
  <2> HIDE DEF edited
  <2>4. cfg' = edited /\ EditsJudgedOnConfiguration'
    BY <1>4, AcceptJudges
  <2>5. /\ cfg'.mono = cfg.mono /\ cfg'.head = cfg.head /\ cfg'.metric = "auc"
        /\ cfg'.program = cfg.program /\ cfg'.pairs = cfg.pairs /\ cfg'.squared = cfg.squared
    BY <2>3, <2>4, FieldNames
  <2>6. InOrder'
    BY <1>1, <1>2, <2>5 DEF InOrder
  <2>7. Sound'
    BY <1>1, <1>2, <1>4, <2>5 DEF Sound, Regression, Binary, Multiclass
  <2> QED
    BY <2>3, <2>4, <2>6, <2>7 DEF ArchInv
<1> QED
  BY <1>3, <1>4 DEF JointRankRegions

LEMMA RankCheckpointKeeps == ArchInv /\ RankCheckpoint => ArchInv'
<1> SUFFICES ASSUME ArchInv, RankCheckpoint PROVE ArchInv'
  OBVIOUS
<1>1. stage = "checkpoint" /\ stage' = "interactions" /\ UNCHANGED <<table, rare>>
  BY DEF RankCheckpoint, At, To, Quiet
<1>2. ~cfg.head /\ ~cfg.program /\ Full(cfg) /\ Sound
  BY <1>1 DEF ArchInv, InOrder
<1>3. CASE Refuse
  <2>1. InOrder'
    BY <1>1, <1>2, <1>3 DEF InOrder, Refuse
  <2> QED
    BY <1>1, <1>3, <2>1, RefuseKeeps
<1> DEFINE edited == [cfg EXCEPT !.metric = "auc"]
<1>4. CASE ~rare /\ Binary /\ Accept("checkpoint", cfg, edited)
  <2>1. Full(edited) /\ edited.metric = "auc" /\ \A x \in Fields \ {"metric"} : edited[x] = cfg[x]
    BY <1>2, FieldNames, SetField
  <2> HIDE DEF edited
  <2>2. cfg' = edited /\ EditsJudgedOnConfiguration'
    BY <1>4, AcceptJudges
  <2>3. /\ cfg'.mono = cfg.mono /\ cfg'.head = cfg.head /\ cfg'.metric = "auc"
        /\ cfg'.program = cfg.program /\ cfg'.pairs = cfg.pairs /\ cfg'.squared = cfg.squared
    BY <2>1, <2>2, FieldNames
  <2>4. InOrder'
    BY <1>1, <1>2, <2>3 DEF InOrder
  <2>5. Sound'
    BY <1>1, <1>2, <1>4, <2>3 DEF Sound, Regression, Binary, Multiclass
  <2> QED
    BY <2>1, <2>2, <2>4, <2>5 DEF ArchInv
<1> QED
  BY <1>3, <1>4 DEF RankCheckpoint

\* What a choice of an interaction gate makes of the configuration.
LEMMA DeployedFields ==
    ASSUME Full(cfg), ~cfg.head, ~cfg.program, NEW rank,
           NEW choice, choice.head \in BOOLEAN, choice.head => choice.families # {}
    PROVE  LET d == Deployed(choice, rank)
           IN  /\ Full(d) /\ d.metric \in {cfg.metric, rank} /\ d.head = choice.head
               /\ d.head => d.program
               /\ d.program /\ ~d.head => d.columns # "pool"
               /\ \A x \in Fields \ {"metric", "head", "program", "columns"} : d[x] = cfg[x]
<1> DEFINE metric == IF choice.metric = "rank" THEN rank ELSE cfg.metric
           a1 == [cfg EXCEPT !.metric = metric]
           config == [a1 EXCEPT !.head = choice.head]
           columns == IF config.columns = "pool" /\ ~config.head THEN "extended" ELSE config.columns
           b1 == [config EXCEPT !.program = TRUE]
           b2 == [b1 EXCEPT !.columns = columns]
           d == IF choice.families = {} THEN config ELSE b2
<1>1. metric \in {cfg.metric, rank}
  OBVIOUS
<1> HIDE DEF metric
<1>2. Full(a1) /\ a1.metric = metric /\ \A x \in Fields \ {"metric"} : a1[x] = cfg[x]
  BY FieldNames, SetField
<1>3. config = [cfg EXCEPT !.metric = metric, !.head = choice.head]
  OBVIOUS
<1> HIDE DEF a1
<1>4. /\ Full(config) /\ config.metric = metric /\ config.head = choice.head
      /\ \A x \in Fields \ {"metric", "head"} : config[x] = cfg[x]
  <2>1. Full(a1) /\ "head" \in Fields
    BY <1>2, FieldNames
  <2>2. Full(config) /\ config.head = choice.head /\ \A x \in Fields \ {"head"} : config[x] = a1[x]
    BY <2>1, SetField
  <2>3. "metric" \in Fields
    BY FieldNames
  <2> HIDE DEF config
  <2> QED
    BY <1>2, <2>2, <2>3
<1>5. config.program = cfg.program
  BY <1>4, FieldNames
<1> HIDE DEF config
<1>6. /\ Full(b1) /\ b1.program = TRUE /\ b1.metric = metric /\ b1.head = choice.head
      /\ b1.columns = config.columns
      /\ \A x \in Fields \ {"metric", "head", "program"} : b1[x] = cfg[x]
  <2>1. Full(config) /\ "program" \in Fields
    BY <1>4, FieldNames
  <2>2. Full(b1) /\ b1.program = TRUE /\ \A x \in Fields \ {"program"} : b1[x] = config[x]
    BY <2>1, SetField
  <2> HIDE DEF b1
  <2> QED
    BY <1>4, <2>2, FieldNames
<1>7. WithProgram(config) = b2
  BY <1>6 DEF WithProgram
<1> HIDE DEF b1
<1>8. columns # "pool" \/ config.head
  OBVIOUS
<1> HIDE DEF columns
<1>9. /\ Full(b2) /\ b2.program = TRUE /\ b2.metric = metric /\ b2.head = choice.head
      /\ b2.columns = columns
      /\ \A x \in Fields \ {"metric", "head", "program", "columns"} : b2[x] = cfg[x]
  <2>1. Full(b1) /\ "columns" \in Fields
    BY <1>6, FieldNames
  <2>2. Full(b2) /\ b2.columns = columns /\ \A x \in Fields \ {"columns"} : b2[x] = b1[x]
    BY <2>1, SetField
  <2> HIDE DEF b2
  <2> QED
    BY <1>6, <2>2, FieldNames
<1> HIDE DEF b2
<1>10. Deployed(choice, rank) = d
  BY <1>3, <1>7 DEF Deployed, metric
<1>11. CASE choice.families = {}
  <2>1. d = config /\ ~choice.head
    BY <1>11
  <2> QED
    BY <1>1, <1>4, <1>5, <1>10, <2>1
<1>12. CASE choice.families # {}
  <2>1. d = b2
    BY <1>12
  <2> QED
    BY <1>1, <1>4, <1>8, <1>9, <1>10, <2>1
<1> QED
  BY <1>11, <1>12

\* A deployed choice of an interaction gate.
LEMMA ChoiceKeeps ==
    ASSUME ArchInv, NEW rank, NEW d, stage = "interactions", stage' = "resolve",
           UNCHANGED <<table, rare>>, EditsJudgedOnConfiguration', cfg' = d,
           Full(d), d.metric \in {cfg.metric, rank},
           \A x \in {"pairs", "mono", "squared", "weighted", "linear"} : d[x] = cfg[x],
           d.head => Multiclass /\ ~cfg.linear /\ d.program,
           d.program /\ ~d.head => d.columns # "pool",
           rank = "auc" => Binary /\ ~rare,
           rank = "average_precision" => rare,
           rank = "macro_ovo_auc" => Multiclass
    PROVE  ArchInv'
<1>1. /\ d.pairs = cfg.pairs /\ d.mono = cfg.mono /\ d.squared = cfg.squared
      /\ d.weighted = cfg.weighted /\ d.linear = cfg.linear
  OBVIOUS
<1>2. Sound
  BY DEF ArchInv
<1>3. /\ d.metric = "auc" => Binary /\ ~rare
      /\ d.metric = "average_precision" => rare
      /\ d.metric = "macro_ovo_auc" => Multiclass
  BY <1>2 DEF Sound
<1>4. Sound'
  BY <1>1, <1>2, <1>3 DEF Sound, Regression, Binary, Multiclass
<1>5. InOrder'
  BY DEF InOrder
<1> QED
  BY <1>4, <1>5 DEF ArchInv

LEMMA RareInteractionsKeeps == ArchInv /\ RareInteractions => ArchInv'
<1> SUFFICES ASSUME ArchInv, RareInteractions PROVE ArchInv'
  OBVIOUS
<1>1. stage = "interactions" /\ stage' = "resolve" /\ UNCHANGED <<table, rare>> /\ rare
  BY DEF RareInteractions, At, To, Quiet
<1>2. ~cfg.head /\ ~cfg.program /\ Full(cfg) /\ Sound
  BY <1>1 DEF ArchInv, InOrder
<1>3. CASE Refuse
  <2>1. InOrder'
    BY <1>1 DEF InOrder
  <2> QED
    BY <1>1, <1>3, <2>1, RefuseKeeps
<1>4. ASSUME NEW choice \in RareChoices, Accept("rare", cfg, Deployed(choice, "average_precision"))
      PROVE  ArchInv'
  <2> DEFINE d == Deployed(choice, "average_precision")
  <2>1. choice.head \in BOOLEAN /\ ~choice.head
    BY ChoicesAssumption
  <2>2. /\ Full(d) /\ d.metric \in {cfg.metric, "average_precision"} /\ d.head = choice.head
        /\ d.program /\ ~d.head => d.columns # "pool"
        /\ \A x \in Fields \ {"metric", "head", "program", "columns"} : d[x] = cfg[x]
    BY <1>2, <2>1, DeployedFields
  <2> HIDE DEF d
  <2>3. cfg' = d /\ EditsJudgedOnConfiguration'
    BY <1>4, AcceptJudges DEF d
  <2>4. \A x \in {"pairs", "mono", "squared", "weighted", "linear"} : d[x] = cfg[x]
    BY <2>2, FieldNames
  <2> QED
    BY <1>1, <2>1, <2>2, <2>3, <2>4, ChoiceKeeps
<1> QED
  BY <1>3, <1>4 DEF RareInteractions

LEMMA BinaryInteractionsKeeps == ArchInv /\ BinaryInteractions => ArchInv'
<1> SUFFICES ASSUME ArchInv, BinaryInteractions PROVE ArchInv'
  OBVIOUS
<1>1. stage = "interactions" /\ stage' = "resolve" /\ UNCHANGED <<table, rare>> /\ ~rare /\ Binary
  BY DEF BinaryInteractions, At, To, Quiet
<1>2. ~cfg.head /\ ~cfg.program /\ Full(cfg) /\ Sound
  BY <1>1 DEF ArchInv, InOrder
<1>3. CASE Refuse
  <2>1. InOrder'
    BY <1>1 DEF InOrder
  <2> QED
    BY <1>1, <1>3, <2>1, RefuseKeeps
<1>4. ASSUME NEW choice \in BinaryChoices, Accept("binary", cfg, Deployed(choice, "auc"))
      PROVE  ArchInv'
  <2> DEFINE d == Deployed(choice, "auc")
  <2>1. choice.head \in BOOLEAN /\ ~choice.head
    BY ChoicesAssumption
  <2>2. /\ Full(d) /\ d.metric \in {cfg.metric, "auc"} /\ d.head = choice.head
        /\ d.program /\ ~d.head => d.columns # "pool"
        /\ \A x \in Fields \ {"metric", "head", "program", "columns"} : d[x] = cfg[x]
    BY <1>2, <2>1, DeployedFields
  <2> HIDE DEF d
  <2>3. cfg' = d /\ EditsJudgedOnConfiguration'
    BY <1>4, AcceptJudges DEF d
  <2>4. \A x \in {"pairs", "mono", "squared", "weighted", "linear"} : d[x] = cfg[x]
    BY <2>2, FieldNames
  <2> QED
    BY <1>1, <2>1, <2>2, <2>3, <2>4, ChoiceKeeps
<1> QED
  BY <1>3, <1>4 DEF BinaryInteractions

\* Stratifying changes one field.
LEMMA StratifiedFields ==
    ASSUME NEW c, Full(c)
    PROVE  Full(Stratified(c)) /\ \A x \in Fields \ {"stratified"} : Stratified(c)[x] = c[x]
<1> DEFINE v == Multiclass /\ table.categories = 0 /\ table.rows \in 400 .. 4000 /\ table.columns <= 32
           d == [c EXCEPT !.stratified = v]
<1>1. Stratified(c) = d
  BY DEF Stratified
<1> HIDE DEF v
<1>2. Full(d) /\ \A x \in Fields \ {"stratified"} : d[x] = c[x]
  BY FieldNames, SetField
<1> QED
  BY <1>1, <1>2

LEMMA MulticlassInteractionsKeeps == ArchInv /\ MulticlassInteractions => ArchInv'
<1> SUFFICES ASSUME ArchInv, MulticlassInteractions PROVE ArchInv'
  OBVIOUS
<1>1. stage = "interactions" /\ stage' = "resolve" /\ UNCHANGED <<table, rare>> /\ Multiclass
  BY DEF MulticlassInteractions, At, To, Quiet
<1>2. ~cfg.head /\ ~cfg.program /\ Full(cfg) /\ Sound
  BY <1>1 DEF ArchInv, InOrder
<1>3. CASE cfg' = Stratified(cfg) /\ judged' = judged
  <2> DEFINE d == Stratified(cfg)
  <2>1. Full(d) /\ \A x \in Fields \ {"stratified"} : d[x] = cfg[x]
    BY <1>2, StratifiedFields
  <2> HIDE DEF d
  <2>2. cfg' = d /\ EditsJudgedOnConfiguration'
    BY <1>3 DEF d, ArchInv, EditsJudgedOnConfiguration
  <2>3. /\ \A x \in {"pairs", "mono", "squared", "weighted", "linear"} : d[x] = cfg[x]
        /\ d.metric = cfg.metric /\ d.head = cfg.head /\ d.program = cfg.program
    BY <2>1, FieldNames
  <2> QED
    BY <1>1, <1>2, <2>1, <2>2, <2>3, ChoiceKeeps
<1>4. ASSUME NEW choice \in MultiChoices, choice = Nothing \/ MulticlassOpen,
             Accept("multiclass", cfg, Stratified(Deployed(choice, "macro_ovo_auc")))
      PROVE  ArchInv'
  <2> DEFINE d == Deployed(choice, "macro_ovo_auc")
             t == Stratified(d)
  <2>1. choice.head \in BOOLEAN /\ (choice.head => choice.families # {})
    BY ChoicesAssumption
  <2>2. choice.head => ~cfg.linear
    BY <1>4 DEF Nothing, MulticlassOpen
  <2>3. /\ Full(d) /\ d.metric \in {cfg.metric, "macro_ovo_auc"} /\ d.head = choice.head
        /\ d.head => d.program
        /\ d.program /\ ~d.head => d.columns # "pool"
        /\ \A x \in Fields \ {"metric", "head", "program", "columns"} : d[x] = cfg[x]
    BY <1>2, <2>1, DeployedFields
  <2> HIDE DEF d
  <2>4. Full(t) /\ \A x \in Fields \ {"stratified"} : t[x] = d[x]
    BY <2>3, StratifiedFields
  <2> HIDE DEF t
  <2>5. cfg' = t /\ EditsJudgedOnConfiguration'
    BY <1>4, AcceptJudges DEF d, t
  <2>6. /\ \A x \in {"pairs", "mono", "squared", "weighted", "linear"} : t[x] = cfg[x]
        /\ t.metric = d.metric /\ t.head = d.head /\ t.program = d.program /\ t.columns = d.columns
    BY <2>3, <2>4, FieldNames
  <2> QED
    BY <1>1, <2>2, <2>3, <2>4, <2>5, <2>6, ChoiceKeeps
<1> QED
  BY <1>3, <1>4 DEF MulticlassInteractions

LEMMA MonotoneKeeps == ArchInv /\ Monotone => ArchInv'
<1> SUFFICES ASSUME ArchInv, Monotone PROVE ArchInv'
  OBVIOUS
<1>1. stage = "monotone" /\ stage' = "leaf" /\ UNCHANGED <<table, rare>>
  BY DEF Monotone, At, To, Quiet
<1>2. /\ Regression /\ cfg.linear = FALSE /\ cfg.mono = FALSE /\ ~cfg.head /\ ~cfg.program
      /\ Full(cfg) /\ Sound
  BY <1>1 DEF ArchInv, InOrder
<1>3. CASE Refuse
  <2>1. InOrder'
    BY <1>1, <1>2, <1>3 DEF InOrder, Refuse, Regression
  <2> QED
    BY <1>1, <1>3, <2>1, RefuseKeeps
<1> DEFINE edited == [cfg EXCEPT !.mono = TRUE]
           against == [cfg EXCEPT !.mono = FALSE]
<1>4. CASE Accept("monotone", against, edited)
  <2>1. Full(edited) /\ \A x \in Fields \ {"mono"} : edited[x] = cfg[x]
    <3>1. Full(cfg) /\ "mono" \in Fields
      BY <1>2, FieldNames
    <3> QED
      BY <3>1, SetField
  <2>2. against = cfg
    BY <1>2, FieldNames, SettingTheSame
  <2> HIDE DEF edited, against
  <2>3. cfg' = edited /\ EditsJudgedOnConfiguration'
    BY <1>4, <2>2, AcceptJudges
  <2>4. /\ cfg'.linear = cfg.linear /\ cfg'.head = cfg.head /\ cfg'.squared = cfg.squared
        /\ cfg'.program = cfg.program /\ cfg'.weighted = cfg.weighted /\ cfg'.pairs = cfg.pairs
        /\ cfg'.metric = cfg.metric
    BY <2>1, <2>3, FieldNames
  <2>5. InOrder'
    BY <1>1, <1>2, <2>4 DEF InOrder, Regression
  <2>6. Sound'
    BY <1>1, <1>2, <2>4 DEF Sound, Regression, Binary, Multiclass
  <2> QED
    BY <2>1, <2>3, <2>5, <2>6 DEF ArchInv
<1> QED
  BY <1>3, <1>4 DEF Monotone

LEMMA LinearLeafKeeps == ArchInv /\ LinearLeaf => ArchInv'
<1> SUFFICES ASSUME ArchInv, LinearLeaf PROVE ArchInv'
  OBVIOUS
<1>1. stage = "leaf" /\ stage' = "resolve" /\ UNCHANGED <<table, rare>>
  BY DEF LinearLeaf, At, To, Quiet
<1>2. Regression /\ cfg.linear = FALSE /\ ~cfg.head /\ ~cfg.program /\ Full(cfg) /\ Sound
  BY <1>1 DEF ArchInv, InOrder
<1>3. CASE Refuse
  <2>1. InOrder'
    BY <1>1 DEF InOrder
  <2> QED
    BY <1>1, <1>3, <2>1, RefuseKeeps
<1> DEFINE edited == [cfg EXCEPT !.linear = TRUE]
           against == [cfg EXCEPT !.linear = FALSE]
<1>4. CASE Accept("leaf", against, edited)
  <2>1. Full(edited) /\ \A x \in Fields \ {"linear"} : edited[x] = cfg[x]
    <3>1. Full(cfg) /\ "linear" \in Fields
      BY <1>2, FieldNames
    <3> QED
      BY <3>1, SetField
  <2>2. against = cfg
    BY <1>2, FieldNames, SettingTheSame
  <2> HIDE DEF edited, against
  <2>3. cfg' = edited /\ EditsJudgedOnConfiguration'
    BY <1>4, <2>2, AcceptJudges
  <2>4. /\ cfg'.mono = cfg.mono /\ cfg'.head = cfg.head /\ cfg'.squared = cfg.squared
        /\ cfg'.program = cfg.program /\ cfg'.weighted = cfg.weighted /\ cfg'.pairs = cfg.pairs
        /\ cfg'.metric = cfg.metric
    BY <2>1, <2>3, FieldNames
  <2>5. InOrder'
    BY <1>1 DEF InOrder
  <2>6. ~rare
    BY <1>2 DEF Sound, Regression, Binary
  <2>7. Sound'
    BY <1>1, <1>2, <2>4, <2>6 DEF Sound, Regression, Binary, Multiclass
  <2> QED
    BY <2>1, <2>3, <2>5, <2>7 DEF ArchInv
<1> QED
  BY <1>3, <1>4 DEF LinearLeaf

LEMMA ResolveKeeps == ArchInv /\ Resolve => ArchInv'
<1> SUFFICES ASSUME ArchInv, Resolve PROVE ArchInv'
  OBVIOUS
<1>1. /\ stage = "resolve" /\ stage' = "done" /\ UNCHANGED <<table, rare, judged>>
  BY DEF Resolve, At, To, Quiet
<1>2. Full(cfg) /\ Sound
  BY DEF ArchInv
<1> DEFINE large == table.rows > 2000000
           refit == table.rows < 50000
           rounds == IF large /\ Binary /\ cfg.rounds >= 800 THEN 1000 ELSE cfg.rounds
           a1 == [cfg EXCEPT !.refit = refit]
           a2 == [a1 EXCEPT !.capped = large]
           a3 == [a2 EXCEPT !.rounds = rounds]
           d  == [a3 EXCEPT !.rareFit = rare]
<1>3. Full(a1) /\ \A x \in Fields \ {"refit"} : a1[x] = cfg[x]
  <2> HIDE DEF refit
  <2> QED
    BY <1>2, FieldNames, SetField
<1>4. a1.rounds = cfg.rounds
  BY <1>3, FieldNames
<1>5. Full(a2) /\ \A x \in Fields \ {"refit", "capped"} : a2[x] = cfg[x]
  <2> HIDE DEF a1, large
  <2> QED
    <3>1. Full(a1) /\ "capped" \in Fields
      BY <1>3, FieldNames
    <3>2. Full(a2) /\ \A x \in Fields \ {"capped"} : a2[x] = a1[x]
      BY <3>1, SetField
    <3> HIDE DEF a2
    <3> QED
      BY <1>3, <3>2
<1>6. a2.rounds = cfg.rounds
  BY <1>5, FieldNames
<1>7. cfg' = d
  <2>1. cfg' = [cfg EXCEPT !.refit = refit, !.capped = large,
                           !.rounds = IF large /\ Binary /\ @ >= 800 THEN 1000 ELSE @,
                           !.rareFit = rare]
    BY DEF Resolve
  <2> HIDE DEF refit, large
  <2> QED
    BY <1>6, <2>1
<1> HIDE DEF a2, rounds
<1>8. Full(a3) /\ \A x \in Fields \ {"refit", "capped", "rounds"} : a3[x] = cfg[x]
  <2>1. Full(a2) /\ "rounds" \in Fields
    BY <1>5, FieldNames
  <2>2. Full(a3) /\ \A x \in Fields \ {"rounds"} : a3[x] = a2[x]
    BY <2>1, SetField
  <2> HIDE DEF a3
  <2> QED
    BY <1>5, <2>2
<1> HIDE DEF a3
<1>9. Full(d) /\ d.rareFit = rare /\ \A x \in Fields \ {"refit", "capped", "rounds", "rareFit"} : d[x] = cfg[x]
  <2>1. Full(a3) /\ "rareFit" \in Fields
    BY <1>8, FieldNames
  <2>2. Full(d) /\ d.rareFit = rare /\ \A x \in Fields \ {"rareFit"} : d[x] = a3[x]
    BY <2>1, SetField
  <2> HIDE DEF d
  <2> QED
    BY <1>8, <2>2
<1> HIDE DEF d
<1>10. /\ cfg'.mono = cfg.mono /\ cfg'.head = cfg.head /\ cfg'.squared = cfg.squared
       /\ cfg'.program = cfg.program /\ cfg'.weighted = cfg.weighted /\ cfg'.pairs = cfg.pairs
       /\ cfg'.metric = cfg.metric /\ cfg'.linear = cfg.linear /\ cfg'.columns = cfg.columns
       /\ cfg'.rareFit = rare
  BY <1>7, <1>9, FieldNames
<1>11. InOrder' /\ EditsJudgedOnConfiguration'
  BY <1>1, <1>10 DEF ArchInv, InOrder, EditsJudgedOnConfiguration
<1>12. Sound'
  BY <1>1, <1>2, <1>10 DEF Sound, Regression, Binary, Multiclass
<1> QED
  BY <1>7, <1>9, <1>11, <1>12 DEF ArchInv

-----------------------------------------------------------------------------
(* The fit                                                                 *)

\* What both parts of the search rely on.
FitInv == SearchInv /\ ArchInv

LEMMA FitStarts == Init => FitInv
<1> SUFFICES ASSUME Init PROVE FitInv
  OBVIOUS
<1>1. SearchInit
  BY DEF Init, ArchInit, Called
<1>2. cfg = Blank /\ rare = FALSE /\ judged.gate = "none" /\ stage \in {"rare", "called"}
  BY DEF Init, ArchInit, Called
<1> QED
  BY <1>1, <1>2, SearchStarts, ArchStarts DEF FitInv

\* Every gate of the chain keeps the invariant.
LEMMA ArchNextKeeps == FitInv /\ ArchNext => FitInv'
<1> SUFFICES ASSUME FitInv, ArchNext PROVE FitInv'
  OBVIOUS
<1> USE DEF FitInv
<1>1. CASE Search
  <2>1. UNCHANGED archVars /\ SearchStep(~Regression, table.temporal /\ ~Regression)
    BY <1>1 DEF Search
  <2>2. SearchInv'
    BY <2>1, HalveKeeps, FinalKeeps, GateDeploys, FailKeeps DEF SearchStep
  <2> QED
    BY <2>1, <2>2, ArchStutters
<1>2. CASE SearchDone
  BY <1>2, SearchDoneKeeps, ReturnStarts DEF SearchDone
<1>3. ASSUME RareArchitecture \/ WideScreen \/ Raised \/ LinearMemo
      PROVE  FitInv'
  <2>1. RareArchitecture => UNCHANGED searchVars
    BY DEF RareArchitecture
  <2>2. WideScreen => UNCHANGED searchVars
    BY DEF WideScreen
  <2>3. Raised => UNCHANGED searchVars
    BY DEF Raised
  <2>4. LinearMemo => UNCHANGED searchVars
    BY DEF LinearMemo
  <2> QED
    BY <1>3, <2>1, <2>2, <2>3, <2>4, SearchStutters, RareArchitectureKeeps, WideScreenKeeps, RaisedKeeps, LinearMemoKeeps
<1>4. ASSUME SmallDefault \/ SquaredLoss \/ ShallowBoost \/ ClassWeight \/ LinearLeaves
      PROVE  FitInv'
  <2>1. UNCHANGED searchVars
    BY <1>4 DEF SmallDefault, SquaredLoss, ShallowBoost, ClassWeight, LinearLeaves, Quiet
  <2> QED
    BY <1>4, <2>1, SearchStutters, SmallDefaultKeeps, SquaredLossKeeps, ShallowBoostKeeps,
       ClassWeightKeeps, LinearLeavesKeeps
<1>5. ASSUME JointRankRegions \/ RankCheckpoint \/ RareInteractions \/ MulticlassInteractions
             \/ BinaryInteractions
      PROVE  FitInv'
  <2>1. UNCHANGED searchVars
    BY <1>5 DEF JointRankRegions, RankCheckpoint, RareInteractions, MulticlassInteractions,
                BinaryInteractions, Quiet
  <2> QED
    BY <1>5, <2>1, SearchStutters, JointRankRegionsKeeps, RankCheckpointKeeps,
       RareInteractionsKeeps, MulticlassInteractionsKeeps, BinaryInteractionsKeeps
<1>6. ASSUME Monotone \/ LinearLeaf \/ Resolve
      PROVE  FitInv'
  <2>1. UNCHANGED searchVars
    BY <1>6 DEF Monotone, LinearLeaf, Resolve, Quiet
  <2> QED
    BY <1>6, <2>1, SearchStutters, MonotoneKeeps, LinearLeafKeeps, ResolveKeeps
<1> QED
  BY <1>1, <1>2, <1>3, <1>4, <1>5, <1>6 DEF ArchNext

\* The deployed fit starts, and the locals of the search go.
LEMMA TrainKeeps == FitInv /\ Train => FitInv'
<1> SUFFICES ASSUME FitInv, Train PROVE FitInv'
  OBVIOUS
<1>1. SearchInv'
  BY SearchStutters DEF FitInv, Train
<1>2. cfg' = Blank /\ rare' = FALSE /\ judged'.gate = "none" /\ stage' \in {"rare", "called"}
  BY DEF Train
<1>3. ArchInv'
  <2>1. Full(cfg')
    BY <1>2, BlankFields
  <2>2. Sound' /\ InOrder' /\ EditsJudgedOnConfiguration'
    BY <1>2, BlankFields DEF Sound, InOrder, EditsJudgedOnConfiguration
  <2> QED
    BY <2>1, <2>2 DEF ArchInv
<1> QED
  BY <1>1, <1>3 DEF FitInv

\* Every step of the fit keeps the invariant.
LEMMA FitNext == FitInv /\ [Next]_<<archVars, searchVars, fitVars, roundVars>> => FitInv'
<1> SUFFICES ASSUME FitInv, [Next]_<<archVars, searchVars, fitVars, roundVars>>
             PROVE  FitInv'
  OBVIOUS
<1>1. CASE ArchNext
  BY <1>1, ArchNextKeeps
<1>2. CASE Train
  BY <1>2, TrainKeeps
<1>3. CASE UNCHANGED <<archVars, searchVars>>
  BY <1>3, ArchStutters, SearchStutters DEF FitInv
<1> QED
  BY <1>1, <1>2, <1>3 DEF Next

\* For any tables, candidates, rungs, scores and evidence of the gates, the halving and the
\* chain of gates keep their invariant (_successive_halving, allocate_candidates, _fit).
THEOREM FitInvariant == Spec => []FitInv
<1>1. Init => FitInv
  BY FitStarts
<1>2. FitInv /\ [Next]_<<archVars, searchVars, fitVars, roundVars>> => FitInv'
  BY FitNext
<1> QED
  BY <1>1, <1>2, PTL DEF Spec

\* Every rung fits the default and the absolute leader of the rung before, at no more than
\* its budget and one (allocate_candidates).
THEOREM HalvingKeepsAnchors == Spec => []AnchorsSurvive
<1>1. FitInv => AnchorsSurvive
  BY AnchorsFollow DEF FitInv
<1> QED
  BY <1>1, FitInvariant, PTL

\* A challenger is deployed only on the scores of the full budget, beyond the margin, and
\* not against one that dominates it there (select_final_candidate, _auto_tune).
THEOREM ChallengerWinsAtFullBudget == Spec => []DeploysOnEqualBudget
<1>1. FitInv => DeploysOnEqualBudget
  BY DEF FitInv, SearchInv
<1> QED
  BY <1>1, FitInvariant, PTL

\* No accepted edit of the configuration was measured on another one (_fit, 2303-2452).
THEOREM GatesJudgeWhatTheyEdit == Spec => []EditsJudgedOnConfiguration
<1>1. FitInv => EditsJudgedOnConfiguration
  BY DEF FitInv, ArchInv
<1> QED
  BY <1>1, FitInvariant, PTL

\* Whatever combination of gates accepts, the booster takes the configuration (_fit and the
\* checks of CertifiedBoostClassifier.fit and reason_boost_softmax).
THEOREM ChainEndsTrainable == Spec => []ConfigurationIsTrainable
<1>1. FitInv => ConfigurationIsTrainable
  BY DEF FitInv, ArchInv, Sound, InOrder, ConfigurationIsTrainable
<1> QED
  BY <1>1, FitInvariant, PTL

\* A step of the fit is a step of the round loop or leaves it alone: the chain of gates
\* before it only chooses which fit is begun.
THEOREM FitRefinesRounds == Spec => RoundsSpec
<1>1. Init => RoundsInit
  BY DEF Init
<1>2. [Next]_<<archVars, searchVars, fitVars, roundVars>> => [RoundsNext]_<<fitVars, roundVars>>
  <2> SUFFICES ASSUME [Next]_<<archVars, searchVars, fitVars, roundVars>>
               PROVE  [RoundsNext]_<<fitVars, roundVars>>
    OBVIOUS
  <2>1. CASE Train
    BY <2>1 DEF Train, RoundsNext
  <2> QED
    BY <2>1 DEF Next
<1> QED
  BY <1>1, <1>2, PTL DEF Spec, RoundsSpec

\* Whatever the gates configured, the deployed fit keeps the record of its verifier, gives
\* pairs the capacity their auditions earned, and reports the rounds it deployed.
THEOREM DeployedPrefixIsTheRecord ==
    Spec => [](PrefixIsTheRecord /\ VerdictsAreEarned /\ ReportIsDeployed)
BY FitRefinesRounds, KeptPrefixIsRecord, AuditionsDecide, ReportsWhatItDeploys, PTL

-----------------------------------------------------------------------------
(* The gates answer from the evidence they are called with.                *)

Asked == UNION {Asks(op) : op \in DecisionOps}
AnswerOf ==
  \E c \in Asked : call = c /\ (answer = Pending \/ answer = [is |-> DecisionAnswer(c)])

\* The answer of a call is the one that the code computes from it.
LEMMA GatesAnswer == DecisionSpec => []AnswerOf
  <1>1. DecisionInit => AnswerOf
    BY DEF DecisionInit, AnswerOf, Asked
  <1>2. AnswerOf /\ [Decide]_<<call, answer>> => AnswerOf'
    <2> SUFFICES ASSUME AnswerOf, [Decide]_<<call, answer>> PROVE AnswerOf'
      OBVIOUS
    <2>1. PICK c \in Asked : /\ call = c
                             /\ answer = Pending \/ answer = [is |-> DecisionAnswer(c)]
      BY DEF AnswerOf
    <2>2. call' = c /\ (answer' = answer \/ answer' = [is |-> DecisionAnswer(c)])
      BY <2>1 DEF Decide
    <2> QED
      BY <2>1, <2>2 DEF AnswerOf
  <1> QED
    BY <1>1, <1>2, PTL DEF DecisionSpec

-----------------------------------------------------------------------------
(* The gates.                                                              *)

\* What the shared workspace accepted is what is deployed, at its checkpoint.
LEMMA RareIsMeasured ==
  ASSUME NEW e, NEW d, d = RareProgram(e)
  PROVE  /\ d.metric = RareMeasuredMetric(e, d.measured)
         /\ d.measured = "rank" => Accepts(e.rank, e.baseline)
         /\ d.measured = "rules" => /\ Accepts(e.rules, e.baseline)
                                    /\ e.capable /\ Accepts(e.rank, e.baseline) => Accepts(e.rules, e.rank)
         /\ d.measured = "baseline" => ~(e.capable /\ Accepts(e.rank, e.baseline))
  <1>1. CASE RareRules(e)
    BY <1>1 DEF RareProgram, RareMeasuredMetric, RareMetric, RareRank, RareRules
  <1>2. CASE ~RareRules(e) /\ RareRank(e)
    BY <1>2 DEF RareProgram, RareMeasuredMetric, RareMetric, RareRank
  <1>3. CASE ~RareRules(e) /\ ~RareRank(e)
    BY <1>3 DEF RareProgram, RareMeasuredMetric, RareMetric, RareRank
  <1> QED
    BY <1>1, <1>2, <1>3

\* The head and the multiclass rules are deployed when the workspace accepted them.
LEMMA MultiIsMeasured ==
  ASSUME NEW e, NEW d, d = MultiProgram(e)
  PROVE  /\ d.metric = MultiMeasuredMetric(d.measured)
         /\ d.head <=> d.measured = "head"
         /\ d.measured = "head" => Accepts(e.head, e.baseline) /\ ~Accepts(e.rank, e.baseline)
         /\ d.measured = "rank" => Accepts(e.rank, e.baseline)
         /\ d.measured = "rules" => /\ Accepts(e.rules, e.baseline)
                                    /\ Accepts(e.rank, e.baseline) => Accepts(e.rules, e.rank)
                                    /\ Accepts(e.head, e.baseline) /\ ~Accepts(e.rank, e.baseline)
                                          => Accepts(e.rules, e.head)
         /\ d.measured = "baseline" => ~Accepts(e.rank, e.baseline)
  <1> DEFINE head == MultiHead(e) /\ ~MultiRules(e)
  <1>1. CASE MultiRules(e)
    <2>1. d.measured = "rules" /\ d.metric = "rank" /\ d.head = FALSE
      BY <1>1 DEF MultiProgram
    <2>2. Accepts(e.rules, e.baseline)
      BY <1>1 DEF MultiRules
    <2>3. ASSUME Accepts(e.rank, e.baseline) PROVE Accepts(e.rules, e.rank)
      BY <1>1, <2>3 DEF MultiRules, MultiHead, MultiRank
    <2>4. ASSUME Accepts(e.head, e.baseline), ~Accepts(e.rank, e.baseline)
          PROVE  Accepts(e.rules, e.head)
      BY <1>1, <2>4 DEF MultiRules, MultiHead, MultiRank, HeadScreen
    <2> QED
      BY <2>1, <2>2, <2>3, <2>4 DEF MultiMeasuredMetric
  <1>2. CASE ~MultiRules(e) /\ MultiHead(e)
    <2>1. d.measured = "head" /\ d.metric = "own" /\ d.head = TRUE
      BY <1>2 DEF MultiProgram, MultiHead
    <2> QED
      BY <1>2, <2>1 DEF MultiMeasuredMetric, MultiHead, MultiRank
  <1>3. CASE ~MultiRules(e) /\ ~MultiHead(e) /\ MultiRank(e)
    <2>1. d.measured = "rank" /\ d.metric = "rank" /\ d.head = FALSE
      BY <1>3 DEF MultiProgram
    <2> QED
      BY <1>3, <2>1 DEF MultiMeasuredMetric, MultiRank
  <1>4. CASE ~MultiRules(e) /\ ~MultiHead(e) /\ ~MultiRank(e)
    <2>1. d.measured = "baseline" /\ d.metric = "own" /\ d.head = FALSE
      BY <1>4 DEF MultiProgram
    <2> QED
      BY <1>4, <2>1 DEF MultiMeasuredMetric, MultiRank
  <1> QED
    BY <1>1, <1>2, <1>3, <1>4

\* A booster is deployed at the checkpoint its choice was scored at, whatever the scores
\* of the folds and whichever evaluation raised.
THEOREM DeploysAtMeasuredCheckpoint == DecisionSpec => []DeployedAtMeasuredCheckpoint
  <1>1. AnswerOf => DeployedAtMeasuredCheckpoint
    <2>1. ASSUME AnswerOf, Answered("rare") PROVE answer.is = RareProgram(call.e)
      BY <2>1 DEF AnswerOf, Answered, DecisionAnswer
    <2>2. ASSUME AnswerOf, Answered("multiclass") PROVE answer.is = MultiProgram(call.e)
      BY <2>2 DEF AnswerOf, Answered, DecisionAnswer
    <2> QED
      BY <2>1, <2>2, RareIsMeasured, MultiIsMeasured DEF DeployedAtMeasuredCheckpoint
  <1> QED
    BY <1>1, GatesAnswer, PTL

\* A layer that wins beats the one below in every fold.
LEMMA WinsAreAbove ==
  ASSUME NEW I, NEW a \in [I -> Int], NEW b \in [I -> Int], NEW mean, Wins(a, b, mean)
  PROVE  Above(a, b)
  BY DEF Wins, Deltas, Above

\* A material gain is a gain in every fold.
LEMMA MaterialIsAbove ==
  ASSUME NEW I, NEW a \in [I -> Int], NEW b \in [I -> Int], Material(Deltas(a, b))
  PROVE  Above(a, b)
  BY DEF Material, Deltas, Above

\* The scores of the layers are numbers, one per fold.
LEMMA LayerScores ==
  ASSUME NEW e, \A i \in DOMAIN e.folds : IsFold(e.folds[i])
  PROVE  /\ BaseScores(e) \in [FoldsOf(e) -> Int]
         /\ PlainScores(e) \in [FoldsOf(e) -> Int]
         /\ RecursiveScores(e) \in [FoldsOf(e) -> Int]
         /\ ExceptionScores(e) \in [FoldsOf(e) -> Int]
  <1>1. \A i \in FoldsOf(e) : /\ e.folds[i].base \in Int /\ e.folds[i].plain \in Int
                              /\ e.folds[i].recursive \in Int /\ e.folds[i].exception \in Int
    BY DEF FoldsOf, IsFold
  <1>2. \A i \in FoldsOf(e) : PlainScore(e.folds[i]) \in Int
    BY <1>1 DEF PlainScore
  <1>3. \A i \in FoldsOf(e) : RecursiveScore(e.folds[i]) \in Int
    BY <1>1, <1>2 DEF RecursiveScore
  <1>4. \A i \in FoldsOf(e) : ExceptionScore(e.folds[i]) \in Int
    BY <1>1, <1>3 DEF ExceptionScore
  <1> QED
    BY <1>1, <1>2, <1>3, <1>4 DEF BaseScores, PlainScores, RecursiveScores, ExceptionScores

\* The scores of a clause program are numbers, one per fold.
LEMMA ClausesScore ==
  ASSUME NEW e, NEW kept, \A i \in DOMAIN e.folds : IsClaused(e.folds[i])
  PROVE  ClauseScores(e, kept) \in [FoldsOf(e) -> Int]
  BY DEF ClauseScores, ClauseScore, FoldsOf, IsClaused

\* Of the families that fold measured d with, d lacks none that was chosen and that all rows
\* gave it.
NothingDropped(e, d, chosen, fold) ==
  \A family \in MeasuredProgram(fold, d) :
      \/ family \in d.families
      \/ family \notin FullProgram(e, d)
      \/ family = "recursive" /\ "recursive" \notin chosen /\ "threshold" \in d.measured

\* Each chosen layer beats the next lower chosen one.
Layered(e, chosen) ==
  /\ "plain" \in chosen => Above(PlainScores(e), BaseScores(e))
  /\ "recursive" \in chosen =>
        Above(RecursiveScores(e), IF "plain" \in chosen THEN PlainScores(e) ELSE BaseScores(e))
  /\ "exception" \in chosen =>
        Above(ExceptionScores(e), IF "recursive" \in chosen THEN RecursiveScores(e)
                                  ELSE IF "plain" \in chosen THEN PlainScores(e)
                                  ELSE BaseScores(e))

\* What the property says of a program d deployed from a choice of layers.
Verified(e, d, chosen) ==
  /\ d.measured # {} /\ d.measured \subseteq chosen \cup {"threshold"}
  /\ OptionalKept(d.families) = OptionalKept(d.measured)
  /\ \A k \in OptionalKept(d.families) : Complete(e, k)
  /\ Layered(e, chosen)
  /\ \A i \in DOMAIN e.folds : NothingDropped(e, d, chosen, e.folds[i])
  /\ "threshold" \in d.measured =>
        /\ "threshold" \in d.families
        /\ \A i \in DOMAIN e.folds : OptionalKept(d.measured) \subseteq e.folds[i].threshold
        /\ Above(ClauseScores(e, OptionalKept(d.measured)), BaseScores(e))
        /\ Above(ClauseScores(e, OptionalKept(d.measured)), KeptScores(e, d.measured \ {"threshold"}))

\* A program cut to chosen layers drops no family below its highest layer: the exception
\* layer is chosen only where no fold had a recursive layer or that layer was chosen too.
LEMMA CutDropsNothing ==
  ASSUME NEW d, NEW e, NEW chosen, NEW i \in DOMAIN e.folds, IsFold(e.folds[i]),
         "threshold" \notin d.measured, d.families = Layer(e.full, chosen \cap e.full),
         "exception" \in chosen => (Seen(e, "recursive") => "recursive" \in chosen)
  PROVE  NothingDropped(e, d, chosen, e.folds[i])
  <1> SUFFICES ASSUME NEW family \in MeasuredProgram(e.folds[i], d), family \in e.full
               PROVE  family \in d.families
    BY DEF NothingDropped, FullProgram
  <1>1. family \in e.folds[i].families /\ family \in {"plain", "recursive", "exception"}
    BY DEF MeasuredProgram, IsFold
  <1>2. CASE family = "plain"
    BY <1>2 DEF Layer
  <1>3. CASE family = "exception"
    BY <1>3 DEF MeasuredProgram
  <1>4. CASE family = "recursive"
    <2>1. "recursive" \in d.families \/ "exception" \in d.families
      BY <1>4 DEF MeasuredProgram
    <2>2. "exception" \in d.families => "exception" \in chosen
      BY DEF Layer
    <2>3. Seen(e, "recursive")
      BY <1>1, <1>4 DEF Seen, FoldsOf
    <2>4. "recursive" \in chosen => "recursive" \in d.families
      BY <1>4 DEF Layer
    <2> QED
      BY <1>4, <2>1, <2>2, <2>3, <2>4
  <1> QED
    BY <1>1, <1>2, <1>3, <1>4

\* The layers that the binary gate keeps beat those below them.
LEMMA BinaryIsVerified ==
  ASSUME NEW e, \A i \in DOMAIN e.folds : IsFold(e.folds[i]), BinaryProgram(e).families # {}
  PROVE  Verified(e, BinaryProgram(e), Kept(e))
  <1> DEFINE chosen == Kept(e)
             kept == chosen \ ({"recursive", "exception"} \ e.full)
             layer == Layer(e.full, kept)
             d == BinaryProgram(e)
  <1>1. d.measured = kept /\ d.families = layer /\ kept # {}
    BY DEF BinaryProgram
  <1>2. /\ "plain" \in chosen <=> PlainKept(e)
        /\ "recursive" \in chosen <=> RecursiveKept(e)
        /\ "exception" \in chosen <=> ExceptionKept(e)
        /\ "threshold" \notin chosen
    BY DEF Kept
  <1> HIDE DEF chosen
  <1>3. OptionalKept(d.families) = OptionalKept(d.measured)
    BY <1>1 DEF Layer, OptionalKept
  <1>4. \A k \in OptionalKept(d.families) : Complete(e, k)
    BY <1>1, <1>2 DEF RecursiveKept, ExceptionKept, OptionalKept, Layer
  <1>5. PlainKept(e) => Above(PlainScores(e), BaseScores(e))
    BY LayerScores, WinsAreAbove DEF PlainKept
  <1>6. AbovePlain(e) = (IF "plain" \in chosen THEN PlainScores(e) ELSE BaseScores(e))
        /\ AbovePlain(e) \in [FoldsOf(e) -> Int]
    BY <1>2, LayerScores DEF AbovePlain
  <1>7. RecursiveKept(e) => Above(RecursiveScores(e), AbovePlain(e))
    BY <1>6, LayerScores, WinsAreAbove DEF RecursiveKept
  <1>8. ExceptionKept(e) => Above(ExceptionScores(e), AboveRecursive(e))
    BY <1>6, LayerScores, WinsAreAbove DEF ExceptionKept, AboveRecursive
  <1>9. AboveRecursive(e) = IF "recursive" \in chosen THEN RecursiveScores(e) ELSE AbovePlain(e)
    BY <1>2 DEF AboveRecursive
  <1>10. Layered(e, chosen)
    BY <1>2, <1>5, <1>6, <1>7, <1>8, <1>9 DEF Layered
  <1>11. \A i \in DOMAIN e.folds : NothingDropped(e, d, chosen, e.folds[i])
    <2>1. d.families = Layer(e.full, chosen \cap e.full)
      BY <1>1 DEF Layer
    <2>2. "exception" \in chosen => (Seen(e, "recursive") => "recursive" \in chosen)
      BY <1>2 DEF ExceptionKept
    <2>3. "threshold" \notin d.measured
      BY <1>1, <1>2
    <2> QED
      BY <2>1, <2>2, <2>3, CutDropsNothing
  <1>12. Verified(e, d, chosen)
    <2>1. d.measured # {} /\ d.measured \subseteq chosen /\ "threshold" \notin d.measured
      BY <1>1, <1>2
    <2> QED
      BY <1>3, <1>4, <1>10, <1>11, <2>1 DEF Verified
  <1> QED
    BY <1>12 DEF chosen

\* The layers of a program kept below the clauses.
LEMMA BelowClauses ==
  ASSUME NEW e, \A i \in DOMAIN e.folds : IsFold(e.folds[i]), NEW kept, kept = BinaryKept(e)
  PROVE  /\ kept \subseteq {"plain", "recursive", "exception"}
         /\ \A k \in kept \cap {"recursive", "exception"} : Complete(e, k) /\ k \in e.full
         /\ "exception" \in kept => (Seen(e, "recursive") => "recursive" \in kept)
         /\ Layered(e, kept)
  <1> DEFINE plain     == BinaryComplete(e) /\ "plain" \in e.full /\ Wins(PlainScores(e), BaseScores(e), 3)
             above     == IF plain THEN PlainScores(e) ELSE BaseScores(e)
             recursive == /\ LayerComplete(e, "recursive") /\ "recursive" \in e.full
                          /\ Wins(RecursiveScores(e), above, 2)
             higher    == IF recursive THEN RecursiveScores(e) ELSE above
             exception == /\ LayerComplete(e, "exception") /\ "exception" \in e.full
                          /\ Seen(e, "recursive") => recursive
                          /\ Wins(ExceptionScores(e), higher, 2)
  <1>1. kept = (IF plain THEN {"plain"} ELSE {}) \cup (IF recursive THEN {"recursive"} ELSE {})
                 \cup (IF exception THEN {"exception"} ELSE {})
    BY DEF BinaryKept
  <1>2. /\ plain => Above(PlainScores(e), BaseScores(e))
        /\ above \in [FoldsOf(e) -> Int] /\ higher \in [FoldsOf(e) -> Int]
    BY LayerScores, WinsAreAbove
  <1>3. recursive => Above(RecursiveScores(e), above) /\ Complete(e, "recursive") /\ "recursive" \in e.full
    <2> HIDE DEF above
    <2> QED
      BY <1>2, LayerScores, WinsAreAbove DEF LayerComplete
  <1>4. exception => /\ Above(ExceptionScores(e), higher) /\ Complete(e, "exception")
                     /\ "exception" \in e.full /\ (Seen(e, "recursive") => recursive)
    <2> HIDE DEF higher, recursive
    <2> QED
      BY <1>2, LayerScores, WinsAreAbove DEF LayerComplete
  <1>5. above = (IF plain THEN PlainScores(e) ELSE BaseScores(e))
        /\ higher = (IF recursive THEN RecursiveScores(e) ELSE above)
    OBVIOUS
  <1> HIDE DEF plain, recursive, exception, above, higher
  <1>6. /\ "plain" \in kept <=> plain
        /\ "recursive" \in kept <=> recursive
        /\ "exception" \in kept <=> exception
        /\ kept \subseteq {"plain", "recursive", "exception"}
    BY <1>1
  <1> QED
    BY <1>2, <1>3, <1>4, <1>5, <1>6 DEF Layered

\* Numeric clauses displace a kept program only when they beat it.
LEMMA ThresholdIsVerified ==
  ASSUME NEW e, \A i \in DOMAIN e.folds : IsClaused(e.folds[i]), ThresholdProgram(e).families # {}
  PROVE  Verified(e, ThresholdProgram(e), BinaryKept(e))
  <1>0. \A i \in DOMAIN e.folds : IsFold(e.folds[i])
    BY DEF IsClaused
  <1>1. PICK kept : kept = BinaryKept(e)
    OBVIOUS
  <1> DEFINE d == ThresholdProgram(e)
             optional == kept \cap {"recursive", "exception"}
  <1>2. /\ kept \subseteq {"plain", "recursive", "exception"}
        /\ \A k \in kept \cap {"recursive", "exception"} : Complete(e, k) /\ k \in e.full
        /\ "exception" \in kept => (Seen(e, "recursive") => "recursive" \in kept)
        /\ Layered(e, kept)
    BY <1>0, <1>1, BelowClauses
  <1>3. CASE ThresholdKept(e, kept)
    <2>1. d.measured = kept \cup {"threshold"} /\ d.families = Layer(e.fullThreshold, kept)
      BY <1>1, <1>3 DEF ThresholdProgram
    <2>2. /\ "threshold" \in Layer(e.fullThreshold, kept) /\ optional \subseteq e.fullThreshold
          /\ \A i \in DOMAIN e.folds : optional \subseteq e.folds[i].threshold
      BY <1>3 DEF ThresholdKept, OptionalKept, FoldsOf
    <2>3. optional = OptionalKept(d.families)
      BY <2>1, <2>2 DEF Layer, OptionalKept
    <2>4. ClauseScores(e, optional) = ClauseScores(e, kept)
      <3>1. ("recursive" \in optional <=> "recursive" \in kept) /\ ("exception" \in optional <=> "exception" \in kept)
        OBVIOUS
      <3> HIDE DEF optional
      <3> QED
        BY <3>1 DEF ClauseScores, ClauseScore
    <2>5. KeptScores(e, kept) \in [FoldsOf(e) -> Int]
      BY <1>0, LayerScores DEF KeptScores
    <2>6. Above(ClauseScores(e, kept), BaseScores(e)) /\ Above(ClauseScores(e, kept), KeptScores(e, kept))
      <3>1. ClauseScores(e, kept) \in [FoldsOf(e) -> Int]
        BY ClausesScore
      <3>2. BaseScores(e) \in [FoldsOf(e) -> Int]
        BY <1>0, LayerScores
      <3>3. /\ Material(Deltas(ClauseScores(e, kept), BaseScores(e)))
            /\ Material(Deltas(ClauseScores(e, kept), KeptScores(e, kept)))
        BY <1>3 DEF ThresholdKept
      <3>4. Above(ClauseScores(e, kept), BaseScores(e))
        BY <3>1, <3>2, <3>3, MaterialIsAbove
      <3>5. Above(ClauseScores(e, kept), KeptScores(e, kept))
        BY <2>5, <3>1, <3>3, MaterialIsAbove
      <3> QED
        BY <3>4, <3>5
    <2>7. d.measured \ {"threshold"} = kept /\ OptionalKept(d.measured) = optional
      BY <1>2, <2>1 DEF OptionalKept
    <2>8. ASSUME NEW i \in DOMAIN e.folds PROVE NothingDropped(e, d, kept, e.folds[i])
      <3>1. SUFFICES ASSUME NEW family \in MeasuredProgram(e.folds[i], d), family \in e.fullThreshold,
                            family \notin d.families
                     PROVE  family = "recursive" /\ "recursive" \notin kept
        BY <2>1 DEF NothingDropped, FullProgram
      <3>2. family \in {"plain", "recursive", "exception", "threshold"}
        BY <2>1 DEF MeasuredProgram, IsClaused
      <3>3. family # "exception"
        BY <3>1 DEF MeasuredProgram
      <3> QED
        BY <2>1, <3>1, <3>2, <3>3 DEF Layer
    <2> HIDE DEF optional, d
    <2>9. /\ \A k \in optional : Complete(e, k)
          /\ d.measured # {} /\ d.measured \subseteq kept \cup {"threshold"}
          /\ "threshold" \in d.families
      BY <1>2, <2>1, <2>2 DEF optional
    <2>10. Verified(e, d, kept)
      BY <1>2, <2>2, <2>3, <2>4, <2>6, <2>7, <2>8, <2>9 DEF Verified
    <2> QED
      BY <1>1, <2>10 DEF d
  <1>4. CASE ~ThresholdKept(e, kept)
    <2>1. d.measured = kept /\ d.families = Layer(e.full, kept) /\ kept # {}
      BY <1>1, <1>4 DEF ThresholdProgram
    <2>2. "threshold" \notin kept
      BY <1>2
    <2>3. OptionalKept(d.families) = OptionalKept(d.measured)
      BY <1>2, <2>1 DEF Layer, OptionalKept
    <2>4. \A i \in DOMAIN e.folds : NothingDropped(e, d, kept, e.folds[i])
      <3>1. Layer(e.full, kept) = Layer(e.full, kept \cap e.full)
        BY DEF Layer
      <3> QED
        BY <1>0, <1>2, <2>1, <2>2, <3>1, CutDropsNothing
    <2>5. \A k \in OptionalKept(d.families) : Complete(e, k)
      BY <1>2, <2>1, <2>3 DEF OptionalKept
    <2> HIDE DEF d
    <2>6. Verified(e, d, kept)
      BY <1>2, <2>1, <2>2, <2>3, <2>4, <2>5 DEF Verified
    <2> QED
      BY <1>1, <2>6 DEF d
  <1> QED
    BY <1>3, <1>4

\* A layered program is deployed layer by layer: each chosen layer beats the next lower one,
\* only chosen layers that every fold had are deployed, and none that was measured is left
\* out but by the compile on all rows (or a recursive one beside numeric clauses only).
THEOREM DeploysVerifiedLayers == DecisionSpec => []DeployedLayersWereVerified
  <1>1. AnswerOf => DeployedLayersWereVerified
    <2> SUFFICES ASSUME AnswerOf PROVE DeployedLayersWereVerified
      OBVIOUS
    <2>1. PICK c \in Asked : /\ call = c
                             /\ answer = Pending \/ answer = [is |-> DecisionAnswer(c)]
      BY DEF AnswerOf
    <2>2. ASSUME Answered("binary"), answer.is.families # {} PROVE Verified(c.e, answer.is, Kept(c.e))
      <3>1. answer.is = BinaryProgram(c.e) /\ c \in Asks("binary")
        BY <2>1, <2>2 DEF Answered, DecisionAnswer, Asked, Asks
      <3> QED
        BY <2>2, <3>1, GatesScoreFolds, BinaryIsVerified
    <2>3. ASSUME Answered("threshold"), answer.is.families # {} PROVE Verified(c.e, answer.is, BinaryKept(c.e))
      <3>1. answer.is = ThresholdProgram(c.e) /\ c \in Asks("threshold")
        BY <2>1, <2>3 DEF Answered, DecisionAnswer, Asked, Asks
      <3> QED
        BY <2>3, <3>1, GatesScoreFolds, ThresholdIsVerified
    <2> QED
      BY <2>1, <2>2, <2>3
         DEF DeployedLayersWereVerified, Verified, ChosenLayers, Layered, NothingDropped, Answered
  <1> QED
    BY <1>1, GatesAnswer, PTL

-----------------------------------------------------------------------------
(* The router.                                                             *)

\* What a fold's training rows enable does not depend on the outcome of other rows.
LEMMA EnabledByTraining ==
  ASSUME NEW e, NEW f, NEW rows, f.cell = e.cell, \A r \in rows : f.gain[r] = e.gain[r]
  PROVE  Enabled(f, rows) = Enabled(e, rows)
  <1>1. \A c : /\ {r \in rows : f.cell[r] = c /\ f.gain[r] > 0} = {r \in rows : e.cell[r] = c /\ e.gain[r] > 0}
               /\ {r \in rows : f.cell[r] = c /\ f.gain[r] < 0} = {r \in rows : e.cell[r] = c /\ e.gain[r] < 0}
    OBVIOUS
  <1>2. \A c : CellWins(f, rows, c) = CellWins(e, rows, c) /\ CellLosses(f, rows, c) = CellLosses(e, rows, c)
    BY <1>1 DEF CellWins, CellLosses
  <1> QED
    BY <1>2 DEF Enabled

\* What CrossFit routes in a fold is what the fold's training rows say of it.
LEMMA RoutedByFold ==
  ASSUME NEW e, NEW splits, NEW evidence, ~CrossFit(e, splits, evidence).raised,
         \A i, j \in DOMAIN splits : i # j => splits[i].valid \cap splits[j].valid = {},
         NEW i \in DOMAIN splits
  PROVE  CrossFit(e, splits, evidence).routed \cap splits[i].valid
           = Routed(e, splits[i].valid, Enabled(e, splits[i].train \cap evidence))
  <1> DEFINE Part(j) == Routed(e, splits[j].valid, Enabled(e, splits[j].train \cap evidence))
  <1>1. CrossFit(e, splits, evidence).routed = UNION {Part(j) : j \in DOMAIN splits}
    BY DEF CrossFit, NoRouting
  <1>2. \A j \in DOMAIN splits : Part(j) \subseteq splits[j].valid
    BY DEF Routed
  <1> HIDE DEF Part
  <1>3. CrossFit(e, splits, evidence).routed \cap splits[i].valid = Part(i)
    BY <1>1, <1>2
  <1> QED
    BY <1>3 DEF Part

\* No row's outcome, nor another's of its fold, decides whether it takes the expert.
THEOREM RoutesWithoutLeak == DecisionSpec => []RoutingIsLeakSafe
  <1>1. AnswerOf => RoutingIsLeakSafe
    <2> SUFFICES ASSUME AnswerOf, Answered("route"), ~answer.is.raised
                 PROVE  /\ call.evidence \subseteq UNION {call.splits[i].valid : i \in DOMAIN call.splits}
                        /\ \A i \in DOMAIN call.splits : \A s \in SUBSET call.splits[i].valid :
                              CrossFit(Flipped(call.e, s), call.splits, call.evidence).routed
                                  \cap call.splits[i].valid
                                = answer.is.routed \cap call.splits[i].valid
      BY DEF RoutingIsLeakSafe
    <2>1. PICK c \in Asked : /\ call = c
                             /\ answer = Pending \/ answer = [is |-> DecisionAnswer(c)]
      BY DEF AnswerOf
    <2>2. answer.is = CrossFit(c.e, c.splits, c.evidence) /\ c \in Asks("route")
      BY <2>1 DEF Answered, DecisionAnswer, Asked, Asks
    <2>3. c.evidence \subseteq UNION {c.splits[i].valid : i \in DOMAIN c.splits}
      BY <2>2 DEF CrossFit, NoRouting
    <2>4. ASSUME NEW i \in DOMAIN c.splits, NEW s \in SUBSET c.splits[i].valid
          PROVE  CrossFit(Flipped(c.e, s), c.splits, c.evidence).routed \cap c.splits[i].valid
                   = answer.is.routed \cap c.splits[i].valid
      <3>1. PICK f : f = Flipped(c.e, s)
        OBVIOUS
      <3>2. /\ f.cell = c.e.cell
            /\ \A r \in DOMAIN c.e.gain : r \notin s => f.gain[r] = c.e.gain[r]
        <4>1. DOMAIN c.e = {"cell", "gain"}
          BY <2>2, RouterFoldsAreHeldOut
        <4> QED
          BY <3>1, <4>1 DEF Flipped
      <3>3. /\ c.splits[i].train \cup c.splits[i].valid \subseteq DOMAIN c.e.gain
            /\ c.splits[i].train \cap c.splits[i].valid = {}
            /\ \A k, j \in DOMAIN c.splits : k # j => c.splits[k].valid \cap c.splits[j].valid = {}
        BY <2>2, RouterFoldsAreHeldOut
      <3>4. ~CrossFit(f, c.splits, c.evidence).raised
        BY <2>2 DEF CrossFit, NoRouting
      <3>5. Enabled(f, c.splits[i].train \cap c.evidence) = Enabled(c.e, c.splits[i].train \cap c.evidence)
        <4>1. \A r \in c.splits[i].train \cap c.evidence : f.gain[r] = c.e.gain[r]
          BY <3>2, <3>3
        <4> QED
          BY <3>2, <4>1, EnabledByTraining
      <3>6. \A rows, enabled : Routed(f, rows, enabled) = Routed(c.e, rows, enabled)
        BY <3>2 DEF Routed
      <3>7. CrossFit(f, c.splits, c.evidence).routed \cap c.splits[i].valid
              = Routed(f, c.splits[i].valid, Enabled(f, c.splits[i].train \cap c.evidence))
        BY <3>3, <3>4, RoutedByFold
      <3>8. answer.is.routed \cap c.splits[i].valid
              = Routed(c.e, c.splits[i].valid, Enabled(c.e, c.splits[i].train \cap c.evidence))
        BY <2>2, <3>3, RoutedByFold
      <3> QED
        BY <3>1, <3>5, <3>6, <3>7, <3>8
    <2> QED
      BY <2>1, <2>3, <2>4
  <1> QED
    BY <1>1, GatesAnswer, PTL
=============================================================================
