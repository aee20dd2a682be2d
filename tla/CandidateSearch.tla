--------------------------- MODULE CandidateSearch ---------------------------
(***************************************************************************)
(* The booster configuration search: successive halving over a few         *)
(* candidate configurations (TabPVN._successive_halving), the allocation   *)
(* of the next budget and the nomination of a finalist                     *)
(* (src/tabpvn/candidate_allocation.py), and the deployment gate of the    *)
(* caller (_auto_tune, _auto_tune_clf).                                    *)
(*                                                                         *)
(* A score is [abs, second, paired]: the absolute metric, the secondary    *)
(* one, and the metric on the paired verification blocks; larger is        *)
(* better.  The scenario statistics of scenario_validation.py are left     *)
(* open up to what any mixture of the blocks implies: a candidate at least *)
(* as good on every block is not ranked behind.                            *)
(***************************************************************************)
EXTENDS Integers, Sequences, FiniteSets, SequencesExt, FiniteSetsExt

CONSTANTS Candidates,   \* configurations, in the order of the list
          Base,         \* BASE: the certified default
          Rungs,        \* number of rungs
          Scores,       \* what a fit may score
          MinUnits,     \* _MIN_GROUP_RELATIVE_EVIDENCE_UNITS
          Margin,       \* gain over the default that deploys a challenger
          MaxLoss       \* tolerated loss of the secondary metric

ASSUME CandidatesAssumption ==
    Candidates \subseteq Nat /\ IsFiniteSet(Candidates) /\ Base \in Candidates
ASSUME RungsAssumption == Rungs \in Nat \ {0}
ASSUME ScoresAssumption ==
    Scores \subseteq [abs : Int, second : Int, paired : Seq(Int)] /\ MinUnits \in Nat

VARIABLES rung,        \* the rung to be fitted next, from 1
          survivors,   \* the candidates it fits, in order
          scores,      \* candidate -> [rung, score]: its latest score
          fitted,      \* rung -> the candidates that were fitted in it
          pick,        \* the deployed configuration, or NoPick
          phase        \* "halving", "gate", "done", "fallback", "raised"
searchVars == <<rung, survivors, scores, fitted, pick, phase>>

NoPick == -1
NoScore == [rung |-> 0]

-----------------------------------------------------------------------------
(* candidate_allocation.py; s is the score function of the present rung *)

\* The members of S in the order of a relation (sorted).
Ordered(S, before) ==
    CHOOSE o \in SetToSeqs(S) : \A i, j \in DOMAIN o : i < j => <<o[i], o[j]>> \in before

\* The candidates of the first rung.
AsListed == Ordered(Candidates, {e \in Candidates \X Candidates : e[1] < e[2]})

\* Paired evidence decides only when there are enough blocks, the same number for all.
RelativeActive(s, cands) ==
    \A c \in Range(cands) : /\ Len(s[c].paired) >= MinUnits
                            /\ Len(s[c].paired) = Len(s[Head(cands)].paired)

AbsBefore(s, a, b) == s[a].abs > s[b].abs \/ (s[a].abs = s[b].abs /\ s[a].second > s[b].second)

\* A stable sort keeps this order of equals, and a list comprehension keeps it of all.
Precedes(o, a, b) == \E i, j \in DOMAIN o : i < j /\ o[i] = a /\ o[j] = b

\* The absolute order: the metric, then the secondary one, then the list.
AbsRanked(s, cands) ==
    Ordered(Range(cands), {e \in Range(cands) \X Range(cands) :
        \/ AbsBefore(s, e[1], e[2])
        \/ ~AbsBefore(s, e[2], e[1]) /\ Precedes(cands, e[1], e[2])})

NoWorse(s, a, b) == \A i \in DOMAIN s[b].paired : s[a].paired[i] >= s[b].paired[i]
Dominates(s, a, b) == NoWorse(s, a, b) /\ ~NoWorse(s, b, a)

\* The orders the scenario statistics may produce.
RobustOrders(s, cands) ==
    {o \in SetToSeqs(Range(cands)) :
        \A i, j \in DOMAIN o :
            i < j => ~(Dominates(s, o[j], o[i]) /\ ~AbsBefore(s, o[i], o[j]))}

Orders(s, cands) ==
    IF RelativeActive(s, cands) THEN RobustOrders(s, cands) ELSE {AbsRanked(s, cands)}

\* _dominated_candidates: never the default.
Dominated(s, cands) ==
    {c \in Range(cands) \ {Base} : \E other \in Range(cands) : Dominates(s, other, c)}

\* Mutant: the default is only kept if it is within the budget.
PromotedWithinBudget(s, cands, order, keep, prune) ==
    SubSeq(order, 1, Min({keep, Len(order)}))

\* allocate_candidates: the leader first, then the order without the dominated ones, cut
\* to the budget, and the default again if the cut removed it.
Promoted(s, cands, order, keep, prune) ==
    LET leader   == Head(AbsRanked(s, cands))
        dropped  == (IF prune /\ RelativeActive(s, cands) THEN Dominated(s, cands) ELSE {}) \ {leader}
        stay     == Range(order) \ (dropped \cup {leader})
        eligible == Ordered(stay, {e \in stay \X stay : Precedes(order, e[1], e[2])})
        kept     == SubSeq(<<leader>> \o eligible, 1, Min({keep, 1 + Len(eligible)}))
    IN  IF Base \in Range(kept) THEN kept ELSE Append(kept, Base)

-----------------------------------------------------------------------------
(* _successive_halving *)

Keep == (Len(survivors) + 1) \div 2

\* Every survivor is fitted at this rung's budget and its score replaced; then the next
\* budget is allocated.  Dominance prunes from the second rung on.
Halve ==
    /\ phase = "halving" /\ rung < Rungs
    /\ \E s \in [Range(survivors) -> Scores] :
          /\ scores' = [c \in DOMAIN scores |->
                           IF c \in Range(survivors) THEN [rung |-> rung, score |-> s[c]]
                           ELSE scores[c]]
          /\ \E order \in Orders(s, survivors) :
                survivors' = Promoted(s, survivors, order, Keep, rung > 1)
    /\ fitted' = Append(fitted, Range(survivors))
    /\ rung' = rung + 1
    /\ UNCHANGED <<pick, phase>>

\* The last rung only scores.
Final ==
    /\ phase = "halving" /\ rung = Rungs
    /\ \E s \in [Range(survivors) -> Scores] :
          scores' = [c \in DOMAIN scores |->
                        IF c \in Range(survivors) THEN [rung |-> rung, score |-> s[c]]
                        ELSE scores[c]]
    /\ fitted' = Append(fitted, Range(survivors))
    /\ phase' = "gate"
    /\ UNCHANGED <<rung, survivors, pick>>

\* Mutant: the nomination by the lower tail is deployed without the absolute gate.
NominationDeploys(c, guarded) == guarded => scores[c].score.second >= scores[Base].score.second - MaxLoss

\* The caller's gate: the finalist replaces the default only on a clear absolute win
\* that keeps the secondary metric.
\* The regression search has no secondary metric.
Deployable(c, guarded) ==
    /\ scores[c].score.abs > scores[Base].score.abs + Margin
    /\ guarded => scores[c].score.second >= scores[Base].score.second - MaxLoss

\* select_final_candidate and the gate.  A single finalist is the absolute leader.
Deploy(guarded) ==
    /\ phase = "gate"
    /\ LET s == [c \in Range(survivors) |-> scores[c].score]
       IN  \E order \in IF Len(survivors) > 1 THEN Orders(s, survivors) ELSE {survivors} :
              pick' = IF Deployable(Head(order), guarded) THEN Head(order) ELSE Base
    /\ phase' = "done"
    /\ UNCHANGED <<rung, survivors, scores, fitted>>

\* A fit that fails: a search on future evidence that has no metric support falls back to
\* the default, any other one fails with it.
Fail(future) ==
    /\ phase = "halving"
    /\ \/ future /\ phase' = "fallback" /\ pick' = Base
       \/ phase' = "raised" /\ UNCHANGED pick
    /\ UNCHANGED <<rung, survivors, scores, fitted>>

SearchInit ==
    /\ rung = 1
    /\ survivors = AsListed
    /\ scores = [c \in Candidates |-> NoScore]
    /\ fitted = <<>>
    /\ pick = NoPick /\ phase = "halving"

SearchStep(guarded, future) == Halve \/ Final \/ Deploy(guarded) \/ Fail(future)

\* The search's variables are local to the call.
SearchReturn ==
    /\ rung' = 1
    /\ survivors' = AsListed
    /\ scores' = [c \in Candidates |-> NoScore]
    /\ fitted' = <<>>
    /\ pick' = NoPick /\ phase' = "halving"

-----------------------------------------------------------------------------
(* Properties *)

\* allocate_candidates keeps both anchors through every cut: the default is fitted in
\* every rung, and so is a candidate that no other one of the rung before beat on the
\* absolute metric; a rung costs at most half of the rung before and the default.
AnchorsSurvive ==
    /\ Base \in Range(survivors)
    /\ \A r \in DOMAIN fitted : Base \in fitted[r]
    /\ \A r \in 2 .. Len(fitted) :
          /\ fitted[r] \subseteq fitted[r - 1]
          /\ Cardinality(fitted[r]) <= (Cardinality(fitted[r - 1]) + 1) \div 2 + 1
    /\ rung > 1 /\ phase = "halving" =>
          LET before == fitted[rung - 1]
              best == CHOOSE a \in {scores[c].score.abs : c \in before} :
                         \A c \in before : scores[c].score.abs <= a
          IN  \E c \in Range(survivors) : scores[c].score.abs = best

\* _auto_tune and _auto_tune_clf compare the finalist with the default by the scores kept
\* in one dictionary that every rung overwrites: both were measured at the full budget,
\* and a deployed challenger beat the default by the margin there, although it was
\* nominated by its lower tail and not by that metric.
DeploysOnEqualBudget ==
    phase = "done" /\ pick # Base =>
        /\ scores[pick].rung = Rungs /\ scores[Base].rung = Rungs
        /\ scores[pick].score.abs > scores[Base].score.abs + Margin
        /\ \A c \in fitted[Rungs] \ {pick} :
              Dominates([k \in fitted[Rungs] |-> scores[k].score], c, pick) =>
                  \/ AbsBefore([k \in fitted[Rungs] |-> scores[k].score], pick, c)
                  \/ ~RelativeActive([k \in fitted[Rungs] |-> scores[k].score],
                                     SetToSeq(fitted[Rungs]))
=============================================================================
