--------------------------- MODULE Stratification ---------------------------
(***************************************************************************)
(* FOLKernel._stratify (core/kernel_fol.py): strata of the predicates a     *)
(* rule base derives, by in-place relaxation over the body atoms in rule    *)
(* order, for at most one pass more than there are predicates; then every   *)
(* negated atom is checked against the strata it came to.                   *)
(*                                                                         *)
(* Of a rule only its dependencies matter here: one per body atom, from the *)
(* head's predicate to the atom's, negated or not.  A rule without one      *)
(* still makes its head a derived predicate.                                *)
(***************************************************************************)
EXTENDS Naturals, Sequences, FiniteSets

CONSTANTS Preds,      \* predicate names
          RuleBases,  \* records [idb, atoms]: derived predicates, dependencies in rule order
          Levels      \* the strata a stratification may be looked for in

Dependency == [head : Preds, pred : Preds, negative : BOOLEAN]

\* No stratum below a level is left out.
ASSUME LevelsAreStrata == Levels \subseteq Nat /\ \A n \in Levels : 0..n \subseteq Levels

ASSUME RuleBasesAreDependencies ==
  \A p \in RuleBases :
    /\ p.idb \subseteq Preds /\ IsFiniteSet(p.idb)
    /\ p.atoms \in Seq(Dependency)
    /\ \A k \in DOMAIN p.atoms : p.atoms[k].head \in p.idb

VARIABLES
  rulebase,
  strata,   \* stratum of every derived predicate
  pass,     \* _iteration
  reading,  \* the body atom under inspection
  raised,
  verdict   \* "pending", then "accepted" or "rejected" (ValueError)

stratVars == <<rulebase, strata, pass, reading, raised, verdict>>

\* What an atom asks of its head's stratum.
Required(a, s) == s[a.pred] + (IF a.negative THEN 1 ELSE 0)

\* The atom is about a derived predicate and asks for more than its head has.
Raises(a, s) == a.pred \in DOMAIN s /\ Required(a, s) > s[a.head]

\* The check after the loop.
NegationAtOrAbove(a, s) == a.negative /\ a.pred \in DOMAIN s /\ s[a.pred] >= s[a.head]

StratInit ==
  /\ rulebase \in RuleBases
  /\ strata = [p \in rulebase.idb |-> 0]
  /\ pass = 0 /\ reading = 1
  /\ raised = FALSE
  /\ verdict = "pending"

Pending == verdict = "pending"

\* One body atom: raise the head's stratum to what the atom requires.
Relax ==
  /\ Pending /\ reading \in DOMAIN rulebase.atoms
  /\ LET a == rulebase.atoms[reading]
     IN IF Raises(a, strata)
        THEN strata' = [strata EXCEPT ![a.head] = Required(a, strata)] /\ raised' = TRUE
        ELSE UNCHANGED <<strata, raised>>
  /\ reading' = reading + 1
  /\ UNCHANGED <<rulebase, pass, verdict>>

PassEnded == Pending /\ reading > Len(rulebase.atoms)

\* Another iteration, if the last one raised a stratum and one is left.
NextPass ==
  /\ PassEnded
  /\ raised /\ pass < Cardinality(rulebase.idb)
  /\ pass' = pass + 1 /\ reading' = 1 /\ raised' = FALSE
  /\ UNCHANGED <<rulebase, strata, verdict>>

\* Mutant: the loop is left behind its first iteration.
JudgeAtOnce ==
  /\ PassEnded
  /\ verdict' = IF \E k \in DOMAIN rulebase.atoms : NegationAtOrAbove(rulebase.atoms[k], strata)
                THEN "rejected" ELSE "accepted"
  /\ UNCHANGED <<rulebase, strata, pass, reading, raised>>

\* The loop is left, by the break or at its last iteration, and the strata are judged.
Judge ==
  /\ PassEnded
  /\ ~raised \/ pass = Cardinality(rulebase.idb)
  /\ verdict' = IF \E k \in DOMAIN rulebase.atoms : NegationAtOrAbove(rulebase.atoms[k], strata)
                THEN "rejected" ELSE "accepted"
  /\ UNCHANGED <<rulebase, strata, pass, reading, raised>>

StratNext == Relax \/ NextPass \/ Judge

StratSpec == StratInit /\ [][StratNext]_stratVars

-----------------------------------------------------------------------------
(* Properties.                                                             *)

StratTypeOK ==
  /\ rulebase \in RuleBases
  /\ strata \in [rulebase.idb -> Nat]
  /\ pass \in 0..Cardinality(rulebase.idb)
  /\ reading \in 1..(Len(rulebase.atoms) + 1)
  /\ raised \in BOOLEAN
  /\ verdict \in {"pending", "accepted", "rejected"}

\* A stratification puts no head below a predicate of its body, and above the negated
\* ones.
Solves(s) ==
  \A k \in DOMAIN rulebase.atoms :
    LET a == rulebase.atoms[k]
    IN a.pred \in rulebase.idb => /\ s[a.pred] <= s[a.head]
                                  /\ a.negative => s[a.pred] < s[a.head]

Stratifications == {s \in [rulebase.idb -> Levels] : Solves(s)}

\* Relaxation never overshoots: whatever the order of the rules, no stratum is ever
\* above the one it has in some stratification of the rule base.
NeverOvershoots == \A s \in Stratifications : \A p \in rulebase.idb : strata[p] <= s[p]

\* When the loop is left because nothing was raised, the strata are a stratification.
QuietPassSolves == ~Pending /\ ~raised => Solves(strata)

\* A rule base that can be stratified is: it is not rejected, the passes suffice, and the
\* strata are its least stratification.
StratifiableIsStratified ==
  ~Pending /\ Stratifications # {} => verdict = "accepted" /\ strata \in Stratifications

\* "supports ... stratified negation" (module docstring), with a ValueError for a rule
\* base that has none: what is accepted is stratified by the strata returned.
AcceptedIsStratified == verdict = "accepted" => Solves(strata)
=============================================================================
