----------------------------- MODULE FOLKernel -----------------------------
(***************************************************************************)
(* FOLKernel (core/kernel_fol.py): the constructor stratifies the rules, or *)
(* raises; closure then evaluates the rules stratum by stratum.             *)
(*                                                                         *)
(* A rule base carries its rules, the base facts closure is called with and *)
(* two readings of the rules: the dependencies _stratify goes through       *)
(* (Stratification) and the ground instances _match finds (FOLClosure).     *)
(***************************************************************************)
EXTENDS Stratification, FOLClosure, HornClauses

\* The atoms of one body that name a predicate, negated or not, in body order; the
\* other tags are no derived predicates.
Dependencies(rule) ==
  LET atoms == SelectSeq(rule.body, LAMBDA atom : atom.tag \in {"pos", "not"})
  IN [k \in DOMAIN atoms |-> [head |-> rule.head.pred, pred |-> atoms[k].pred,
                              negative |-> atoms[k].tag = "not"]]

\* What FOLKernel(rules) and closure(base) are given.
RuleBase(source, base) ==
  [idb |-> {source[r].head.pred : r \in DOMAIN source},
   atoms |-> FlattenSeq([r \in DOMAIN source |-> Dependencies(source[r])]),
   source |-> source, base |-> base,
   rules |-> [r \in DOMAIN source |-> Instances(source[r], Facts)]]

\* Every instance of a rule has the rule's predicate in its head; of the derived
\* predicates, its premises and negated facts have those of the rule's dependencies.
ASSUME InstancesHaveDependencies ==
  \A p \in RuleBases :
    /\ p.base \subseteq Facts /\ p.rules \in Seq(SUBSET Instance)
    /\ \A r \in DOMAIN p.rules : \E h \in p.idb : \A i \in p.rules[r] :
         /\ i.head[1] = h
         /\ \A f \in Premises(i) : f[1] \in p.idb =>
              \E k \in DOMAIN p.atoms : p.atoms[k].head = h /\ p.atoms[k].pred = f[1]
         /\ \A f \in i.neg : f[1] \in p.idb =>
              \E k \in DOMAIN p.atoms : /\ p.atoms[k].head = h /\ p.atoms[k].pred = f[1]
                                       /\ p.atoms[k].negative

\* Mutant: the strata are not consulted: every fact is in the lowest.
StratumOfNone(fact) == 0

\* self.stratum of the fact's predicate; one that no rule derives is below every rule.
StratumOf(fact) == IF fact[1] \in rulebase.idb THEN strata[fact[1]] ELSE 0

\* closure has not been called: there is nothing to evaluate.
NoProgram == [source |-> <<>>, base |-> {}, rules |-> <<>>, stratum |-> <<>>]

KernelInit ==
  /\ StratInit
  /\ program = NoProgram
  /\ facts = {} /\ added = <<>> /\ provenance = <<>>
  /\ stratum = 0 /\ cursor = 0 /\ start = {}
  /\ changed = FALSE /\ done = FALSE

\* FOLKernel(rules)
Construct == StratNext /\ UNCHANGED vars

\* closure(base) of a kernel that was constructed.
Call ==
  /\ verdict = "accepted" /\ program = NoProgram
  /\ program' = [source |-> rulebase.source, base |-> rulebase.base, rules |-> rulebase.rules,
                 stratum |-> [f \in Facts |-> StratumOf(f)]]
  /\ facts' = rulebase.base
  /\ provenance' = [f \in rulebase.base |-> FromBase]
  /\ UNCHANGED <<added, stratum, cursor, start, changed, done>>
  /\ UNCHANGED stratVars

\* closure goes through the strata.
Saturate == program # NoProgram /\ Next /\ UNCHANGED stratVars

KernelNext == Construct \/ Call \/ Saturate

kernelVars == <<vars, stratVars>>

\* One thread constructs the kernel and calls it: it goes on as long as it can.
KernelSpec == KernelInit /\ [][KernelNext]_kernelVars /\ WF_kernelVars(KernelNext)

-----------------------------------------------------------------------------
(* Properties.                                                             *)

\* Every finite rule base is answered: with the ValueError, or with a closure.
Answers == <>(verdict = "rejected" \/ done)

\* A kernel whose rules can be stratified returns their one stable model.
ReturnsTheStandardModel ==
  done /\ Stratifications # {} =>
    IsStable(facts) /\ \A model \in SUBSET Facts : IsStable(model) => model = facts
=============================================================================
