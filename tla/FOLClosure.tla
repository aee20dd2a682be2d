----------------------------- MODULE FOLClosure -----------------------------
(***************************************************************************)
(* FOLKernel.closure (core/kernel_fol.py): bottom-up evaluation of a        *)
(* stratified rule base, one stratum after the other, each swept rule by    *)
(* rule until a whole sweep adds nothing.  Every new fact keeps the rule    *)
(* and the premises that produced it.                                       *)
(*                                                                         *)
(* A rule stands here for the set of its ground instances (HornClauses      *)
(* grounds them; comparisons and arithmetic do not depend on the facts):    *)
(* a head, the positive premises in body order and the negated facts.       *)
(* _match is a generator over the very lists closure appends to, so a sweep *)
(* of a rule sees the facts it started with and may see those added since.  *)
(***************************************************************************)
EXTENDS Naturals, Sequences

CONSTANTS Facts,     \* the ground facts that can be expressed
          Programs   \* records [base, rules, stratum]: a rule is a set of ground instances

Instance == [head : Facts, pos : Seq(Facts), neg : SUBSET Facts]

Premises(i) == {i.pos[k] : k \in DOMAIN i.pos}

\* The facts that some rule can derive.
Heads(p) == UNION {{i.head : i \in p.rules[r]} : r \in DOMAIN p.rules}

\* stratum is what _stratify returns: the stratum of every fact's predicate, 0 for
\* the predicates no rule derives, which may be negated in every stratum.
WellStratified(p) ==
  \A r \in DOMAIN p.rules : \A i \in p.rules[r] :
    /\ \A f \in Premises(i) : p.stratum[f] <= p.stratum[i.head]
    /\ \A f \in i.neg \cap Heads(p) : p.stratum[f] < p.stratum[i.head]

\* All instances of a rule have one head predicate, hence one stratum.
OneHead(p) == \A r \in DOMAIN p.rules : \A i, j \in p.rules[r] :
                p.stratum[i.head] = p.stratum[j.head]

\* What closure takes to evaluate.
IsProgram(p) ==
  /\ p.base \subseteq Facts
  /\ p.rules \in Seq(SUBSET Instance)
  /\ p.stratum \in [Facts -> Nat]
  /\ OneHead(p)

ASSUME ProgramsAreRuleBases == \A p \in Programs : IsProgram(p) /\ WellStratified(p)

VARIABLES
  program,     \* the rule base and the base facts
  facts,       \* the closure computed so far
  added,       \* the derived facts, in the order closure added them
  provenance,  \* of each fact: the rule (0 for a base fact) and the premises
  stratum,     \* stratum being evaluated
  cursor,      \* index of the rule being swept, 0 between two sweeps
  start,       \* the facts the rule's sweep started with
  changed,     \* whether this sweep of the stratum added a fact
  done

vars == <<program, facts, added, provenance, stratum, cursor, start, changed, done>>

\* max(self.stratum.values(), default=0) is reached when no rule lies above.
IsTop(s) == \A r \in DOMAIN program.rules : \A i \in program.rules[r] :
              program.stratum[i.head] <= s

InLayer(r, s) == \A i \in program.rules[r] : program.stratum[i.head] = s

\* _match succeeds: the premises are facts and no negated atom is.
Matches(i, known) == Premises(i) \subseteq known /\ i.neg \cap facts = {}

FromBase == [rule |-> 0, premises |-> <<>>]

Init ==
  /\ program \in Programs
  /\ facts = program.base
  /\ added = <<>>
  /\ provenance = [f \in program.base |-> FromBase]
  /\ stratum = 0 /\ cursor = 0
  /\ start = {}
  /\ changed = FALSE /\ done = FALSE

\* Go on to rule r; the sweep of the stratum ends behind the last rule.
SweepFrom(r) ==
  /\ cursor' = r
  /\ start' = facts

\* "while changed": enter the rules of the stratum.
BeginSweep ==
  /\ ~done /\ cursor = 0
  /\ changed' = FALSE
  /\ SweepFrom(1)
  /\ UNCHANGED <<program, facts, added, provenance, stratum, done>>

\* facts, index and provenance take the new fact; an older entry is never replaced.
Record(f, r, premises) ==
  /\ facts' = facts \cup {f}
  /\ added' = Append(added, f)
  /\ provenance' = [g \in facts \cup {f} |->
                     IF g = f THEN [rule |-> r, premises |-> premises] ELSE provenance[g]]

\* Mutant: a fact that is known already is recorded again.
DeriveAgain ==
  /\ cursor \in DOMAIN program.rules /\ InLayer(cursor, stratum)
  /\ Len(added) <= 4
  /\ \E i \in program.rules[cursor] : Matches(i, facts) /\ Record(i.head, cursor, i.pos)
  /\ changed' = TRUE
  /\ UNCHANGED <<program, stratum, cursor, start, done>>

\* One match of the rule under the cursor yields a fact that is not known yet.
Derive ==
  /\ cursor \in DOMAIN program.rules /\ InLayer(cursor, stratum)
  /\ \E i \in program.rules[cursor] :
       /\ Matches(i, facts) /\ i.head \notin facts
       /\ Record(i.head, cursor, i.pos)
  /\ changed' = TRUE
  /\ UNCHANGED <<program, stratum, cursor, start, done>>

\* The generator is exhausted: whatever matched when the rule's turn came is derived.
NextRule ==
  /\ cursor \in DOMAIN program.rules
  /\ InLayer(cursor, stratum) =>
       \A i \in program.rules[cursor] : Matches(i, start) => i.head \in facts
  /\ SweepFrom(cursor + 1)
  /\ UNCHANGED <<program, facts, added, provenance, stratum, changed, done>>

\* Mutant: the sweeps never stop.
EndSweepAlways ==
  /\ ~done /\ cursor > Len(program.rules)
  /\ cursor' = 0
  /\ UNCHANGED <<program, facts, added, provenance, stratum, start, changed, done>>

\* Behind the last rule: sweep again if a fact was added, else leave the stratum.
EndSweep ==
  /\ ~done /\ cursor > Len(program.rules)
  /\ cursor' = 0
  /\ stratum' = IF changed THEN stratum ELSE stratum + 1
  /\ done' = (~changed /\ IsTop(stratum))
  /\ UNCHANGED <<program, facts, added, provenance, start, changed>>

Next == BeginSweep \/ Derive \/ NextRule \/ EndSweep

Spec == Init /\ [][Next]_vars

-----------------------------------------------------------------------------
(* Properties.                                                             *)

\* Provenance covers exactly the facts; what it records of one is a rule and premises.
StateOK ==
  /\ IsProgram(program)
  /\ facts \subseteq Facts /\ start \subseteq Facts
  /\ added \in Seq(Facts)
  /\ provenance \in [facts -> [rule : 0..Len(program.rules), premises : Seq(Facts)]]
  /\ stratum \in Nat /\ cursor \in 0..(Len(program.rules) + 1)
  /\ changed \in BOOLEAN /\ done \in BOOLEAN

TypeOK == program \in Programs /\ StateOK

\* The facts known when the k-th derived fact was added.
KnownBefore(k) == program.base \cup {added[j] : j \in 1..(k - 1)}

\* The instance recorded for fact f: its rule and premises, as provenance has them.
RecordedAs(f, i) ==
  /\ provenance[f].rule \in DOMAIN program.rules
  /\ i \in program.rules[provenance[f].rule]
  /\ i.head = f /\ i.pos = provenance[f].premises

\* proof() unfolds provenance recursively: it ends in base facts for every fact of the
\* closure, because the premises of a derived fact were all known before it.
ProvenanceWellFounded ==
  /\ \A f \in facts : f \in program.base \/ \E k \in DOMAIN added : added[k] = f
  /\ \A f \in program.base : provenance[f] = FromBase
  /\ \A k \in DOMAIN added : \E i \in UNION {program.rules[r] : r \in DOMAIN program.rules} :
       RecordedAs(added[k], i) /\ Premises(i) \subseteq KnownBefore(k)

\* A negated premise a derivation relied on never becomes a fact later: no derivation
\* is invalidated by the evaluation that follows it.
NegationStaysValid ==
  \A k \in DOMAIN added : \E i \in UNION {program.rules[r] : r \in DOMAIN program.rules} :
    RecordedAs(added[k], i) /\ i.neg \cap facts = {}

\* The result is closed under every rule of the program.
ClosureIsFixpoint ==
  done => \A r \in DOMAIN program.rules : \A i \in program.rules[r] :
            Matches(i, facts) => i.head \in facts

\* A set of facts that holds the base facts and the head of every instance whose premises
\* it holds and whose negated facts are not in the model.
ClosedUnder(set, model) ==
  /\ program.base \subseteq set
  /\ \A r \in DOMAIN program.rules : \A i \in program.rules[r] :
       Premises(i) \subseteq set /\ i.neg \cap model = {} => i.head \in set

\* A stable model is the least set that is closed under the rules its own negated facts
\* leave: what the rules say, with no mention of strata or of an order of evaluation.
IsStable(model) ==
  /\ ClosedUnder(model, model)
  /\ \A set \in SUBSET Facts : ClosedUnder(set, model) => model \subseteq set

\* What closure returns is the one stable model of the rule base.
ReturnsTheStableModel ==
  done => IsStable(facts) /\ \A model \in SUBSET Facts : IsStable(model) => model = facts
=============================================================================
