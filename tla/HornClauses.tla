---------------------------- MODULE HornClauses ----------------------------
(***************************************************************************)
(* The clause language of core/kernel_fol.py and what its two readers make  *)
(* of a body: _match joins it from left to right against the facts, and     *)
(* check_proof unifies its positive atoms with given premises and only then *)
(* looks at the side conditions.                                            *)
(*                                                                         *)
(* A fact is <<predicate, value, ...>> over integers; a binding is a        *)
(* function from variable names to values.  Expressions are nested once.    *)
(***************************************************************************)
EXTENDS Integers, Sequences, SequencesExt

\* Terms, expressions and atoms.
V(name) == [kind |-> "var", name |-> name]
C(value) == [kind |-> "const", value |-> value]
Arith(op, left, right) == [kind |-> "arith", op |-> op, left |-> left, right |-> right]

Pos(pred, args) == [tag |-> "pos", pred |-> pred, args |-> args]
Not(pred, args) == [tag |-> "not", pred |-> pred, args |-> args]
Cmp(op, left, right) == [tag |-> "cmp", op |-> op, left |-> left, right |-> right]
Is(var, expr) == [tag |-> "is", var |-> var, expr |-> expr]
Neq(left, right) == [tag |-> "neq", left |-> left, right |-> right]

Rule(head, body) == [head |-> head, body |-> body]

Resolve(term, binding) == IF term.kind = "var" THEN binding[term.name] ELSE term.value

Evaluate(expr, binding) ==
  IF expr.kind # "arith" THEN Resolve(expr, binding)
  ELSE LET l == Resolve(expr.left, binding)
           r == Resolve(expr.right, binding)
       IN CASE expr.op = "+" -> l + r
            [] expr.op = "-" -> l - r
            [] expr.op = "*" -> l * r

\* The operators of _COMPARISONS; a container is a constant that is a set.  Another
\* operator has no value here: closure raises ValueError, check_proof answers False.
Compare(op, l, r) == CASE op = "<" -> l < r [] op = "<=" -> l <= r
                       [] op = ">" -> l > r [] op = ">=" -> l >= r
                       [] op = "==" -> l = r [] op = "!=" -> l # r
                       [] op = "in" -> l \in r [] op = "not in" -> l \notin r

Ground(atom, binding) ==
  <<atom.pred>> \o [k \in DOMAIN atom.args |-> Resolve(atom.args[k], binding)]

Bind(binding, name, value) ==
  [n \in DOMAIN binding \cup {name} |-> IF n = name THEN value ELSE binding[n]]

\* binding.get(x) != binding.get(y): None, an unbound variable, differs from every value.
Differ(binding, x, y) ==
  IF {x, y} \subseteq DOMAIN binding THEN binding[x] # binding[y]
  ELSE {x, y} \cap DOMAIN binding # {}

\* The extensions of a binding (one or none) under which the atom is the fact.
Unify(binding, atom, fact) ==
  IF Len(fact) # Len(atom.args) + 1 \/ fact[1] # atom.pred THEN {}
  ELSE LET named(n) == {k \in DOMAIN atom.args : atom.args[k] = V(n)}
           names == {atom.args[k].name : k \in {j \in DOMAIN atom.args : atom.args[j].kind = "var"}}
           extended == [n \in DOMAIN binding \cup names |->
                          IF n \in DOMAIN binding THEN binding[n]
                          ELSE fact[1 + (CHOOSE k \in named(n) : TRUE)]]
       IN IF Ground(atom, extended) = fact THEN {extended} ELSE {}

-----------------------------------------------------------------------------
(* _match: left to right, each atom under the binding of the atoms before.  *)

NothingBound == <<>>

MatchAtom(partials, atom, known) ==
  CASE atom.tag = "pos" ->
         UNION {{[p EXCEPT !.binding = b, !.pos = Append(@, f)] : b \in Unify(p.binding, atom, f)} :
                  p \in partials, f \in known}
    [] atom.tag = "not" -> {[p EXCEPT !.neg = @ \cup {Ground(atom, p.binding)}] : p \in partials}
    [] atom.tag = "cmp" -> {p \in partials : Compare(atom.op, Resolve(atom.left, p.binding),
                                                              Resolve(atom.right, p.binding))}
    [] atom.tag = "is" -> {[p EXCEPT !.binding = Bind(@, atom.var, Evaluate(atom.expr, p.binding))] :
                             p \in partials}
    [] atom.tag = "neq" -> {p \in partials : Differ(p.binding, atom.left, atom.right)}

\* The ground instances of a rule whose premises are drawn from the known facts; whether
\* the negated atoms hold is left to the reader of neg.
Instances(rule, known) ==
  LET matched == FoldLeft(LAMBDA partials, atom : MatchAtom(partials, atom, known),
                          {[binding |-> NothingBound, pos |-> <<>>, neg |-> {}]}, rule.body)
  IN {[head |-> Ground(rule.head, p.binding), pos |-> p.pos, neg |-> p.neg] : p \in matched}

-----------------------------------------------------------------------------
(* check_proof: the positive atoms first, then the side conditions.         *)

Positives(body) == SelectSeq(body, LAMBDA atom : atom.tag = "pos")

\* _unify_premises: the binding (none if the premises do not fit)
UnifyPremises(body, premises) ==
  IF Len(premises) # Len(Positives(body)) THEN {}
  ELSE FoldLeft(LAMBDA bs, k : UNION {Unify(b, Positives(body)[k], premises[k]) : b \in bs},
                {NothingBound}, [k \in DOMAIN premises |-> k])

\* _side_conditions_hold: "is" assigns in place, "not" is not looked at
SideCondition(bindings, atom) ==
  CASE atom.tag = "cmp" -> {b \in bindings : Compare(atom.op, Resolve(atom.left, b),
                                                              Resolve(atom.right, b))}
    [] atom.tag = "is" -> {Bind(b, atom.var, Evaluate(atom.expr, b)) : b \in bindings}
    [] atom.tag = "neq" -> {b \in bindings : Differ(b, atom.left, atom.right)}
    [] OTHER -> bindings

\* Mutant: the children are read in the wrong order.
ConcludesReversed(rule, premises) ==
  {Ground(rule.head, b) :
     b \in FoldLeft(SideCondition, UnifyPremises(rule.body, Reverse(premises)), rule.body)}

\* What one inner node of a proof tree may conclude from its children's facts.
Concludes(rule, premises) ==
  {Ground(rule.head, b) :
     b \in FoldLeft(SideCondition, UnifyPremises(rule.body, premises), rule.body)}

VariablesOf(atom) ==
  LET named(terms) == {t.name : t \in {u \in terms : u.kind = "var"}}
      inside(expr) == IF expr.kind = "arith" THEN {expr.left, expr.right} ELSE {expr}
  IN CASE atom.tag \in {"pos", "not"} -> named({atom.args[k] : k \in DOMAIN atom.args})
       [] atom.tag = "cmp" -> named({atom.left, atom.right})
       [] atom.tag = "is" -> {atom.var} \cup named(inside(atom.expr))
       [] atom.tag = "neq" -> {atom.left, atom.right}

\* What a side condition shares with a positive atom behind it, a positive atom before it
\* has bound already, and the condition does not assign it.  _match and check_proof see
\* the same values in such a rule; in others they may not.
InOrder(rule) ==
  \A k, j \in DOMAIN rule.body :
    LET condition == rule.body[k]
    IN k < j /\ rule.body[j].tag = "pos" /\ condition.tag \in {"cmp", "is", "neq"} =>
         \A v \in VariablesOf(condition) \cap VariablesOf(rule.body[j]) :
           /\ condition.tag = "is" => condition.var # v
           /\ \E i \in 1..(k - 1) : rule.body[i].tag = "pos" /\ v \in VariablesOf(rule.body[i])

\* _verify_proof on a node whose children were verified; trusted_rules is given.
AcceptsNode(fact, rule, premises, trusted) == rule \in trusted /\ fact \in Concludes(rule, premises)
=============================================================================
