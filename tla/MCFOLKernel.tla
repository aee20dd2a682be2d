---------------------------- MODULE MCFOLKernel ----------------------------
(* Rule bases for FOLKernel.                                                *)
(*   Sources: recursion over a cycle, mutual recursion with a base fact of a *)
(*   derived predicate, two strata of negation, bounded arithmetic,          *)
(*   disequality, a stratum that is entered with nothing new, and "is" over  *)
(*   a variable that a premise bound, with and without a premise behind it.  *)
(*   Shapes: every sequence of up to MaxRules propositional rules with one   *)
(*   atom, negated or not, over three predicates, p being a base fact.       *)
EXTENDS FOLKernel

CONSTANT MaxRules

X == V("X")
Y == V("Y")
Z == V("Z")

PathRules == << Rule(Pos("t", <<X, Y>>), <<Pos("e", <<X, Y>>)>>),
                Rule(Pos("t", <<X, Z>>), <<Pos("t", <<X, Y>>), Pos("e", <<Y, Z>>)>>) >>

MutualRules == << Rule(Pos("p", <<X>>), <<Pos("q", <<X>>)>>),
                  Rule(Pos("q", <<X>>), <<Pos("p", <<X>>)>>),
                  Rule(Pos("q", <<X>>), <<Pos("e", <<X, Y>>)>>) >>

\* r: reached, u: unreached, s: neither unreached nor barred
NegationRules == << Rule(Pos("s", <<X>>), <<Pos("n", <<X>>), Not("u", <<X>>), Not("b", <<X>>)>>),
                    Rule(Pos("r", <<Y>>), <<Pos("r", <<X>>), Pos("e", <<X, Y>>)>>),
                    Rule(Pos("u", <<X>>), <<Pos("n", <<X>>), Not("r", <<X>>)>>) >>

CountRules == << Rule(Pos("c", <<Y>>), <<Pos("c", <<X>>), Cmp("<", X, C(3)),
                                         Is("Y", Arith("+", X, C(1)))>>),
                 Rule(Pos("d", <<X, Y>>), <<Pos("c", <<X>>), Pos("c", <<Y>>), Neq("X", "Y"),
                                            Cmp("<=", X, Y)>>) >>

\* q(2) is derived, and its proof refused: check_proof unifies p(1) and n(2) first.
RebindRules == << Rule(Pos("q", <<X>>), <<Pos("p", <<X>>), Is("X", Arith("+", X, C(1))), Pos("n", <<X>>)>>),
                  Rule(Pos("r", <<X>>), <<Pos("n", <<X>>), Cmp("in", X, C({1, 2})),
                                          Is("X", Arith("+", X, C(1)))>>) >>

PathBase == {<<"e", 1, 2>>, <<"e", 2, 3>>, <<"e", 3, 1>>}
MutualBase == {<<"p", 1>>, <<"p", 2>>, <<"e", 2, 3>>, <<"e", 3, 3>>}
NegationBase == {<<"n", 1>>, <<"n", 2>>, <<"n", 3>>, <<"r", 1>>, <<"e", 1, 2>>, <<"b", 2>>}
CountBase == {<<"c", 1>>}
RebindBase == {<<"p", 1>>, <<"n", 1>>, <<"n", 2>>}

Letters == {"p", "q", "r"}
Literals == {Pos(x, <<>>) : x \in Letters} \cup {Not(x, <<>>) : x \in Letters}
ShapeRules == {Rule(Pos(x, <<>>), <<atom>>) : x \in Letters, atom \in Literals}

Values == 1..3
MCFacts == {<<x>> : x \in Letters}
             \cup {<<x, v>> : x \in {"p", "q", "n", "r", "u", "s", "b", "c"}, v \in Values}
             \cup {<<x, v, w>> : x \in {"e", "t", "d"}, v \in Values, w \in Values}

MCPreds == {fact[1] : fact \in MCFacts}

Sources == { RuleBase(PathRules, PathBase), RuleBase(MutualRules, MutualBase),
             RuleBase(NegationRules, NegationBase), RuleBase(CountRules, CountBase),
             RuleBase(RebindRules, RebindBase) }

Shapes == {RuleBase(s, {<<"p">>}) : s \in UNION {[1..n -> ShapeRules] : n \in 0..MaxRules}}

MCRuleBases == Sources \cup Shapes

\* Three predicates need at most three strata.
MCLevels == 0..2

\* What closure evaluates for the rule bases of Sources: their strata by hand.
Evaluated(base, level) ==
  [source |-> base.source, base |-> base.base, rules |-> base.rules,
   stratum |-> [f \in MCFacts |-> IF f[1] \in base.idb THEN level[f[1]] ELSE 0]]

MCPrograms ==
  { Evaluated(RuleBase(PathRules, PathBase), [t |-> 0]),
    Evaluated(RuleBase(MutualRules, MutualBase), [p |-> 0, q |-> 0]),
    Evaluated(RuleBase(NegationRules, NegationBase), [r |-> 0, u |-> 1, s |-> 2]),
    Evaluated(RuleBase(CountRules, CountBase), [c |-> 0, d |-> 0]),
    Evaluated(RuleBase(RebindRules, RebindBase), [q |-> 0, r |-> 0]) }

-----------------------------------------------------------------------------
(* Reference: the model of a rule base that can be stratified, stratum by   *)
(* stratum of its least stratification.                                     *)

LeastStrata == CHOOSE s \in Stratifications :
                 \A t \in Stratifications : \A x \in rulebase.idb : s[x] <= t[x]

AllInstances == UNION {rulebase.rules[r] : r \in DOMAIN rulebase.rules}

\* The least set of facts that contains known and is closed under the instances.
LeastAbove(layer, known) ==
  LET fires == {i \in layer : i.neg \cap known = {}}
      grow[n \in Nat] == IF n = 0 THEN known
                         ELSE LET m == grow[n - 1]
                              IN m \cup {i.head : i \in {j \in fires : Premises(j) \subseteq m}}
  IN grow[Cardinality(fires) + 1]

PerfectModel ==
  LET least == LeastStrata
      layer(s) == {i \in AllInstances : least[i.head[1]] = s}
      upto[s \in Nat] == IF s = 0 THEN LeastAbove(layer(0), rulebase.base)
                                  ELSE LeastAbove(layer(s), upto[s - 1])
  IN upto[Cardinality(rulebase.idb)]

\* A kernel answers a rule base that can be stratified with its standard model, whatever
\* the order of the rules, the order they fire in and the order matches come in.
ComputesPerfectModel == done /\ Stratifications # {} => facts = PerfectModel

\* What the kernel derives by a rule whose side conditions are in order, check_proof finds
\* to follow from the recorded rule and premises, although it binds the variables in another
\* order.  Of a rule that is out of order, or of a proof deeper than it admits, check_proof
\* may refuse what the kernel derived.
ClosureProofsCheck ==
  \A k \in DOMAIN added :
    LET e == provenance[added[k]]
        rule == program.source[e.rule]
        trusted == {program.source[r] : r \in DOMAIN program.source}
    IN InOrder(rule) => AcceptsNode(added[k], rule, e.premises, trusted)
=============================================================================
