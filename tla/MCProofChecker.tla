--------------------------- MODULE MCProofChecker ---------------------------
(* The kernel and the checker of one module, on one instance.  They share no *)
(* variable: while one of them works the other is at rest, the kernel behind *)
(* a closure of no rules, the checker before its first call.                *)
(*                                                                         *)
(* The checker is called with every object graph of three objects over a     *)
(* small rule base: counting up, adding, a rule whose premise is its own     *)
(* conclusion, one with only a side condition, one whose premise "root" can  *)
(* stand for, and one (Stray) that is not handed in.                         *)
EXTENDS MCFOLKernel, ProofChecker

Next1 == Rule(Pos("n", <<Y>>), <<Pos("n", <<X>>), Cmp("<", X, C(2)), Is("Y", Arith("+", X, C(1)))>>)
Add == Rule(Pos("n", <<Z>>), <<Pos("n", <<X>>), Pos("n", <<Y>>), Is("Z", Arith("+", X, Y)),
                               Cmp("<=", Z, C(2))>>)
Same == Rule(Pos("m", <<X>>), <<Pos("m", <<X>>)>>)
Small == Rule(Pos("z", <<C(1)>>), <<Cmp("<", C(1), C(2))>>)
Rooted == Rule(Pos("z", <<C(0)>>), <<Pos("r", <<>>)>>)
Stray == Rule(Pos("z", <<X>>), <<Pos("n", <<X>>), Cmp("<=", X, C(1))>>)

MCRules == {Next1, Add, Same, Small, Rooted, Stray}

N(x) == <<"n", x>>
M1 == <<"m", 1>>

\* "root"[0]
R == <<"r">>
MCStatements == {N(x) : x \in 0..2} \cup {M1, R, <<"z", 0>>, <<"z", 1>>}

MCCalls == {[base |-> {N(0)}, trusted |-> MCRules \ {Stray}, given |-> TRUE],
            [base |-> {N(0)}, trusted |-> {}, given |-> FALSE]}

MCLimits == {1, 2}

Object(kind, fact, rule, children) ==
  [kind |-> kind, fact |-> fact, rule |-> rule, children |-> children]

Singles == {<<a>> : a \in Nodes}
Pairs == {<<a, b>> : a \in Nodes, b \in Nodes}

Malformed == Object("malformed", N(0), Small, <<>>)

CONSTANTS Second, Third

Below == {<<Second>>, <<Third>>}

Objects ==
  {Malformed, Object("base", N(0), Small, <<Root>>), Object("root", R, Small, <<>>)}
    \cup {Object("base", N(x), Small, <<>>) : x \in {0, 1}}
    \cup {Object("dict", None, Small, c) : c \in Singles}
    \cup {Object("dict", N(1), Small, c) : c \in Below}
    \cup {Object("rule", N(1), Next1, c) : c \in Singles}
    \cup {Object("rule", N(2), Add, c) : c \in Pairs}
    \cup {Object("rule", M1, Same, c) : c \in Singles}
    \cup {Object("rule", <<"z", 0>>, rule, c) : rule \in {Rooted, Stray}, c \in Below}
    \cup {Object("rule", <<"z", 1>>, Small, <<>>)}

\* Second and Third are interchangeable, so Root refers to Third only behind Second; of
\* the three, Third has at most one child, and one that is not reached is malformed.
MCHeaps ==
  {h \in [Nodes -> Objects] :
     LET children(n) == {h[n].children[k] : k \in DOMAIN h[n].children}
     IN /\ Len(h[Third].children) < 2
        /\ \A k \in DOMAIN h[Root].children :
             h[Root].children[k] = Third => k = 2 /\ h[Root].children[1] = Second
        /\ Second \in children(Root) \/ h[Second] = Malformed
        /\ Third \in children(Root) \cup children(Second) \/ h[Third] = Malformed}

MCLemmas == {r \in MCRules : Positives(r.body) # <<>>}

Readings == UNION {[1..n -> MCStatements] : n \in 0..2}

\* What a node may conclude, and what closure would have derived, from given premises.
MCChecked == UNION {{[rule |-> r, premises |-> s, fact |-> f] : f \in Concludes(r, s)} :
                      r \in MCRules, s \in Readings}

MCFired == UNION {{[rule |-> r, premises |-> i.pos, fact |-> i.head] : i \in Instances(r, MCStatements)} :
                    r \in MCRules}

\* The rules of this instance are in order, so that the two readings of them agree.
ASSUME ReadAlike == /\ \A r \in MCRules : InOrder(r)
                    /\ MCChecked \subseteq MCFired

-----------------------------------------------------------------------------
(* One instance of both.                                                   *)

\* The checker before a call; of the objects there is nothing to say.
CheckerAtRest ==
  /\ heap = [n \in Nodes |-> Malformed] /\ call \in {c \in Calls : c.given} /\ limit = 1
  /\ stack = <<>> /\ active = {} /\ goal = None /\ answer = "none"

\* A kernel of no rules has answered.
KernelAtRest ==
  /\ rulebase = RuleBase(<<>>, {<<"p">>}) /\ strata = <<>>
  /\ pass = 0 /\ reading = 1 /\ raised = FALSE /\ verdict = "accepted"
  /\ program = [source |-> <<>>, base |-> rulebase.base, rules |-> <<>>, stratum |-> [f \in Facts |-> 0]]
  /\ facts = rulebase.base /\ added = <<>> /\ provenance = [f \in facts |-> FromBase]
  /\ stratum = 1 /\ cursor = 0 /\ start = facts /\ changed = FALSE /\ done = TRUE

BothInit == (KernelInit /\ CheckerAtRest) \/ (CheckInit /\ KernelAtRest)

KernelWorks == KernelNext /\ UNCHANGED checkVars
CheckerWorks == CheckNext /\ UNCHANGED kernelVars

BothNext == KernelWorks \/ CheckerWorks

bothVars == <<kernelVars, checkVars>>

BothSpec == BothInit /\ [][BothNext]_bothVars /\ WF_bothVars(KernelWorks)

\* The checker alone.
CheckerSpec == CheckInit /\ KernelAtRest /\ [][CheckerWorks]_bothVars
=============================================================================
