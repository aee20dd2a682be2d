----------------------------- MODULE MCRebinding -----------------------------
(* ProofChecker on a rule whose "is" stands before the premise that binds    *)
(* the same variable:  h(X) :- a(Y), X is Y + 1, b(X).                       *)
EXTENDS ProofChecker, HornClauses

Successor == Rule(Pos("h", <<V("X")>>),
                  <<Pos("a", <<V("Y")>>), Is("X", Arith("+", V("Y"), C(1))), Pos("b", <<V("X")>>)>>)

MCRules == {Successor}
MCBase == {<<"a", 1>>, <<"b", 5>>}
MCStatements == MCBase \cup {<<"h", v>> : v \in {2, 5, 6}}
MCCalls == {[base |-> MCBase, trusted |-> MCRules, given |-> TRUE]}

Pairs == {<<a, b>> : a \in Nodes, b \in Nodes}

Objects == {[kind |-> "base", fact |-> f, rule |-> Successor, children |-> <<>>] : f \in MCBase}
            \cup {[kind |-> "rule", fact |-> f, rule |-> Successor, children |-> c] :
                    f \in MCStatements \ MCBase, c \in Pairs}

MCHeaps == [Nodes -> Objects]

MCChecked == UNION {{[rule |-> r, premises |-> <<a, b>>, fact |-> f] : f \in Concludes(r, <<a, b>>)} :
                      r \in MCRules, a \in MCStatements, b \in MCStatements}

MCFired == UNION {{[rule |-> r, premises |-> i.pos, fact |-> i.head] : i \in Instances(r, MCStatements)} :
                    r \in MCRules}
=============================================================================
