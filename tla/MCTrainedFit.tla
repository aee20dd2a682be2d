---------------------------- MODULE MCTrainedFit ----------------------------
(***************************************************************************)
(* Tables on both sides of every precondition, three configurations and    *)
(* three rungs, and one kind of evidence per verdict; fits with two metrics *)
(* whose records fall in different rounds, and pairs that come and go      *)
(* under an audition budget of two.                                        *)
(***************************************************************************)
EXTENDS TrainedFit, TLC

Score(a, s, p) == [abs |-> a, second |-> s, paired |-> p]
MCScores == { Score(0, 1, <<0, 1>>), Score(1, 0, <<1, 0>>), Score(2, 1, <<1, 1>>),
              Score(2, 0, <<0, 0>>) }

Table(k, n, e, d, c, t) ==
    [classes |-> k, rows |-> n, events |-> e, columns |-> d, categories |-> c, temporal |-> t]
MCTables == {
    Table(0, 450, 0, 8, 0, FALSE), Table(0, 60000, 0, 8, 0, TRUE),
    Table(2, 300, 7, 8, 0, FALSE), Table(2, 1000, 80, 8, 4, TRUE),
    Table(2, 1000, 10, 8, 4, FALSE), Table(2, 1000, 400, 600, 0, TRUE),
    Table(2, 3000000, 300000, 600, 4, FALSE),
    Table(3, 1000, 100, 8, 0, FALSE), Table(3, 5000, 900, 400, 2, TRUE) }

MCFoldGains == { <<-1, -1>>, <<0, 2>>, <<20, 20>>, <<16, -2>>, <<3>> }

Choice(m, h, f, k) == [metric |-> m, head |-> h, families |-> f, measured |-> k]
MCRareChoices == { Nothing, Choice("rank", FALSE, {}, "rank"),
                   Choice("rank", FALSE, {"plain"}, "rules"), Choice("own", FALSE, {"plain"}, "rules") }
MCMultiChoices == { Nothing, Choice("rank", FALSE, {}, "rank"), Choice("own", TRUE, {"plain"}, "head"),
                    Choice("rank", FALSE, {"plain"}, "rules") }
MCBinaryChoices == { Nothing, Choice("own", FALSE, {"plain"}, "rules") }
-----------------------------------------------------------------------------

PairSymmetry == Permutations(Pairs)

Fit(growth, metrics, range, rounds, patience, refit, ranked) ==
    [growth |-> growth, metrics |-> metrics, primary |-> "logloss", scores |-> range,
     rounds |-> rounds, patience |-> patience, refit |-> refit, ranked |-> ranked]

MCFits ==
    {Fit("plain", {"logloss", "auc"}, 0 .. 3, 3, p, FALSE, FALSE) : p \in {1, 2}}
    \cup {Fit("plain", {"logloss"}, 0 .. 3, 5, p, r, FALSE) : p \in {1, 2}, r \in BOOLEAN}
    \cup {Fit("hardest", {"logloss"}, {0, 2}, 3, 2, r, FALSE) : r \in BOOLEAN}
    \cup {Fit("adaptive", {"logloss"}, {0, 2}, 4, 3, r, FALSE) : r \in BOOLEAN}
    \cup {Fit("gated", {"logloss"}, {0, 2}, 5, 4, r, r) : r \in BOOLEAN}

Look(pair, consensus, stalled, persistent, redundant) ==
    [pair |-> pair, consensus |-> consensus, stalled |-> stalled, persistent |-> persistent,
     redundant |-> redundant, moved |-> TRUE]

MCLooks ==
    {Look(p, FALSE, TRUE, TRUE, TRUE) : p \in Pairs}
    \cup {Look(p, TRUE, FALSE, TRUE, r) : p \in Pairs, r \in BOOLEAN}
    \cup {Look(p, TRUE, TRUE, FALSE, FALSE) : p \in Pairs}
    \cup {[Look(p, TRUE, TRUE, FALSE, FALSE) EXCEPT !.moved = FALSE] : p \in Pairs}
=============================================================================
