---------------------------- MODULE HeldOutRows ----------------------------
(***************************************************************************)
(* FutureValidation's operators called on tables of any size, with any     *)
(* labels: which rows may be fitted, which are measured, and which are     *)
(* kept of a table that is too large.                                      *)
(***************************************************************************)
EXTENDS FutureValidation, Calls

CONSTANTS ValidationCalls(_), \* the calls of an operation: records [op, g, p]
          ClassLabels         \* the classes of the rows

ValidationOps == {"split", "bounded", "expanding", "windows", "gate"}
Table(op) == {c \in ValidationCalls(op) : c.op = op}

\* The row caps, floors and shares of the calls; a floor below one counts as one.
ASSUME CallsAreOfTables ==
    \A op \in ValidationOps : \A c \in Table(op) : c.g \in Seq(Int)
ASSUME SplitsHaveFloors ==
    \A c \in Table("split") :
        /\ {c.p.den, c.p.minTrain, c.p.minValid} \subseteq Nat \ {0} /\ c.p.num \in Nat
        /\ \A label \in DOMAIN c.p.floors : c.p.floors[label] \in Nat
ASSUME BlocksHaveFloors ==
    \A c \in Table("expanding") :
        /\ {c.p.folds, c.p.warmDen, c.p.minTrain, c.p.minValid} \subseteq Nat \ {0}
        /\ c.p.warmNum \in Nat
ASSUME WindowsHaveFloors ==
    \A c \in Table("windows") :
        /\ {c.p.contextRows, c.p.maxRows, c.p.minRows, c.p.trainDen, c.p.windows} \subseteq Nat \ {0}
        /\ {c.p.trainNum, c.p.minPast, c.p.minFuture, c.p.minWindow} \subseteq Nat
ASSUME BoundsAreCaps ==
    /\ \A c \in Table("bounded") : {c.p.cap, c.p.maxGroups} \subseteq Nat \ {0, 1}
    /\ \A c \in Table("gate") : c.p.limit \in Nat \ {0} /\ c.p.minRows \in Nat

Labelled(c) == c.op = "split" \/ (c.op = "expanding" /\ c.p.coverage)

ValidationAnswer(c, y) ==
    CASE c.op = "split"     -> Split(c.g, y, c.p)
      [] c.op = "bounded"   -> EvidenceRows(c.g, c.p.cap, c.p.maxGroups)
      [] c.op = "expanding" -> ExpandingSplits(c.g, y, c.p)
      [] c.op = "windows"   -> PowerWindowSplit(c.g, c.p)
      [] c.op = "gate"      -> EventGate(c.g, c.p.dated, c.p.limit, c.p.minRows)

ValidationAnswers(c) ==
    {[y |-> y, is |-> ValidationAnswer(c, y)] :
        y \in IF Labelled(c) THEN [DOMAIN c.g -> ClassLabels] ELSE {<<>>}}

HeldOutInit ==
    /\ \E op \in ValidationOps : call \in Table(op)
    /\ answer = Pending

Validate ==
    /\ answer = Pending /\ call.op \in ValidationOps
    /\ answer' \in ValidationAnswers(call)
    /\ UNCHANGED call

HeldOutSpec == HeldOutInit /\ [][Validate]_<<call, answer>>

-----------------------------------------------------------------------------
(* Properties, in terms of timestamps and sets of rows *)

Earlier(t) == {r \in DOMAIN call.g : call.g[r] < t}
Later(t)   == DOMAIN call.g \ Earlier(t)
ClassesOf(rows) == {answer.y[r] : r \in rows}
Instants == {call.g[r] : r \in DOMAIN call.g}

\* A training row is never as late as a row it is measured on.
StrictlyBefore(past, future) ==
    \A a \in Range(past), b \in Range(future) : call.g[a] < call.g[b]

\* The instants at which the table may be split under the floors of this call.
Splitters ==
    {t \in Instants :
        /\ Cardinality(Earlier(t)) >= call.p.minTrain
        /\ Cardinality(Later(t)) >= call.p.minValid
        /\ call.p.coverage => /\ ClassesOf(Earlier(t)) = ClassesOf(DOMAIN call.g)
                              /\ ClassesOf(Later(t)) = ClassesOf(DOMAIN call.g)
        /\ \A label \in DOMAIN call.p.floors :
              Cardinality({r \in Later(t) : answer.y[r] = label}) >= call.p.floors[label]}

\* Suffixes of whole timestamps that fit into a number of rows.
Fitting(cap) == {t \in Instants : Cardinality(Later(t)) <= cap}

\* FutureValidation.bounded_rows and bounded_event_gate: at most the cap, in time order.
\* When the newest whole timestamps fit, they are exactly the longest such suffix; else
\* several of the newest timestamps are each represented, and a bounded evidence table
\* never has a single timestamp unless the whole table has.
BoundedRowsKeepRecentTimes ==
    /\ Answered("bounded") =>
          LET rows == answer.is
              times == {call.g[r] : r \in Range(rows)}
              fit == Fitting(call.p.cap)
          IN  IF Len(call.g) <= call.p.cap THEN Range(rows) = DOMAIN call.g
              ELSE /\ Len(rows) <= call.p.cap
                   /\ \A i \in 1 .. Len(rows) - 1 : call.g[rows[i]] <= call.g[rows[i + 1]]
                   /\ Cardinality(Range(rows)) = Len(rows)
                   /\ IF Cardinality(fit) >= 2
                      THEN Range(rows) = Later(Min(fit))
                      ELSE IF Cardinality(Instants) = 1 THEN rows = <<>>
                      ELSE /\ Cardinality(times) >= 2
                           /\ \A t \in Instants : t >= Min(times) => t \in times
    /\ Answered("gate") =>
          /\ Len(answer.is) <= Max({call.p.limit, call.p.minRows})
          /\ call.p.dated /\ Len(call.g) > call.p.minRows =>
                Range(answer.is) = IF Fitting(call.p.limit) = {} THEN {}
                                   ELSE Later(Min(Fitting(call.p.limit)))

\* Held-out rows are the future.  FutureValidation.split: past and future are the rows
\* before and from an instant, no admissible instant would hold out a share closer to
\* the requested one, and the call raises only when there is none - ties, class coverage
\* and class floors together.  expanding_splits and the windows of the temporal gate:
\* each block is strictly later than all that may be fitted before it is measured, blocks
\* are adjacent, end with the newest row and respect their floors.
HeldOutIsTheFuture ==
    /\ Answered("split") =>
          LET past == Range(answer.is.past)  future == Range(answer.is.future)
              off(t) == Distance(Cardinality(Earlier(t)),
                                 Rounded((call.p.den - call.p.num) * Len(call.g), call.p.den))
          IN  IF Splitters = {} THEN answer.is = NoSplit
              ELSE \E t \in Splitters :
                      /\ past = Earlier(t) /\ future = Later(t)
                      /\ \A s \in Splitters : off(t) <= off(s)
    /\ Answered("expanding") =>
          LET folds == answer.is
          IN  \A i \in DOMAIN folds :
                /\ StrictlyBefore(folds[i].past, folds[i].future)
                /\ Len(folds[i].past) >= call.p.minTrain
                /\ Len(folds[i].future) >= call.p.minValid
                /\ call.p.coverage => ClassesOf(Range(folds[i].past)) = ClassesOf(DOMAIN call.g)
                /\ Range(folds[i].past) \cup Range(folds[i].future) =
                      IF i = Len(folds) THEN DOMAIN call.g ELSE Range(folds[i + 1].past)
    /\ Answered("windows") /\ answer.is # NoWindows =>
          LET blocks == <<answer.is.warmup, answer.is.past>> \o answer.is.windows
              kept == UNION {Range(blocks[i]) : i \in DOMAIN blocks}
          IN  /\ \A i, j \in DOMAIN blocks : i < j => StrictlyBefore(blocks[i], blocks[j])
              /\ kept = Later(Min({call.g[r] : r \in kept}))
              /\ Cardinality(kept) <= call.p.contextRows
              /\ Cardinality(kept \ Range(answer.is.warmup)) <= call.p.maxRows
=============================================================================
