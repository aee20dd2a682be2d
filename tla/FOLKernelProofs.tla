-------------------------- MODULE FOLKernelProofs --------------------------
(* Theorems about FOLKernel: closure, for every well-stratified rule base     *)
(* over any set of facts; _stratify, for every rule base; and the kernel that *)
(* is made of the two.                                                       *)
EXTENDS FOLKernel, FiniteSetTheorems, WellFoundedInduction, TLAPS

-----------------------------------------------------------------------------
(***************************************************************************)
(* closure                                                                 *)
(***************************************************************************)

(* The inductive invariant.                                                *)

\* Every derived fact lies in a stratum that was reached, and its recorded instance has
\* premises that were known before it and, in a well-stratified rule base, negated facts
\* that are still absent.
Derivations ==
  \A k \in DOMAIN added :
    /\ added[k] \in facts
    /\ program.stratum[added[k]] <= stratum
    /\ \E r \in DOMAIN program.rules : \E i \in program.rules[r] :
         /\ provenance[added[k]].rule = r /\ i.head = added[k]
         /\ i.pos = provenance[added[k]].premises
         /\ Premises(i) \subseteq KnownBefore(k)
         /\ WellStratified(program) => i.neg \cap facts = {}

Origins ==
  /\ program.base \subseteq facts
  /\ \A f \in program.base : provenance[f] = FromBase
  /\ \A f \in facts : f \in program.base \/ \E k \in DOMAIN added : added[k] = f

Satisfied(i) == Matches(i, facts) => i.head \in facts

\* The strata below the current one are closed; in a sweep that has added nothing, so
\* are the rules of the stratum that were swept.
Closed ==
  /\ \A r \in DOMAIN program.rules : \A i \in program.rules[r] :
       program.stratum[i.head] < stratum => Satisfied(i)
  /\ cursor # 0 /\ ~changed =>
       /\ start = facts
       /\ \A r \in 1..(cursor - 1) : InLayer(r, stratum) => \A i \in program.rules[r] : Satisfied(i)
  /\ done => \A r \in DOMAIN program.rules : \A i \in program.rules[r] :
               program.stratum[i.head] < stratum

\* In a rule base that is not well stratified, nothing of the kind holds.
Closedness == WellStratified(program) => Closed

IInv == StateOK /\ Derivations /\ Origins /\ Closedness

-----------------------------------------------------------------------------

\* What the assumption says about the program being evaluated.
LEMMA ProgramFacts ==
  ASSUME IsProgram(program)
  PROVE  /\ program.base \subseteq Facts
         /\ Len(program.rules) \in Nat /\ DOMAIN program.rules = 1..Len(program.rules)
         /\ program.stratum \in [Facts -> Nat]
         /\ \A r \in DOMAIN program.rules : \A i \in program.rules[r] :
              /\ i \in Instance /\ i.head \in Facts /\ i.pos \in Seq(Facts) /\ i.neg \subseteq Facts
              /\ Premises(i) \subseteq Facts
              /\ \A j \in program.rules[r] : program.stratum[i.head] = program.stratum[j.head]
  <1>1. /\ program.base \subseteq Facts /\ program.rules \in Seq(SUBSET Instance)
        /\ program.stratum \in [Facts -> Nat] /\ OneHead(program)
    BY DEF IsProgram
  <1>2. \A r \in DOMAIN program.rules : program.rules[r] \subseteq Instance
    BY <1>1
  <1>3. \A i \in Instance : /\ i.head \in Facts /\ i.pos \in Seq(Facts) /\ i.neg \subseteq Facts
                            /\ Premises(i) \subseteq Facts
    BY DEF Instance, Premises
  <1>4. Len(program.rules) \in Nat /\ DOMAIN program.rules = 1..Len(program.rules)
    BY <1>1
  <1>5. \A r \in DOMAIN program.rules : \A i, j \in program.rules[r] :
          program.stratum[i.head] = program.stratum[j.head]
    BY <1>1 DEF OneHead
  <1> QED
    BY <1>1, <1>2, <1>3, <1>4, <1>5

\* The strata of an instance's facts.
LEMMA StrataFacts ==
  ASSUME IsProgram(program), WellStratified(program),
         NEW r \in DOMAIN program.rules, NEW i \in program.rules[r]
  PROVE  /\ \A f \in Premises(i) : program.stratum[f] <= program.stratum[i.head]
                                  /\ program.stratum[f] \in Nat
         /\ \A f \in i.neg \cap Heads(program) : program.stratum[f] < program.stratum[i.head]
                                              /\ program.stratum[f] \in Nat
         /\ program.stratum[i.head] \in Nat /\ i.head \in Heads(program)
  <1>1. /\ i \in Instance /\ i.head \in Facts /\ i.neg \subseteq Facts /\ Premises(i) \subseteq Facts
        /\ program.stratum \in [Facts -> Nat]
    BY ProgramFacts
  <1>2. i.head \in Heads(program)
    BY DEF Heads
  <1>3. /\ \A f \in Premises(i) : program.stratum[f] <= program.stratum[i.head]
        /\ \A f \in i.neg \cap Heads(program) : program.stratum[f] < program.stratum[i.head]
    BY DEF WellStratified
  <1>4. \A f \in Facts : program.stratum[f] \in Nat
    BY <1>1
  <1> QED
    BY <1>1, <1>2, <1>3, <1>4

\* The start of the closure: base facts only.
LEMMA InvInit ==
  ASSUME IsProgram(program), facts = program.base, added = <<>>,
         provenance = [f \in program.base |-> FromBase],
         stratum = 0, cursor = 0, start = {}, changed = FALSE, done = FALSE
  PROVE  IInv
  <1>1. IsProgram(program)
    OBVIOUS
  <1>2. StateOK
    <2>1. <<>> \in Seq(Facts)
      OBVIOUS
    <2>2. Len(program.rules) \in Nat
      BY <1>1, ProgramFacts
    <2>3. FromBase \in [rule : 0..Len(program.rules), premises : Seq(Facts)]
      BY <2>1, <2>2 DEF FromBase
    <2>4. provenance \in [facts -> [rule : 0..Len(program.rules), premises : Seq(Facts)]]
      BY <2>3
    <2>5. 0 \in 0..(Len(program.rules) + 1)
      BY <2>2
    <2>6. program.base \subseteq Facts
      BY <1>1, ProgramFacts
    <2> QED
      BY <1>1, <2>1, <2>4, <2>5, <2>6 DEF StateOK
  <1>3. Derivations /\ Origins /\ Closedness
    BY <1>1, ProgramFacts DEF Derivations, Origins, Closedness, Closed
  <1> QED
    BY <1>2, <1>3 DEF IInv

\* Steps that only move the cursor keep what is known about derivations.
LEMMA Bookkeeping ==
  ASSUME IInv, UNCHANGED <<program, facts, added, provenance>>, stratum' \in Nat, stratum <= stratum'
  PROVE  Derivations' /\ Origins'
  <1>1. \A k \in DOMAIN added : KnownBefore(k)' = KnownBefore(k)
    BY DEF KnownBefore
  <1>2. \A k \in DOMAIN added : program.stratum[added[k]] \in Nat
    BY ProgramFacts DEF IInv, StateOK, Derivations
  <1>3. Derivations'
    <2> SUFFICES ASSUME NEW k \in DOMAIN added
                 PROVE  /\ added[k] \in facts
                        /\ program.stratum[added[k]] <= stratum'
                        /\ \E r \in DOMAIN program.rules : \E i \in program.rules[r] :
                             /\ provenance[added[k]].rule = r /\ i.head = added[k]
                             /\ i.pos = provenance[added[k]].premises
                             /\ Premises(i) \subseteq KnownBefore(k)'
                             /\ WellStratified(program) => i.neg \cap facts = {}
      BY DEF Derivations
    <2>1. added[k] \in facts /\ program.stratum[added[k]] <= stratum
      BY DEF IInv, Derivations
    <2>2. program.stratum[added[k]] <= stratum'
      BY <2>1, <1>2 DEF IInv, StateOK
    <2> QED
      BY <2>1, <2>2, <1>1 DEF IInv, Derivations
  <1>4. Origins'
    BY DEF IInv, Origins
  <1> QED
    BY <1>3, <1>4

\* A sweep starts with nothing added.
LEMMA InvBeginSweep == IInv /\ BeginSweep => IInv'
  <1> SUFFICES ASSUME IInv, BeginSweep PROVE IInv'
    OBVIOUS
  <1>0. /\ cursor' = 1 /\ start' = facts /\ changed' = FALSE /\ ~done
        /\ UNCHANGED <<program, facts, added, provenance, stratum, done>>
    BY DEF BeginSweep, SweepFrom
  <1>1. StateOK'
    <2>1. Len(program.rules) \in Nat
      BY ProgramFacts DEF IInv, StateOK
    <2>2. 1 \in 0..(Len(program.rules) + 1)
      BY <2>1
    <2> QED
      BY <1>0, <2>2 DEF IInv, StateOK
  <1>2. Derivations' /\ Origins'
    BY Bookkeeping DEF IInv, StateOK, BeginSweep
  <1>3. Closedness'
    BY <1>0 DEF IInv, Closedness, Closed, Satisfied, Matches
  <1> QED
    BY <1>1, <1>2, <1>3 DEF IInv

\* A rule that has nothing left to derive is closed.
LEMMA InvNextRule == IInv /\ NextRule => IInv'
  <1> SUFFICES ASSUME IInv, NextRule PROVE IInv'
    OBVIOUS
  <1>0. /\ cursor \in 1..Len(program.rules) /\ cursor' = cursor + 1 /\ start' = facts
        /\ UNCHANGED <<program, facts, added, provenance, stratum, changed, done>>
    BY ProgramFacts DEF IInv, StateOK, NextRule, SweepFrom
  <1>1. StateOK' 
    BY <1>0, ProgramFacts DEF IInv, StateOK
  <1>2. Derivations' /\ Origins'
    BY <1>0, Bookkeeping DEF IInv, StateOK
  <1>3. Closedness'
    <2> SUFFICES ASSUME WellStratified(program) PROVE Closed'
      BY <1>0 DEF Closedness
    <2>1. ASSUME ~changed, NEW r \in 1..cursor, InLayer(r, stratum), NEW i \in program.rules[r]
          PROVE  Satisfied(i)
      <3>1. start = facts
        BY <1>0, <2>1 DEF IInv, Closedness, Closed
      <3>2. CASE r = cursor
        BY <2>1, <3>1, <3>2 DEF NextRule, Satisfied
      <3>3. CASE r # cursor
        BY <1>0, <2>1, <3>3 DEF IInv, Closedness, Closed
      <3> QED
        BY <3>2, <3>3
    <2> QED
      BY <1>0, <2>1 DEF IInv, Closedness, Closed, Satisfied, Matches, InLayer
  <1> QED
    BY <1>1, <1>2, <1>3 DEF IInv

\* A sweep that added nothing closes its stratum.
LEMMA InvEndSweep == IInv /\ EndSweep => IInv'
  <1> SUFFICES ASSUME IInv, EndSweep PROVE IInv'
    OBVIOUS
  <1>0. /\ cursor = Len(program.rules) + 1 /\ cursor' = 0 /\ ~done
        /\ UNCHANGED <<program, facts, added, provenance, start, changed>>
        /\ stratum' \in Nat /\ stratum <= stratum'
    BY ProgramFacts DEF IInv, StateOK, EndSweep
  <1>1. StateOK' 
    BY <1>0, ProgramFacts DEF IInv, StateOK, EndSweep
  <1>2. Derivations' /\ Origins'
    BY <1>0, Bookkeeping
  <1>3. Closedness'
    <2> SUFFICES ASSUME WellStratified(program) PROVE Closed'
      BY <1>0 DEF Closedness
    <2>1. CASE changed
      BY <1>0, <2>1 DEF IInv, Closedness, Closed, EndSweep, Satisfied, Matches, StateOK
    <2>2. CASE ~changed
      <3>1. stratum' = stratum + 1 /\ (done' => IsTop(stratum))
        BY <2>2 DEF EndSweep
      <3>2. ASSUME NEW r \in DOMAIN program.rules, NEW i \in program.rules[r],
                   program.stratum[i.head] < stratum + 1
            PROVE  Satisfied(i)
        <4>1. program.stratum[i.head] \in Nat /\ stratum \in Nat
          BY ProgramFacts DEF IInv, StateOK
        <4>2. CASE program.stratum[i.head] < stratum
          BY <4>2 DEF IInv, Closedness, Closed
        <4>3. CASE program.stratum[i.head] = stratum
          <5>1. InLayer(r, stratum)
            BY <4>3, ProgramFacts DEF IInv, StateOK, InLayer
          <5>2. r \in 1..(cursor - 1)
            BY <1>0, ProgramFacts DEF IInv, StateOK
          <5> QED
            BY <1>0, <2>2, <5>1, <5>2, ProgramFacts DEF IInv, StateOK, Closedness, Closed
        <4> QED
          BY <3>2, <4>1, <4>2, <4>3
      <3>3. ASSUME IsTop(stratum), NEW r \in DOMAIN program.rules, NEW i \in program.rules[r]
            PROVE  program.stratum[i.head] < stratum + 1
        BY <3>3, ProgramFacts DEF IInv, StateOK, IsTop
      <3> QED
        BY <1>0, <3>1, <3>2, <3>3 DEF Closedness, Closed, Satisfied, Matches
    <2> QED
      BY <2>1, <2>2 DEF IInv, StateOK
  <1> QED
    BY <1>1, <1>2, <1>3 DEF IInv

\* A derived fact is recorded with an instance whose premises came before it.
LEMMA InvDerive == IInv /\ Derive => IInv'
  <1> SUFFICES ASSUME IInv, Derive PROVE IInv'
    OBVIOUS
  <1>0. PICK i \in program.rules[cursor] :
          Matches(i, facts) /\ i.head \notin facts /\ Record(i.head, cursor, i.pos)
    BY DEF Derive
  <1>1. /\ cursor \in DOMAIN program.rules /\ InLayer(cursor, stratum)
        /\ UNCHANGED <<program, stratum, cursor, start, done>> /\ changed' = TRUE
    BY DEF Derive
  <1>2. /\ i.head \in Facts /\ i.pos \in Seq(Facts) /\ i.neg \subseteq Facts
        /\ program.stratum[i.head] = stratum
        /\ WellStratified(program) => /\ i.head \in Heads(program)
                                      /\ \A f \in i.neg \cap Heads(program) : program.stratum[f] < stratum
        /\ cursor \in 1..Len(program.rules) /\ Len(program.rules) \in Nat
    BY <1>1, ProgramFacts, StrataFacts DEF IInv, StateOK, InLayer
  <1>3. /\ facts' = facts \cup {i.head} /\ added' = Append(added, i.head)
        /\ provenance'[i.head] = [rule |-> cursor, premises |-> i.pos]
        /\ \A g \in facts : provenance'[g] = provenance[g]
    BY <1>0 DEF Record
  <1>4. StateOK'
    <2>1. [rule |-> cursor, premises |-> i.pos] \in [rule : 0..Len(program.rules), premises : Seq(Facts)]
      BY <1>2
    <2>2. provenance' \in [facts' -> [rule : 0..Len(program.rules), premises : Seq(Facts)]]
      BY <1>0, <2>1 DEF IInv, StateOK, Record
    <2> QED
      BY <1>1, <1>2, <1>3, <2>2 DEF IInv, StateOK
  <1>5. /\ DOMAIN added' = 1..(Len(added) + 1) /\ DOMAIN added = 1..Len(added) /\ Len(added) \in Nat
        /\ \A k \in DOMAIN added : added'[k] = added[k]
        /\ added'[Len(added) + 1] = i.head
    BY <1>2, <1>3 DEF IInv, StateOK
  <1>6. ASSUME NEW k \in 1..(Len(added) + 1)
        PROVE  (KnownBefore(k))' = program.base \cup {added[j] : j \in 1..(k - 1)}
    <2>1. \A j \in 1..(k - 1) : added'[j] = added[j]
      BY <1>5
    <2>2. {added'[j] : j \in 1..(k - 1)} = {added[j] : j \in 1..(k - 1)}
      BY <2>1
    <2> QED
      BY <1>1, <2>2 DEF KnownBefore
  <1>7. Derivations'
    <2>1. ASSUME NEW k \in DOMAIN added
          PROVE  /\ added'[k] \in facts' /\ program'.stratum[added'[k]] <= stratum'
                 /\ \E r \in DOMAIN program.rules : \E j \in program.rules[r] :
                      /\ provenance'[added'[k]].rule = r /\ j.head = added'[k]
                      /\ j.pos = provenance'[added'[k]].premises
                      /\ Premises(j) \subseteq (KnownBefore(k))'
                      /\ WellStratified(program) => j.neg \cap facts' = {}
      <3>0. PICK r \in DOMAIN program.rules : \E j \in program.rules[r] :
              /\ provenance[added[k]].rule = r /\ j.head = added[k]
              /\ j.pos = provenance[added[k]].premises
              /\ Premises(j) \subseteq KnownBefore(k)
              /\ WellStratified(program) => j.neg \cap facts = {}
        BY DEF IInv, Derivations
      <3>1. PICK j \in program.rules[r] :
              /\ provenance[added[k]].rule = r /\ j.head = added[k]
              /\ j.pos = provenance[added[k]].premises
              /\ Premises(j) \subseteq KnownBefore(k)
              /\ WellStratified(program) => j.neg \cap facts = {}
        BY <3>0
      <3>2. added[k] \in facts /\ program.stratum[added[k]] <= stratum
        BY DEF IInv, Derivations
      <3>3. ASSUME WellStratified(program) PROVE i.head \notin j.neg
        <4>1. \A f \in j.neg \cap Heads(program) :
                program.stratum[f] < program.stratum[j.head] /\ program.stratum[f] \in Nat
          BY <3>3, StrataFacts DEF IInv, StateOK
        <4>2. program.stratum[j.head] <= stratum /\ program.stratum[j.head] \in Nat /\ stratum \in Nat
          BY <3>1, <3>2, ProgramFacts DEF IInv, StateOK
        <4> QED
          BY <3>3, <4>1, <4>2, <1>2
      <3>4. (KnownBefore(k))' = KnownBefore(k)
        <4>1. k \in 1..(Len(added) + 1)
          BY <1>5
        <4> QED
          BY <4>1, <1>6 DEF KnownBefore
      <3> QED
        BY <1>1, <1>3, <1>5, <3>1, <3>2, <3>3, <3>4
    <2>2. PICK n \in 1..(Len(added) + 1) : n = Len(added) + 1
      BY <1>5
    <2>3. /\ i.head \in facts' /\ program'.stratum[i.head] <= stratum'
          /\ provenance'[i.head].rule = cursor /\ i.pos = provenance'[i.head].premises
          /\ Premises(i) \subseteq (KnownBefore(n))'
          /\ WellStratified(program) => i.neg \cap facts' = {}
      <3>1. Premises(i) \subseteq facts /\ i.neg \cap facts = {}
        BY <1>0 DEF Matches
      <3>2. facts \subseteq program.base \cup {added[j] : j \in 1..Len(added)}
        BY <1>5 DEF IInv, Origins
      <3>3. (KnownBefore(n))' = program.base \cup {added[j] : j \in 1..Len(added)}
        <4>1. n - 1 = Len(added)
          BY <1>5, <2>2
        <4> QED
          BY <4>1, <1>6
      <3>4. WellStratified(program) => i.head \notin i.neg
        BY <1>2 DEF IInv, StateOK
      <3>5. stratum \in Nat
        BY DEF IInv, StateOK
      <3> QED
        BY <1>1, <1>2, <1>3, <3>1, <3>2, <3>3, <3>4, <3>5
    <2>4. ASSUME NEW k \in DOMAIN added'
          PROVE  /\ added'[k] \in facts' /\ program'.stratum[added'[k]] <= stratum'
                 /\ \E r \in DOMAIN program'.rules : \E j \in program'.rules[r] :
                      /\ provenance'[added'[k]].rule = r /\ j.head = added'[k]
                      /\ j.pos = provenance'[added'[k]].premises
                      /\ Premises(j) \subseteq (KnownBefore(k))'
                      /\ WellStratified(program) => j.neg \cap facts' = {}
      <3>1. CASE k \in DOMAIN added
        BY <1>1, <2>1, <3>1
      <3>2. CASE k = n
        <4>1. added'[k] = i.head
          BY <1>5, <2>2, <3>2
        <4> QED
          BY <1>1, <1>2, <2>3, <3>2, <4>1
      <3> QED
        BY <1>5, <2>2, <3>1, <3>2
    <2>5. WellStratified(program') <=> WellStratified(program)
      BY <1>1
    <2> QED
      BY <2>4, <2>5 DEF Derivations, Premises
  <1>8. Origins'
    <2>1. i.head \notin program.base
      BY <1>0 DEF IInv, Origins
    <2>2. \A f \in facts' : f \in program.base \/ \E k \in DOMAIN added' : added'[k] = f
      BY <1>3, <1>5 DEF IInv, Origins
    <2> QED
      BY <1>1, <1>3, <2>1, <2>2 DEF IInv, Origins
  <1>9. Closedness'
    <2> SUFFICES ASSUME WellStratified(program) PROVE Closed'
      BY <1>1 DEF Closedness
    <2>1. ASSUME NEW r \in DOMAIN program.rules, NEW j \in program.rules[r],
                 program.stratum[j.head] < stratum, Premises(j) \subseteq facts', j.neg \cap facts' = {}
          PROVE  j.head \in facts'
      <3>1. i.head \notin Premises(j)
        BY <1>2, <2>1, StrataFacts DEF IInv, StateOK
      <3>2. Matches(j, facts)
        BY <1>3, <2>1, <3>1 DEF Matches
      <3> QED
        BY <1>3, <2>1, <3>2 DEF IInv, Closedness, Closed, Satisfied
    <2> QED
      BY <1>1, <2>1 DEF IInv, Closedness, Closed, Satisfied, Matches
  <1> QED
    BY <1>4, <1>7, <1>8, <1>9 DEF IInv

\* Every step of the closure keeps the invariant.
LEMMA InvStep == IInv /\ [Next]_vars => IInv'
  <1> SUFFICES ASSUME IInv, [Next]_vars PROVE IInv'
    OBVIOUS
  <1>1. CASE UNCHANGED vars
    <2>1. UNCHANGED <<program, facts, added, provenance, stratum, cursor, start, changed, done>>
      BY <1>1 DEF vars
    <2>2. StateOK'
      BY <2>1 DEF IInv, StateOK
    <2>3. Derivations' /\ Origins'
      <3>1. stratum \in Nat
        BY DEF IInv, StateOK
      <3> QED
        BY <2>1, <3>1, Bookkeeping
    <2>4. Closedness'
      BY <2>1 DEF IInv, Closedness, Closed, Satisfied, Matches, InLayer
    <2> QED
      BY <2>2, <2>3, <2>4 DEF IInv
  <1> QED
    BY <1>1, InvBeginSweep, InvDerive, InvNextRule, InvEndSweep DEF Next

\* The evaluation keeps the invariant, and the rule base.
THEOREM Inductive == Spec => [](IInv /\ program \in Programs)
  <1>1. Init => IInv /\ program \in Programs
    BY InvInit, ProgramsAreRuleBases DEF Init
  <1>2. program \in Programs /\ [Next]_vars => (program \in Programs)'
    BY DEF Next, BeginSweep, Derive, NextRule, EndSweep, vars
  <1> QED
    BY <1>1, <1>2, InvStep, PTL DEF Spec

-----------------------------------------------------------------------------
(* The result and the stable models of the rule base.                      *)

\* A set of natural numbers that is not empty has a least element.
LEMMA LeastNatural ==
  ASSUME NEW S \in SUBSET Nat, S # {}
  PROVE  \E m \in S : \A n \in S : m <= n
  <1> DEFINE Below(m) == 1..m
             Segments == {Below(m) : m \in S}
  <1>1. Segments \subseteq FiniteSubsetsOf(Nat) /\ Segments # {}
    <2>1. ASSUME NEW m \in S PROVE Below(m) \in FiniteSubsetsOf(Nat)
      <3>1. IsFiniteSet(1..m)
        BY FS_Interval
      <3>2. 1..m \subseteq Nat
        OBVIOUS
      <3> QED
        BY <3>1, <3>2 DEF FiniteSubsetsOf
    <2> QED
      BY <2>1
  <1>2. PICK T \in Segments : \A U \in Segments : <<U, T>> \notin StrictSubsetOrdering(Nat)
    <2> HIDE DEF Segments
    <2> QED
      BY <1>1, FS_StrictSubsetOrderingWellFounded, WFMin
  <1>3. PICK m \in S : T = Below(m)
    OBVIOUS
  <1>4. ASSUME NEW n \in S PROVE m <= n
    <2>1. SUFFICES ASSUME n < m PROVE FALSE
      BY <1>3
    <2>2. Below(n) \subseteq Below(m) /\ m \in Below(m) /\ m \notin Below(n)
      BY <2>1
    <2>3. <<Below(n), T>> \in StrictSubsetOrdering(Nat)
      BY <1>3, <2>2 DEF StrictSubsetOrdering
    <2> QED
      BY <1>2, <2>3
  <1> QED
    BY <1>4


\* Every derived fact was derived from facts known before it, by a rule whose negated
\* facts are not in the result.
LEMMA DerivedFrom ==
  ASSUME IInv, WellStratified(program), NEW k \in DOMAIN added
  PROVE  \E r \in DOMAIN program.rules : \E i \in program.rules[r] :
           i.head = added[k] /\ Premises(i) \subseteq KnownBefore(k) /\ i.neg \cap facts = {}
  BY DEF IInv, Derivations

\* The result is closed under its rules, and least among the sets that are.
LEMMA ResultIsStable ==
  ASSUME IInv, WellStratified(program), done
  PROVE  IsStable(facts)
  <1>1. ClosedUnder(facts, facts)
    BY DEF IInv, Origins, Closedness, Closed, Satisfied, Matches, ClosedUnder
  <1>2. ASSUME NEW set \in SUBSET Facts, ClosedUnder(set, facts) PROVE facts \subseteq set
    <2> DEFINE missing == {k \in DOMAIN added : added[k] \notin set}
    <2>1. missing = {}
      <3> SUFFICES ASSUME missing # {} PROVE FALSE
        OBVIOUS
      <3>1. missing \in SUBSET Nat
        BY DEF IInv, StateOK
      <3>2. PICK k \in missing : \A n \in missing : k <= n
        <4> HIDE DEF missing
        <4> QED
          BY <3>1, LeastNatural
      <3>3. PICK r \in DOMAIN program.rules : \E i \in program.rules[r] :
              i.head = added[k] /\ Premises(i) \subseteq KnownBefore(k) /\ i.neg \cap facts = {}
        BY DerivedFrom
      <3>4. PICK i \in program.rules[r] :
              i.head = added[k] /\ Premises(i) \subseteq KnownBefore(k) /\ i.neg \cap facts = {}
        BY <3>3
      <3>5. \A j \in 1..(k - 1) : added[j] \in set
        <4> SUFFICES ASSUME NEW j \in 1..(k - 1) PROVE added[j] \in set
          OBVIOUS
        <4>1. k \in 1..Len(added) /\ DOMAIN added = 1..Len(added) /\ Len(added) \in Nat
          BY DEF IInv, StateOK
        <4>2. j \in DOMAIN added /\ ~(k <= j)
          BY <4>1
        <4> QED
          BY <3>2, <4>2
      <3>6. KnownBefore(k) \subseteq set
        BY <1>2, <3>5 DEF KnownBefore, ClosedUnder
      <3>7. i.head \in set
        BY <1>2, <3>4, <3>6 DEF ClosedUnder
      <3> QED
        BY <3>4, <3>7
    <2> QED
      BY <1>2, <2>1 DEF IInv, Origins, ClosedUnder
  <1> QED
    BY <1>1, <1>2 DEF IsStable

\* Below a stratum, the result and the model hold the same facts.
AgreeBelow(model, s) == \A f \in Facts : program.stratum[f] < s => (f \in facts <=> f \in model)

\* A fact that no rule derives is in the result, and in a stable model, as a base fact.
LEMMA UnderivedFacts ==
  ASSUME IInv, NEW model \in SUBSET Facts, IsStable(model), NEW f, f \notin Heads(program)
  PROVE  f \in facts <=> f \in model
  <1>1. f \in program.base => f \in facts /\ f \in model
    BY DEF IInv, Origins, IsStable, ClosedUnder
  <1>2. f \in facts => f \in program.base
    BY DEF IInv, Origins, Derivations, Heads
  <1>3. f \in model => f \in program.base
    <2> DEFINE kept == {g \in model : g \in program.base \/ g \in Heads(program)}
    <2>1. ClosedUnder(kept, model) /\ kept \in SUBSET Facts
      BY DEF IsStable, ClosedUnder, Heads
    <2>2. model \subseteq kept
      <3> HIDE DEF kept
      <3> QED
        BY <2>1 DEF IsStable
    <2> QED
      BY <2>2
  <1> QED
    BY <1>1, <1>2, <1>3

\* What a rule of the stratum negates is settled below it, or derived by no rule.
LEMMA NegatedAgree ==
  ASSUME IInv, WellStratified(program),
         NEW model \in SUBSET Facts, IsStable(model), NEW s \in Nat, AgreeBelow(model, s),
         NEW r \in DOMAIN program.rules, NEW i \in program.rules[r], program.stratum[i.head] = s
  PROVE  i.neg \cap facts = {} <=> i.neg \cap model = {}
  <1> SUFFICES ASSUME NEW g \in i.neg PROVE g \in facts <=> g \in model
    OBVIOUS
  <1>1. CASE g \in Heads(program)
    <2>1. g \in Facts /\ program.stratum[g] < s
      BY <1>1, ProgramFacts, StrataFacts DEF IInv, StateOK
    <2> QED
      BY <2>1 DEF AgreeBelow
  <1>2. CASE g \notin Heads(program)
    BY <1>2, UnderivedFacts
  <1> QED
    BY <1>1, <1>2

\* The facts of a stratum are in every stable model that agrees below it: they were
\* derived from facts of it and of lower strata.
LEMMA ResultInModel ==
  ASSUME IInv, WellStratified(program),
         NEW model \in SUBSET Facts, IsStable(model), NEW s \in Nat, AgreeBelow(model, s),
         NEW f \in facts, program.stratum[f] = s
  PROVE  f \in model
  <1> DEFINE missing == {k \in DOMAIN added : added[k] \notin model /\ program.stratum[added[k]] = s}
  <1>1. missing = {}
    <2> SUFFICES ASSUME missing # {} PROVE FALSE
      OBVIOUS
    <2>1. missing \in SUBSET Nat
      BY DEF IInv, StateOK
    <2>2. PICK k \in missing : \A n \in missing : k <= n
      <3> HIDE DEF missing
      <3> QED
        BY <2>1, LeastNatural
    <2>3. PICK r \in DOMAIN program.rules : \E i \in program.rules[r] :
            i.head = added[k] /\ Premises(i) \subseteq KnownBefore(k) /\ i.neg \cap facts = {}
      BY DerivedFrom
    <2>4. PICK i \in program.rules[r] :
            i.head = added[k] /\ Premises(i) \subseteq KnownBefore(k) /\ i.neg \cap facts = {}
      BY <2>3
    <2>5. \A g \in Premises(i) : g \in Facts /\ program.stratum[g] <= s /\ program.stratum[g] \in Nat
      BY <2>4, ProgramFacts, StrataFacts DEF IInv, StateOK
    <2>6. ASSUME NEW g \in Premises(i) PROVE g \in model
      <3>1. CASE g \in program.base
        BY <3>1 DEF IsStable, ClosedUnder
      <3>2. CASE \E j \in 1..(k - 1) : g = added[j]
        <4>1. PICK j \in 1..(k - 1) : g = added[j]
          BY <3>2
        <4>2. k \in 1..Len(added) /\ DOMAIN added = 1..Len(added) /\ Len(added) \in Nat
          BY DEF IInv, StateOK
        <4>3. j \in DOMAIN added /\ ~(k <= j)
          BY <4>2
        <4>4. g \in facts
          BY <4>1, <4>3 DEF IInv, Derivations
        <4>5. CASE program.stratum[g] = s
          BY <2>2, <4>1, <4>3, <4>5
        <4>6. CASE program.stratum[g] < s
          BY <2>5, <4>4, <4>6 DEF AgreeBelow
        <4> QED
          BY <2>5, <4>5, <4>6
      <3> QED
        BY <2>4, <3>1, <3>2 DEF KnownBefore
    <2>7. i.neg \cap model = {}
      BY <2>4, NegatedAgree
    <2>8. i.head \in model
      BY <2>6, <2>7 DEF IsStable, ClosedUnder
    <2> QED
      BY <2>4, <2>8
  <1>2. CASE f \in program.base
    BY <1>2 DEF IsStable, ClosedUnder
  <1>3. CASE \E k \in DOMAIN added : added[k] = f
    BY <1>1, <1>3
  <1> QED
    BY <1>2, <1>3 DEF IInv, Origins

\* A stable model that agrees below a stratum has no other facts of it: without them it
\* would still be closed.
LEMMA ModelInResult ==
  ASSUME IInv, WellStratified(program), done,
         NEW model \in SUBSET Facts, IsStable(model), NEW s \in Nat, AgreeBelow(model, s),
         NEW f \in model, program.stratum[f] = s
  PROVE  f \in facts
  <1> DEFINE kept == {g \in model : program.stratum[g] = s => g \in facts}
  <1>1. ClosedUnder(kept, model)
    <2>1. program.base \subseteq kept
      BY DEF IsStable, ClosedUnder, IInv, Origins
    <2>2. ASSUME NEW r \in DOMAIN program.rules, NEW i \in program.rules[r],
                 Premises(i) \subseteq kept, i.neg \cap model = {}
          PROVE  i.head \in kept
      <3>1. i.head \in model
        BY <2>2 DEF IsStable, ClosedUnder
      <3>2. ASSUME program.stratum[i.head] = s PROVE i.head \in facts
        <4>1. \A g \in Premises(i) : g \in Facts /\ program.stratum[g] <= s /\ program.stratum[g] \in Nat
          BY <3>2, ProgramFacts, StrataFacts DEF IInv, StateOK
        <4>2. Premises(i) \subseteq facts
          <5> SUFFICES ASSUME NEW g \in Premises(i) PROVE g \in facts
            OBVIOUS
          <5>1. g \in model /\ (program.stratum[g] = s => g \in facts)
            BY <2>2
          <5>2. program.stratum[g] = s \/ program.stratum[g] < s
            BY <4>1
          <5> QED
            BY <4>1, <5>1, <5>2 DEF AgreeBelow
        <4>3. i.neg \cap facts = {}
          BY <2>2, <3>2, NegatedAgree
        <4> QED
          BY <4>2, <4>3 DEF IInv, Closedness, Closed, Satisfied, Matches
      <3> QED
        BY <3>1, <3>2
    <2> QED
      BY <2>1, <2>2 DEF ClosedUnder
  <1>2. model \subseteq kept
    <2>1. kept \in SUBSET Facts
      OBVIOUS
    <2> HIDE DEF kept
    <2> QED
      BY <1>1, <2>1 DEF IsStable
  <1> QED
    BY <1>2

\* There is no stable model but the result: two would differ first in some stratum.
LEMMA OneStableModel ==
  ASSUME IInv, WellStratified(program), done, NEW model \in SUBSET Facts, IsStable(model)
  PROVE  model = facts
  <1> DEFINE Differs(f) == ~(f \in facts <=> f \in model)
             apart == {program.stratum[f] : f \in {g \in Facts : Differs(g)}}
  <1>1. program.stratum \in [Facts -> Nat] /\ facts \subseteq Facts
    BY ProgramFacts DEF IInv, StateOK
  <1>2. apart = {}
    <2> SUFFICES ASSUME apart # {} PROVE FALSE
      OBVIOUS
    <2>1. apart \in SUBSET Nat
      BY <1>1
    <2>2. PICK s \in apart : \A n \in apart : s <= n
      <3> HIDE DEF apart
      <3> QED
        BY <2>1, LeastNatural
    <2>3. s \in Nat /\ AgreeBelow(model, s)
      <3> SUFFICES ASSUME NEW f \in Facts, program.stratum[f] < s, Differs(f) PROVE FALSE
        BY <2>1 DEF AgreeBelow
      <3>1. program.stratum[f] \in apart /\ program.stratum[f] \in Nat /\ s \in Nat
        BY <1>1, <2>1
      <3> QED
        BY <2>2, <3>1
    <2>4. PICK f \in Facts : Differs(f) /\ program.stratum[f] = s
      OBVIOUS
    <2> QED
      BY <2>3, <2>4, ResultInModel, ModelInResult
  <1> QED
    BY <1>1, <1>2

\* What the closure returns is the one stable model.
LEMMA StableResult == IInv /\ WellStratified(program) => ReturnsTheStableModel
  BY ResultIsStable, OneStableModel DEF ReturnsTheStableModel

-----------------------------------------------------------------------------

\* Provenance covers exactly the facts of the closure, all of the language.
THEOREM ClosureTypeCorrect == Spec => []TypeOK
  <1>1. IInv /\ program \in Programs => TypeOK
    BY DEF IInv, TypeOK
  <1> QED
    BY <1>1, Inductive, PTL

\* Provenance rests on facts that came earlier.
LEMMA WellFounded == IInv => ProvenanceWellFounded
  BY DEF IInv, Derivations, Origins, ProvenanceWellFounded, RecordedAs

\* proof() of any fact of the closure is a finite tree over base facts.
THEOREM ProofsAreWellFounded == Spec => []ProvenanceWellFounded
  BY WellFounded, Inductive, PTL

\* A negated fact that was absent when it was read is absent at the end.
LEMMA StaysValid == IInv /\ WellStratified(program) => NegationStaysValid
  BY DEF IInv, Derivations, NegationStaysValid, RecordedAs

\* Stratified evaluation never invalidates a derivation it has made.
THEOREM DerivationsStayValid == Spec => []NegationStaysValid
  <1>1. IInv /\ program \in Programs => NegationStaysValid
    BY ProgramsAreRuleBases, StaysValid
  <1> QED
    BY <1>1, Inductive, PTL

\* What closure returns is closed under every rule.
THEOREM ResultIsFixpoint == Spec => []ClosureIsFixpoint
  <1>1. IInv /\ program \in Programs => ClosureIsFixpoint
    BY ProgramsAreRuleBases DEF IInv, Closedness, Closed, ClosureIsFixpoint, Satisfied
  <1> QED
    BY <1>1, Inductive, PTL

\* The closure of a well-stratified rule base is its only stable model: it depends neither
\* on the strata nor on the order in which rules and matches come.
THEOREM ClosureIsTheStableModel == Spec => []ReturnsTheStableModel
  <1>1. IInv /\ program \in Programs => ReturnsTheStableModel
    BY ProgramsAreRuleBases, StableResult
  <1> QED
    BY <1>1, Inductive, PTL

-----------------------------------------------------------------------------
(***************************************************************************)
(* _stratify                                                               *)
(***************************************************************************)

(* The inductive invariant.                                                *)

\* While a pass has raised nothing, the atoms it has read ask for nothing more.
ReadAtomsHold ==
  ~raised => \A k \in 1..(reading - 1) : ~Raises(rulebase.atoms[k], strata)

\* A verdict is given at the end of a pass.
JudgedAtTheEnd == ~Pending => reading = Len(rulebase.atoms) + 1

RelaxInv == StratTypeOK /\ ReadAtomsHold /\ JudgedAtTheEnd /\ NeverOvershoots

-----------------------------------------------------------------------------

\* What the assumptions say about the rule base under way.
LEMMA RelaxationFacts ==
  ASSUME rulebase \in RuleBases
  PROVE  /\ Cardinality(rulebase.idb) \in Nat
         /\ Len(rulebase.atoms) \in Nat /\ DOMAIN rulebase.atoms = 1..Len(rulebase.atoms)
         /\ \A k \in DOMAIN rulebase.atoms :
              /\ rulebase.atoms[k] \in Dependency
              /\ rulebase.atoms[k].head \in rulebase.idb
  <1>1. /\ IsFiniteSet(rulebase.idb) /\ rulebase.atoms \in Seq(Dependency)
        /\ \A k \in DOMAIN rulebase.atoms : rulebase.atoms[k].head \in rulebase.idb
    BY RuleBasesAreDependencies
  <1>2. Cardinality(rulebase.idb) \in Nat
    BY <1>1, FS_CardinalityType
  <1> QED
    BY <1>1, <1>2

\* A stratification is a labelling under which no atom asks for more than its head has.
LEMMA SolvesIsQuiet ==
  ASSUME rulebase \in RuleBases, NEW s \in [rulebase.idb -> Nat]
  PROVE  Solves(s) <=> \A k \in DOMAIN rulebase.atoms : ~Raises(rulebase.atoms[k], s)
  <1> SUFFICES ASSUME NEW k \in DOMAIN rulebase.atoms
               PROVE  LET a == rulebase.atoms[k]
                      IN (a.pred \in rulebase.idb => /\ s[a.pred] <= s[a.head]
                                                     /\ a.negative => s[a.pred] < s[a.head])
                         <=> ~Raises(a, s)
    BY DEF Solves
  <1> DEFINE a == rulebase.atoms[k]
  <1>1. a.negative \in BOOLEAN /\ s[a.head] \in Nat /\ DOMAIN s = rulebase.idb
    BY RelaxationFacts DEF Dependency
  <1>2. CASE a.pred \notin rulebase.idb
    BY <1>1, <1>2 DEF Raises
  <1>3. CASE a.pred \in rulebase.idb /\ a.negative
    BY <1>1, <1>3 DEF Raises, Required
  <1>4. CASE a.pred \in rulebase.idb /\ ~a.negative
    BY <1>1, <1>4 DEF Raises, Required
  <1> QED
    BY <1>2, <1>3, <1>4

\* The relaxation starts with every predicate at level zero.
LEMMA RelaxInit == StratInit => RelaxInv
  <1> SUFFICES ASSUME StratInit PROVE RelaxInv
    OBVIOUS
  <1>1. StratTypeOK
    <2>1. /\ rulebase \in RuleBases /\ strata = [p \in rulebase.idb |-> 0]
          /\ pass = 0 /\ reading = 1 /\ raised = FALSE /\ verdict = "pending"
      BY DEF StratInit
    <2>2. Cardinality(rulebase.idb) \in Nat /\ Len(rulebase.atoms) \in Nat
      BY <2>1, RelaxationFacts
    <2>3. strata \in [rulebase.idb -> Nat]
      BY <2>1
    <2>4. pass \in 0..Cardinality(rulebase.idb) /\ reading \in 1..(Len(rulebase.atoms) + 1)
      BY <2>1, <2>2
    <2> QED
      BY <2>1, <2>3, <2>4 DEF StratTypeOK
  <1>2. ReadAtomsHold /\ JudgedAtTheEnd
    BY DEF StratInit, ReadAtomsHold, JudgedAtTheEnd, Pending
  <1>3. NeverOvershoots
    <2> SUFFICES ASSUME NEW s \in Stratifications, NEW p \in rulebase.idb PROVE strata[p] <= s[p]
      BY DEF NeverOvershoots
    <2>1. s[p] \in Nat /\ strata[p] = 0
      BY LevelsAreStrata DEF StratInit, Stratifications
    <2> QED
      BY <2>1
  <1> QED
    BY <1>1, <1>2, <1>3 DEF RelaxInv

\* One dependency read.
LEMMA RelaxKeeps == RelaxInv /\ Relax => RelaxInv'
  <1> SUFFICES ASSUME RelaxInv, Relax PROVE RelaxInv'
    OBVIOUS
  <1> DEFINE a == rulebase.atoms[reading]
  <1>1. /\ reading \in 1..Len(rulebase.atoms) /\ a \in Dependency /\ a.head \in rulebase.idb
        /\ Len(rulebase.atoms) \in Nat /\ reading' = reading + 1 /\ Pending
        /\ UNCHANGED <<rulebase, pass, verdict>> /\ strata \in [rulebase.idb -> Nat]
    BY RelaxationFacts DEF RelaxInv, StratTypeOK, Relax
  <1>2. CASE ~Raises(a, strata)
    <2>1. UNCHANGED <<strata, raised>>
      BY <1>2 DEF Relax
    <2>2. StratTypeOK'
      BY <1>1, <2>1 DEF RelaxInv, StratTypeOK
    <2>3. ReadAtomsHold'
      <3>1. ASSUME ~raised, NEW k \in 1..reading PROVE ~Raises(rulebase.atoms[k], strata)
        BY <1>1, <1>2, <3>1 DEF RelaxInv, ReadAtomsHold
      <3> QED
        BY <1>1, <2>1, <3>1 DEF ReadAtomsHold, Raises, Required
    <2>4. JudgedAtTheEnd'
      BY <1>1 DEF JudgedAtTheEnd, Pending
    <2>5. NeverOvershoots'
      BY <1>1, <2>1 DEF RelaxInv, NeverOvershoots, Stratifications, Solves
    <2> QED
      BY <2>2, <2>3, <2>4, <2>5 DEF RelaxInv
  <1>3. CASE Raises(a, strata)
    <2>1. strata' = [strata EXCEPT ![a.head] = Required(a, strata)] /\ raised' = TRUE
      BY <1>3 DEF Relax
    <2>2. a.pred \in rulebase.idb /\ Required(a, strata) \in Nat
      BY <1>1, <1>3 DEF Raises, Required
    <2>3. StratTypeOK'
      BY <1>1, <2>1, <2>2 DEF RelaxInv, StratTypeOK
    <2>4. ReadAtomsHold' /\ JudgedAtTheEnd'
      BY <1>1, <2>1 DEF ReadAtomsHold, JudgedAtTheEnd, Pending
    <2>5. ASSUME NEW s \in Stratifications, NEW p \in rulebase.idb PROVE strata'[p] <= s[p]
      <3>1. /\ s \in [rulebase.idb -> Nat] /\ \A q \in rulebase.idb : strata[q] <= s[q]
            /\ ~Raises(a, s)
        <4>1. s \in [rulebase.idb -> Nat] /\ Solves(s) /\ rulebase \in RuleBases
          BY LevelsAreStrata DEF RelaxInv, StratTypeOK, Stratifications
        <4>2. \A q \in rulebase.idb : strata[q] <= s[q]
          BY DEF RelaxInv, NeverOvershoots
        <4>3. reading \in DOMAIN rulebase.atoms
          BY DEF Relax
        <4> QED
          BY <4>1, <4>2, <4>3, SolvesIsQuiet
      <3>2. Required(a, strata) <= Required(a, s) /\ Required(a, s) \in Nat
        <4>1. /\ strata[a.pred] \in Nat /\ s[a.pred] \in Nat /\ strata[a.pred] <= s[a.pred]
              /\ a.negative \in BOOLEAN
          BY <1>1, <2>2, <3>1 DEF Dependency
        <4>2. CASE a.negative
          BY <4>1, <4>2 DEF Required
        <4>3. CASE ~a.negative
          BY <4>1, <4>3 DEF Required
        <4> QED
          BY <4>2, <4>3
      <3>3. Required(a, s) <= s[a.head]
        BY <1>1, <2>2, <3>1, <3>2 DEF Raises
      <3> QED
        BY <1>1, <2>1, <2>2, <3>1, <3>2, <3>3
    <2>6. NeverOvershoots'
      <3>1. Stratifications' = Stratifications
        BY <1>1 DEF Stratifications, Solves
      <3> QED
        BY <1>1, <2>5, <3>1 DEF NeverOvershoots
    <2> QED
      BY <2>3, <2>4, <2>6 DEF RelaxInv
  <1> QED
    BY <1>2, <1>3

\* The next pass reads all dependencies again.
LEMMA NextPassKeeps == RelaxInv /\ NextPass => RelaxInv'
  <1> SUFFICES ASSUME RelaxInv, NextPass PROVE RelaxInv'
    OBVIOUS
  <1>1. StratTypeOK'
    <2>1. /\ UNCHANGED <<rulebase, strata, verdict>> /\ pass' = pass + 1 /\ reading' = 1
          /\ raised' = FALSE /\ pass < Cardinality(rulebase.idb)
      BY DEF NextPass
    <2>2. Cardinality(rulebase.idb) \in Nat /\ Len(rulebase.atoms) \in Nat /\ pass \in Nat
      BY RelaxationFacts DEF RelaxInv, StratTypeOK
    <2>3. pass' \in 0..Cardinality(rulebase.idb) /\ reading' \in 1..(Len(rulebase.atoms) + 1)
      BY <2>1, <2>2
    <2> QED
      BY <2>1, <2>3 DEF RelaxInv, StratTypeOK
  <1>2. ReadAtomsHold' /\ JudgedAtTheEnd'
    BY DEF NextPass, PassEnded, Pending, ReadAtomsHold, JudgedAtTheEnd
  <1>3. NeverOvershoots'
    BY DEF RelaxInv, NextPass, NeverOvershoots, Stratifications, Solves
  <1> QED
    BY <1>1, <1>2, <1>3 DEF RelaxInv

\* The verdict changes no level.
LEMMA JudgeKeeps == RelaxInv /\ Judge => RelaxInv'
  <1> SUFFICES ASSUME RelaxInv, Judge PROVE RelaxInv'
    OBVIOUS
  <1>0. reading = Len(rulebase.atoms) + 1 /\ UNCHANGED <<rulebase, strata, pass, reading, raised>>
    BY RelaxationFacts DEF RelaxInv, StratTypeOK, Judge, PassEnded
  <1>1. StratTypeOK'
    BY <1>0 DEF RelaxInv, StratTypeOK, Judge
  <1>2. ReadAtomsHold' /\ JudgedAtTheEnd'
    BY <1>0 DEF RelaxInv, ReadAtomsHold, JudgedAtTheEnd, Raises, Required
  <1>3. NeverOvershoots'
    BY <1>0 DEF RelaxInv, NeverOvershoots, Stratifications, Solves
  <1> QED
    BY <1>1, <1>2, <1>3 DEF RelaxInv

\* The invariant of the relaxation by itself.
LEMMA RelaxInductive == StratSpec => []RelaxInv
  <1>1. RelaxInv /\ [StratNext]_stratVars => RelaxInv'
    <2> SUFFICES ASSUME RelaxInv, [StratNext]_stratVars PROVE RelaxInv'
      OBVIOUS
    <2>1. CASE UNCHANGED stratVars
      BY <2>1 DEF stratVars, RelaxInv, StratTypeOK, ReadAtomsHold, JudgedAtTheEnd, NeverOvershoots, Pending,
                  Stratifications, Solves
    <2> QED
      BY <2>1, RelaxKeeps, NextPassKeeps, JudgeKeeps DEF StratNext
  <1> QED
    BY <1>1, RelaxInit, PTL DEF StratSpec

-----------------------------------------------------------------------------

\* The strata are natural numbers for exactly the derived predicates, and the loop stays
\* within its iterations.
THEOREM StrataTypeCorrect == StratSpec => []StratTypeOK
  <1>1. RelaxInv => StratTypeOK
    BY DEF RelaxInv
  <1> QED
    BY <1>1, RelaxInductive, PTL

\* No stratum exceeds the one it has in any stratification of the rule base.
THEOREM RelaxationStaysBelow == StratSpec => []NeverOvershoots
  <1>1. RelaxInv => NeverOvershoots
    BY DEF RelaxInv
  <1> QED
    BY <1>1, RelaxInductive, PTL

\* A loop left because nothing was raised leaves a stratification.
THEOREM QuietPassIsSolution == StratSpec => []QuietPassSolves
  <1>1. RelaxInv => QuietPassSolves
    BY RelaxationFacts, SolvesIsQuiet DEF RelaxInv, StratTypeOK, ReadAtomsHold, JudgedAtTheEnd, QuietPassSolves
  <1> QED
    BY <1>1, RelaxInductive, PTL

-----------------------------------------------------------------------------
(* A rule base that can be stratified has a least stratification; every pass *)
(* but a quiet one brings one more predicate up to it, so the passes suffice. *)

\* The least stratification: the least stratum of every predicate in any of them.
IsLeast(s) == s \in Stratifications /\ \A t \in Stratifications : \A p \in rulebase.idb : s[p] <= t[p]

\* Where there is a stratification, the pointwise least levels are one.
LEMMA LeastExists ==
  ASSUME rulebase \in RuleBases, Stratifications # {}
  PROVE  \E s : IsLeast(s)
  <1> DEFINE Strata(p) == {t[p] : t \in Stratifications}
             Lowest(p, m) == m \in Strata(p) /\ \A n \in Strata(p) : m <= n
             s == [p \in rulebase.idb |-> CHOOSE m \in Levels : Lowest(p, m)]
  <1>1. ASSUME NEW p \in rulebase.idb
        PROVE  s[p] \in Levels /\ Lowest(p, s[p])
    <2>1. Strata(p) \subseteq Levels /\ Strata(p) # {}
      BY DEF Stratifications
    <2>2. \E m \in Levels : Lowest(p, m)
      BY <2>1, LeastNatural, LevelsAreStrata
    <2> HIDE DEF Lowest
    <2> QED
      BY <2>2
  <1>2. /\ s \in [rulebase.idb -> Levels] /\ s \in [rulebase.idb -> Nat]
        /\ \A t \in Stratifications : \A p \in rulebase.idb : s[p] <= t[p]
    BY <1>1, LevelsAreStrata
  <1>3. \A p \in rulebase.idb : \E t \in Stratifications : s[p] = t[p]
    BY <1>1
  <1> HIDE DEF s
  <1>4. Solves(s)
    <2> SUFFICES ASSUME NEW k \in DOMAIN rulebase.atoms PROVE ~Raises(rulebase.atoms[k], s)
      BY <1>2, SolvesIsQuiet
    <2> DEFINE a == rulebase.atoms[k]
    <2>1. a.negative \in BOOLEAN /\ a.head \in rulebase.idb
      BY RelaxationFacts DEF Dependency
    <2>2. SUFFICES ASSUME a.pred \in rulebase.idb PROVE Required(a, s) <= s[a.head]
      BY <1>2, <2>1 DEF Raises, Required
    <2>3. PICK t \in Stratifications : s[a.head] = t[a.head]
      BY <1>3, <2>1
    <2>4. t \in [rulebase.idb -> Nat] /\ Solves(t)
      BY LevelsAreStrata DEF Stratifications
    <2>5. ~Raises(a, t)
      BY <2>4, SolvesIsQuiet
    <2>6. Required(a, t) <= t[a.head]
      BY <2>1, <2>2, <2>4, <2>5 DEF Raises, Required
    <2>7. s[a.pred] <= t[a.pred] /\ s[a.pred] \in Nat /\ t[a.pred] \in Nat /\ t[a.head] \in Nat
      BY <1>2, <2>1, <2>2, <2>4
    <2> QED
      BY <2>1, <2>3, <2>6, <2>7 DEF Required
  <1> QED
    BY <1>2, <1>4 DEF Stratifications, IsLeast

Least == CHOOSE s : IsLeast(s)

\* The least stratification is typed and satisfies every dependency.
LEMMA LeastFacts ==
  ASSUME rulebase \in RuleBases, Stratifications # {}
  PROVE  /\ IsLeast(Least) /\ Least \in [rulebase.idb -> Nat]
         /\ \A k \in DOMAIN rulebase.atoms : ~Raises(rulebase.atoms[k], Least)
  <1>1. IsLeast(Least)
    BY LeastExists DEF Least
  <1>2. Least \in [rulebase.idb -> Nat] /\ Solves(Least)
    BY <1>1, LevelsAreStrata DEF IsLeast, Stratifications
  <1> QED
    BY <1>1, <1>2, SolvesIsQuiet

\* The predicates whose stratum is the one of the least stratification.
Settled == {p \in rulebase.idb : strata[p] = Least[p]}

\* The atom settles its head: its own predicate is settled and asks for no less than the
\* head's stratum in the least stratification.
Settles(a) ==
  /\ a.pred \in Settled /\ a.head \notin Settled
  /\ Required(a, strata) = Least[a.head]

\* In a pass that cannot be the last one, some atom that is still to be read settles its
\* head, or one has been settled already.
Advances ==
  Stratifications # {} =>
    \/ Settled = rulebase.idb
    \/ Cardinality(Settled) > pass
    \/ /\ Cardinality(Settled) >= pass
       /\ \E k \in reading..Len(rulebase.atoms) : Settles(rulebase.atoms[k])

ProgressInv == RelaxInv /\ Advances /\ StratifiableIsStratified

\* While a predicate is not settled, some atom settles its head: otherwise the strata of
\* all that are not settled could be one lower.
LEMMA SomeAtomSettles ==
  ASSUME rulebase \in RuleBases, Stratifications # {}, strata \in [rulebase.idb -> Nat], NeverOvershoots,
         Settled # rulebase.idb
  PROVE  \E k \in 1..Len(rulebase.atoms) : Settles(rulebase.atoms[k])
  <1> DEFINE lower == [p \in rulebase.idb |-> IF p \in Settled THEN Least[p] ELSE Least[p] - 1]
  <1>1. /\ Least \in [rulebase.idb -> Nat] /\ IsLeast(Least)
        /\ \A k \in DOMAIN rulebase.atoms : ~Raises(rulebase.atoms[k], Least)
    BY LeastFacts
  <1>2. ASSUME NEW p \in rulebase.idb, p \notin Settled PROVE strata[p] < Least[p]
    <2>1. strata[p] <= Least[p] /\ strata[p] # Least[p] /\ strata[p] \in Nat /\ Least[p] \in Nat
      BY <1>1, <1>2 DEF NeverOvershoots, IsLeast, Settled
    <2> QED
      BY <2>1
  <1>3. ASSUME NEW p \in rulebase.idb
        PROVE  /\ lower[p] \in Levels /\ lower[p] \in Nat
               /\ p \in Settled => lower[p] = Least[p]
               /\ p \notin Settled => lower[p] = Least[p] - 1
    <2>1. Least[p] \in Levels /\ Least[p] \in Nat /\ strata[p] \in Nat
      BY <1>1 DEF IsLeast, Stratifications
    <2>2. CASE p \in Settled
      BY <2>1, <2>2, <1>1
    <2>3. CASE p \notin Settled
      <3>1. Least[p] - 1 \in 0..Least[p]
        BY <1>2, <2>1, <2>3
      <3> QED
        BY <2>1, <2>3, <3>1, LevelsAreStrata
    <2> QED
      BY <2>2, <2>3
  <1>4. lower \in [rulebase.idb -> Levels] /\ lower \in [rulebase.idb -> Nat]
    BY <1>3
  <1>5. ~Solves(lower)
    <2>1. PICK p \in rulebase.idb : p \notin Settled
      BY DEF Settled
    <2>2. Least[p] \in Nat /\ ~(Least[p] <= lower[p])
      BY <1>1, <1>3, <2>1
    <2> QED
      BY <1>1, <1>4, <2>2 DEF IsLeast, Stratifications
  <1> HIDE DEF lower
  <1>6. PICK k \in DOMAIN rulebase.atoms : Raises(rulebase.atoms[k], lower)
    BY <1>4, <1>5, SolvesIsQuiet
  <1> DEFINE a == rulebase.atoms[k]
  <1>7. /\ k \in 1..Len(rulebase.atoms) /\ a.negative \in BOOLEAN
        /\ a.head \in rulebase.idb /\ a.pred \in rulebase.idb
        /\ Required(a, lower) > lower[a.head]
    BY <1>4, <1>6, RelaxationFacts DEF Dependency, Raises
  <1>8. Required(a, Least) <= Least[a.head]
    BY <1>1, <1>7 DEF Raises, Required
  <1>9. /\ Least[a.head] \in Nat /\ Least[a.pred] \in Nat
        /\ lower[a.head] \in Nat /\ lower[a.pred] \in Nat
        /\ a.head \in Settled => lower[a.head] = Least[a.head]
        /\ a.head \notin Settled => lower[a.head] = Least[a.head] - 1
        /\ a.pred \in Settled => lower[a.pred] = Least[a.pred]
        /\ a.pred \notin Settled => lower[a.pred] = Least[a.pred] - 1
    BY <1>1, <1>3, <1>7
  <1> DEFINE gap == IF a.negative THEN 1 ELSE 0
  <1>10. /\ gap \in 0..1 /\ Required(a, lower) = lower[a.pred] + gap
         /\ Required(a, Least) = Least[a.pred] + gap
         /\ Required(a, strata) = strata[a.pred] + gap
    BY <1>7 DEF Required
  <1> HIDE DEF gap, a
  <1>11. /\ a.pred \in Settled /\ a.head \notin Settled
         /\ Least[a.pred] + gap = Least[a.head]
    <2>1. lower[a.pred] + gap > lower[a.head] /\ Least[a.pred] + gap <= Least[a.head]
      BY <1>7, <1>8, <1>10
    <2>2. gap \in Nat
      BY <1>10
    <2>3. CASE a.head \in Settled /\ a.pred \in Settled
      BY <1>9, <2>1, <2>2, <2>3
    <2>4. CASE a.head \in Settled /\ a.pred \notin Settled
      BY <1>9, <2>1, <2>2, <2>4
    <2>5. CASE a.head \notin Settled /\ a.pred \notin Settled
      BY <1>9, <2>1, <2>2, <2>5
    <2>6. CASE a.head \notin Settled /\ a.pred \in Settled
      BY <1>9, <2>1, <2>2, <2>6
    <2> QED
      BY <2>3, <2>4, <2>5, <2>6
  <1>12. strata[a.pred] = Least[a.pred]
    BY <1>11 DEF Settled
  <1>13. Settles(a)
    BY <1>10, <1>11, <1>12 DEF Settles
  <1> QED
    BY <1>7, <1>13 DEF a

\* What the settled predicates are in number.
LEMMA SettledIsFinite ==
  ASSUME rulebase \in RuleBases
  PROVE  /\ IsFiniteSet(Settled) /\ Cardinality(Settled) \in Nat
         /\ Cardinality(Settled) <= Cardinality(rulebase.idb)
  <1>1. IsFiniteSet(rulebase.idb) /\ Settled \in SUBSET rulebase.idb
    BY RuleBasesAreDependencies DEF Settled
  <1>2. IsFiniteSet(Settled) /\ Cardinality(Settled) <= Cardinality(rulebase.idb)
    BY <1>1, FS_Subset
  <1> QED
    BY <1>2, FS_CardinalityType

\* An atom that settles its head raises it.
LEMMA SettlingRaises ==
  ASSUME rulebase \in RuleBases, Stratifications # {}, strata \in [rulebase.idb -> Nat], NeverOvershoots,
         NEW k \in DOMAIN rulebase.atoms, Settles(rulebase.atoms[k])
  PROVE  Raises(rulebase.atoms[k], strata)
  <1> DEFINE a == rulebase.atoms[k]
  <1>1. Required(a, strata) = Least[a.head] /\ a.head \notin Settled /\ a.pred \in rulebase.idb
    BY DEF Settles, Settled
  <1>2. /\ a.head \in rulebase.idb /\ strata[a.head] \in Nat /\ Least[a.head] \in Nat
        /\ strata[a.head] <= Least[a.head] /\ strata[a.head] # Least[a.head]
    BY <1>1, RelaxationFacts, LeastFacts DEF Settled, NeverOvershoots, IsLeast
  <1> QED
    BY <1>1, <1>2 DEF Raises

\* No pass is over: nothing is claimed yet.
LEMMA ProgressInit == StratInit => ProgressInv
  <1> SUFFICES ASSUME StratInit PROVE ProgressInv
    OBVIOUS
  <1>1. RelaxInv
    BY RelaxInit
  <1>2. StratifiableIsStratified
    BY DEF StratInit, StratifiableIsStratified, Pending
  <1>3. Advances
    <2> SUFFICES ASSUME Stratifications # {}, Settled # rulebase.idb
                 PROVE  /\ Cardinality(Settled) >= pass
                        /\ \E k \in reading..Len(rulebase.atoms) : Settles(rulebase.atoms[k])
      BY DEF Advances
    <2>1. pass = 0 /\ reading = 1
      BY DEF StratInit
    <2>2. rulebase \in RuleBases /\ strata \in [rulebase.idb -> Nat] /\ NeverOvershoots
      BY <1>1 DEF RelaxInv, StratTypeOK
    <2>3. Cardinality(Settled) \in Nat
      BY <2>2, SettledIsFinite
    <2> QED
      BY <2>1, <2>2, <2>3, SomeAtomSettles
  <1> QED
    BY <1>1, <1>2, <1>3 DEF ProgressInv

\* The rule base and its stratifications stay.
LEMMA SameLeast ==
  ASSUME UNCHANGED rulebase
  PROVE  Stratifications' = Stratifications /\ Least' = Least
  <1>1. Stratifications' = Stratifications
    BY DEF Stratifications, Solves
  <1>2. \A s : IsLeast(s)' <=> IsLeast(s)
    BY <1>1 DEF IsLeast
  <1> QED
    BY <1>1, <1>2 DEF Least

\* Reading one dependency keeps what the passes achieved.
LEMMA ProgressRelax == ProgressInv /\ Relax => ProgressInv'
  <1> SUFFICES ASSUME ProgressInv, Relax PROVE ProgressInv'
    OBVIOUS
  <1> DEFINE a == rulebase.atoms[reading]
  <1>1. RelaxInv /\ RelaxInv'
    BY RelaxKeeps DEF ProgressInv
  <1>2. StratifiableIsStratified'
    BY DEF Relax, StratifiableIsStratified, Pending
  <1>3. Advances'
    <2> SUFFICES ASSUME (Stratifications # {})', (Settled # rulebase.idb)',
                        ~(Cardinality(Settled) > pass)'
                 PROVE  (/\ Cardinality(Settled) >= pass
                         /\ \E k \in reading..Len(rulebase.atoms) : Settles(rulebase.atoms[k]))'
      BY DEF Advances
    <2>1. /\ UNCHANGED <<rulebase, pass>> /\ reading' = reading + 1
          /\ rulebase \in RuleBases /\ strata \in [rulebase.idb -> Nat] /\ strata' \in [rulebase.idb -> Nat]
          /\ reading \in 1..Len(rulebase.atoms) /\ Len(rulebase.atoms) \in Nat /\ pass \in Nat
          /\ reading \in DOMAIN rulebase.atoms
          /\ a \in Dependency /\ a.head \in rulebase.idb
      BY <1>1, RelaxationFacts DEF Relax, RelaxInv, StratTypeOK
    <2>2. Stratifications' = Stratifications /\ Least' = Least /\ Stratifications # {}
      BY <2>1, SameLeast
    <2>3. /\ Least \in [rulebase.idb -> Nat]
          /\ \A p \in rulebase.idb : strata[p] <= Least[p] /\ strata'[p] <= Least[p]
      BY <1>1, <2>1, <2>2, LeastFacts DEF RelaxInv, NeverOvershoots, IsLeast
    <2>4. \A p \in rulebase.idb : strata'[p] >= strata[p]
      <3>1. CASE Raises(a, strata)
        <4>1. strata' = [strata EXCEPT ![a.head] = Required(a, strata)]
          BY <3>1 DEF Relax
        <4>2. Required(a, strata) > strata[a.head] /\ Required(a, strata) \in Nat
          BY <2>1, <3>1 DEF Raises, Required
        <4> QED
          BY <2>1, <4>1, <4>2
      <3>2. CASE ~Raises(a, strata)
        BY <2>1, <3>2 DEF Relax
      <3> QED
        BY <3>1, <3>2
    <2>5. Settled \subseteq Settled'
      <3> SUFFICES ASSUME NEW p \in Settled PROVE p \in Settled'
        OBVIOUS
      <3>1. p \in rulebase.idb /\ strata[p] = Least[p]
        BY DEF Settled
      <3>2. strata'[p] \in Nat /\ strata[p] \in Nat /\ strata'[p] >= strata[p] /\ strata'[p] <= Least[p]
        BY <2>1, <2>3, <2>4, <3>1
      <3>3. strata'[p] = Least[p]
        BY <3>1, <3>2
      <3> QED
        BY <2>1, <2>2, <3>1, <3>3 DEF Settled
    <2>6. /\ IsFiniteSet(Settled') /\ Settled \in SUBSET Settled'
          /\ Cardinality(Settled) <= Cardinality(Settled')
          /\ Cardinality(Settled) \in Nat /\ Cardinality(Settled') \in Nat
          /\ Cardinality(Settled') = Cardinality(Settled) => Settled' = Settled
      <3>1. IsFiniteSet(Settled) /\ Cardinality(Settled) \in Nat
        BY <2>1, SettledIsFinite
      <3>2. IsFiniteSet(Settled')
        <4>1. Settled' \in SUBSET rulebase.idb /\ IsFiniteSet(rulebase.idb)
          BY <2>1, RuleBasesAreDependencies DEF Settled
        <4> QED
          BY <4>1, FS_Subset
      <3> QED
        BY <2>5, <3>1, <3>2, FS_Subset, FS_CardinalityType
    <2> DEFINE now == Cardinality(Settled)
               next == Cardinality(Settled')
    <2>7. now \in Nat /\ next \in Nat /\ now <= next /\ ~(next > pass) /\ pass \in Nat
      BY <2>1, <2>6
    <2>8. Settled # rulebase.idb
      BY <2>1, <2>5 DEF Settled
    <2> HIDE DEF now, next
    <2>9. /\ now >= pass
          /\ \E k \in reading..Len(rulebase.atoms) : Settles(rulebase.atoms[k])
      BY <2>2, <2>7, <2>8 DEF ProgressInv, Advances, now
    <2>10. next = pass /\ now = pass
      BY <2>7, <2>9
    <2>11. Settled' = Settled
      BY <2>6, <2>10 DEF now, next
    <2>12. PICK k \in reading..Len(rulebase.atoms) : Settles(rulebase.atoms[k])
      BY <2>9
    <2>13. /\ k \in DOMAIN rulebase.atoms /\ rulebase.atoms[k].head \in rulebase.idb
           /\ rulebase.atoms[k].pred \in rulebase.idb
      <3>1. k \in 1..Len(rulebase.atoms)
        BY <2>1
      <3> QED
        BY <2>1, <2>12, <3>1, RelaxationFacts DEF Settles, Settled
    <2>14. k # reading
      <3> SUFFICES ASSUME k = reading PROVE FALSE
        OBVIOUS
      <3>1. Required(a, strata) = Least[a.head] /\ a.head \notin Settled
        BY <2>12 DEF Settles
      <3>2. Raises(a, strata)
        BY <1>1, <2>1, <2>2, <2>12, <2>13, SettlingRaises DEF RelaxInv
      <3>3. strata'[a.head] = Least[a.head]
        BY <2>1, <3>1, <3>2 DEF Relax
      <3> QED
        BY <2>1, <2>2, <2>11, <3>1, <3>3 DEF Settled
    <2>15. k \in reading'..Len(rulebase'.atoms)
      BY <2>1, <2>14
    <2>16. Settles(rulebase.atoms[k])'
      <3> DEFINE b == rulebase.atoms[k]
      <3>1. b.pred \in Settled /\ b.head \notin Settled /\ Required(b, strata) = Least[b.head]
        BY <2>12 DEF Settles
      <3>2. strata'[b.pred] = strata[b.pred]
        BY <2>2, <2>11, <3>1 DEF Settled
      <3>3. Required(b, strata') = Required(b, strata)
        BY <3>2 DEF Required
      <3>4. b.pred \in Settled' /\ b.head \notin Settled' /\ Required(b, strata') = Least'[b.head]
        BY <2>2, <2>11, <3>1, <3>3
      <3> QED
        BY <2>1, <3>4 DEF Settles
    <2>17. Cardinality(Settled') >= pass'
      BY <2>1, <2>7, <2>10 DEF next
    <2> QED
      BY <2>1, <2>15, <2>16, <2>17
  <1> QED
    BY <1>1, <1>2, <1>3 DEF ProgressInv

\* At the end of a pass, all are settled or one more than there were passes before it.
LEMMA PassSettles ==
  ASSUME ProgressInv, PassEnded, Stratifications # {}
  PROVE  Settled = rulebase.idb \/ Cardinality(Settled) > pass
  <1>1. /\ Len(rulebase.atoms) \in Nat /\ reading \in Nat /\ reading > Len(rulebase.atoms)
    BY RelaxationFacts DEF ProgressInv, RelaxInv, StratTypeOK, PassEnded
  <1>2. ~ \E k \in reading..Len(rulebase.atoms) : Settles(rulebase.atoms[k])
    BY <1>1
  <1> QED
    BY <1>2 DEF ProgressInv, Advances

\* A pass settles the predicates of one more level.
LEMMA ProgressNextPass == ProgressInv /\ NextPass => ProgressInv'
  <1> SUFFICES ASSUME ProgressInv, NextPass PROVE ProgressInv'
    OBVIOUS
  <1>1. RelaxInv /\ RelaxInv'
    BY NextPassKeeps DEF ProgressInv
  <1>2. StratifiableIsStratified'
    BY DEF NextPass, PassEnded, StratifiableIsStratified, Pending
  <1>3. Advances'
    <2> SUFFICES ASSUME (Stratifications # {})', (Settled # rulebase.idb)'
                 PROVE  (/\ Cardinality(Settled) >= pass
                         /\ \E k \in reading..Len(rulebase.atoms) : Settles(rulebase.atoms[k]))'
      BY DEF Advances
    <2>1. /\ UNCHANGED <<rulebase, strata>> /\ pass' = pass + 1 /\ reading' = 1 /\ PassEnded
          /\ rulebase \in RuleBases /\ strata \in [rulebase.idb -> Nat] /\ pass \in Nat /\ NeverOvershoots
      BY <1>1, RelaxationFacts DEF NextPass, RelaxInv, StratTypeOK
    <2>2. Stratifications' = Stratifications /\ Least' = Least
      BY <2>1, SameLeast
    <2>3. Settled' = Settled
      BY <2>1, <2>2 DEF Settled
    <2>4. Stratifications # {} /\ Settled # rulebase.idb
      BY <2>1, <2>2, <2>3
    <2>5. Cardinality(Settled) > pass /\ Cardinality(Settled) \in Nat
      BY <2>1, <2>4, PassSettles, SettledIsFinite
    <2>6. \E k \in 1..Len(rulebase.atoms) : Settles(rulebase.atoms[k])
      BY <2>1, <2>4, SomeAtomSettles
    <2>7. \A k : Settles(rulebase.atoms[k])' <=> Settles(rulebase.atoms[k])
      BY <2>1, <2>2, <2>3 DEF Settles, Required
    <2>8. Cardinality(Settled') >= pass'
      <3> DEFINE n == Cardinality(Settled)
      <3>1. n \in Nat /\ n > pass
        BY <2>5
      <3> HIDE DEF n
      <3>2. n >= pass + 1
        BY <2>1, <3>1
      <3> QED
        BY <2>1, <2>3, <3>2 DEF n
    <2> QED
      BY <2>1, <2>6, <2>7, <2>8
  <1> QED
    BY <1>1, <1>2, <1>3 DEF ProgressInv

\* The verdict keeps what the passes achieved.
LEMMA ProgressJudge == ProgressInv /\ Judge => ProgressInv'
  <1> SUFFICES ASSUME ProgressInv, Judge PROVE ProgressInv'
    OBVIOUS
  <1>1. RelaxInv /\ RelaxInv'
    BY JudgeKeeps DEF ProgressInv
  <1>2. /\ UNCHANGED <<rulebase, strata, pass, reading, raised>> /\ PassEnded
        /\ rulebase \in RuleBases /\ strata \in [rulebase.idb -> Nat] /\ NeverOvershoots
        /\ pass \in Nat /\ Cardinality(rulebase.idb) \in Nat
    BY <1>1, RelaxationFacts DEF Judge, RelaxInv, StratTypeOK
  <1>3. Stratifications' = Stratifications /\ Least' = Least
    BY <1>2, SameLeast
  <1>4. Settled' = Settled
    BY <1>2, <1>3 DEF Settled
  <1>5. Advances'
    BY <1>2, <1>3, <1>4 DEF ProgressInv, Advances, Settles, Required
  <1>6. ASSUME Stratifications # {} PROVE strata \in Stratifications
    <2>1. CASE Settled = rulebase.idb
      <3>1. Least \in Stratifications /\ \A p \in rulebase.idb : strata[p] = Least[p]
        BY <1>2, <1>6, <2>1, LeastFacts DEF IsLeast, Settled
      <3>2. strata = Least
        BY <1>2, <3>1 DEF Stratifications
      <3> QED
        BY <3>1, <3>2
    <2>2. CASE Settled # rulebase.idb
      <3>1. Cardinality(Settled) > pass /\ Cardinality(Settled) <= Cardinality(rulebase.idb)
            /\ Cardinality(Settled) \in Nat
        BY <1>2, <1>6, <2>2, PassSettles, SettledIsFinite
      <3>2. pass # Cardinality(rulebase.idb)
        BY <1>2, <3>1
      <3>3. ~raised /\ reading = Len(rulebase.atoms) + 1
        BY <1>1, <1>2, <3>2 DEF Judge, RelaxInv, JudgedAtTheEnd, Pending
      <3>4. PICK k \in 1..Len(rulebase.atoms) : Settles(rulebase.atoms[k])
        BY <1>2, <1>6, <2>2, SomeAtomSettles
      <3>5. k \in 1..(reading - 1) /\ k \in DOMAIN rulebase.atoms
        BY <1>2, <3>3, RelaxationFacts
      <3>6. Raises(rulebase.atoms[k], strata)
        BY <1>2, <1>6, <3>4, <3>5, SettlingRaises
      <3> QED
        BY <1>1, <3>3, <3>5, <3>6 DEF RelaxInv, ReadAtomsHold
    <2> QED
      BY <2>1, <2>2
  <1>7. StratifiableIsStratified'
    <2> SUFFICES ASSUME Stratifications # {} PROVE verdict' = "accepted" /\ strata' \in Stratifications'
      BY <1>3 DEF StratifiableIsStratified
    <2>1. strata \in Stratifications /\ Solves(strata)
      BY <1>6 DEF Stratifications
    <2>2. \A k \in DOMAIN rulebase.atoms : ~NegationAtOrAbove(rulebase.atoms[k], strata)
      <3> SUFFICES ASSUME NEW k \in DOMAIN rulebase.atoms,
                          NegationAtOrAbove(rulebase.atoms[k], strata)
                   PROVE  FALSE
        OBVIOUS
      <3> DEFINE a == rulebase.atoms[k]
      <3>1. a.negative /\ a.pred \in rulebase.idb /\ strata[a.pred] >= strata[a.head]
        BY <1>2 DEF NegationAtOrAbove
      <3>2. strata[a.pred] < strata[a.head] /\ strata[a.pred] \in Nat /\ strata[a.head] \in Nat
        BY <1>2, <2>1, <3>1, RelaxationFacts DEF Solves
      <3> QED
        BY <3>1, <3>2
    <2> QED
      BY <1>2, <1>3, <2>1, <2>2 DEF Judge
  <1> QED
    BY <1>1, <1>5, <1>7 DEF ProgressInv

\* Every step of the relaxation keeps the progress.
LEMMA ProgressStep == ProgressInv /\ [StratNext]_stratVars => ProgressInv'
  <1> SUFFICES ASSUME ProgressInv, UNCHANGED stratVars PROVE ProgressInv'
    BY ProgressRelax, ProgressNextPass, ProgressJudge DEF StratNext
  <1>1. UNCHANGED <<rulebase, strata, pass, reading, raised, verdict>>
    BY DEF stratVars
  <1>2. Stratifications' = Stratifications /\ Least' = Least
    BY <1>1, SameLeast
  <1>3. Settled' = Settled
    BY <1>1, <1>2 DEF Settled
  <1>4. Advances' /\ StratifiableIsStratified'
    BY <1>1, <1>2, <1>3 DEF ProgressInv, Advances, Settles, Required, StratifiableIsStratified, Pending
  <1>5. RelaxInv'
    BY <1>1 DEF ProgressInv, RelaxInv, StratTypeOK, ReadAtomsHold, JudgedAtTheEnd, NeverOvershoots, Pending,
                Stratifications, Solves
  <1> QED
    BY <1>4, <1>5 DEF ProgressInv

\* A rule base that can be stratified is never rejected, whatever the order of its rules:
\* the passes suffice, and the strata are a stratification.
THEOREM StratifiableRuleBasesAreAccepted == StratSpec => []StratifiableIsStratified
  <1>1. ProgressInv => StratifiableIsStratified
    BY DEF ProgressInv
  <1> QED
    BY <1>1, ProgressInit, ProgressStep, PTL DEF StratSpec

-----------------------------------------------------------------------------
(***************************************************************************)
(* The kernel: its constructor is the stratification, and closure evaluates *)
(* a rule base that has it.                                                *)
(***************************************************************************)

\* The kernel stratifies as _stratify does alone; closure leaves the strata as they are.
THEOREM KernelRefinesStratification == KernelSpec => StratSpec
  <1>1. KernelInit => StratInit
    BY DEF KernelInit
  <1>2. [KernelNext]_kernelVars => [StratNext]_stratVars
    BY DEF KernelNext, kernelVars, Construct, Call, Saturate
  <1> QED
    BY <1>1, <1>2, PTL DEF KernelSpec, StratSpec

\* The program closure evaluates is the rule base with the strata it was given.
IsLoaded ==
  /\ program.base = rulebase.base /\ program.rules = rulebase.rules
  /\ program.stratum = [f \in Facts |-> StratumOf(f)]

\* Until closure is called nothing is known; then the closure's own invariant holds.
KernelInv ==
  /\ ProgressInv
  /\ program = NoProgram =>
       facts = {} /\ added = <<>> /\ stratum = 0 /\ cursor = 0 /\ start = {} /\ ~changed /\ ~done
  /\ program # NoProgram => IInv /\ IsLoaded /\ verdict = "accepted"
  /\ changed \in BOOLEAN /\ done \in BOOLEAN

\* What the kernel loads is a program of the closure.
LEMMA LoadedIsProgram == ProgressInv /\ IsLoaded => IsProgram(program)
  <1> SUFFICES ASSUME ProgressInv, IsLoaded PROVE IsProgram(program)
    OBVIOUS
  <1>1. rulebase \in RuleBases /\ strata \in [rulebase.idb -> Nat]
    BY DEF ProgressInv, RelaxInv, StratTypeOK
  <1>2. program.base \subseteq Facts /\ program.rules \in Seq(SUBSET Instance)
    BY <1>1, InstancesHaveDependencies DEF IsLoaded
  <1>3. \A f \in Facts : StratumOf(f) \in Nat
    BY <1>1 DEF StratumOf
  <1>4. program.stratum \in [Facts -> Nat]
    BY <1>3 DEF IsLoaded
  <1>5. ASSUME NEW r \in DOMAIN program.rules, NEW i \in program.rules[r], NEW j \in program.rules[r]
        PROVE  program.stratum[i.head] = program.stratum[j.head]
    <2>1. i.head \in Facts /\ j.head \in Facts
      BY <1>2 DEF Instance
    <2>2. i.head[1] = j.head[1]
      BY <1>1, InstancesHaveDependencies DEF IsLoaded
    <2> QED
      BY <2>1, <2>2 DEF IsLoaded, StratumOf
  <1> QED
    BY <1>2, <1>4, <1>5 DEF IsProgram, OneHead

\* Strata that are a stratification of the dependencies stratify the instances.
LEMMA LoadedIsWellStratified ==
  ASSUME ProgressInv, IsLoaded, Solves(strata)
  PROVE  WellStratified(program)
  <1>1. rulebase \in RuleBases /\ strata \in [rulebase.idb -> Nat]
    BY DEF ProgressInv, RelaxInv, StratTypeOK
  <1> SUFFICES ASSUME NEW r \in DOMAIN program.rules, NEW i \in program.rules[r]
               PROVE  /\ \A f \in Premises(i) : program.stratum[f] <= program.stratum[i.head]
                      /\ \A f \in i.neg \cap Heads(program) : program.stratum[f] < program.stratum[i.head]
    BY DEF WellStratified
  <1>2. r \in DOMAIN rulebase.rules /\ i \in rulebase.rules[r]
    BY DEF IsLoaded
  <1>3. i.head \in Facts /\ i.neg \subseteq Facts /\ Premises(i) \subseteq Facts
    BY LoadedIsProgram, ProgramFacts
  <1>4. PICK h \in rulebase.idb : \A j \in rulebase.rules[r] :
          /\ j.head[1] = h
          /\ \A f \in Premises(j) : f[1] \in rulebase.idb =>
               \E k \in DOMAIN rulebase.atoms : rulebase.atoms[k].head = h /\ rulebase.atoms[k].pred = f[1]
          /\ \A f \in j.neg : f[1] \in rulebase.idb =>
               \E k \in DOMAIN rulebase.atoms : /\ rulebase.atoms[k].head = h
                                                /\ rulebase.atoms[k].pred = f[1]
                                                /\ rulebase.atoms[k].negative
    BY <1>1, <1>2, InstancesHaveDependencies
  <1>5. \A f \in Facts : program.stratum[f] = IF f[1] \in rulebase.idb THEN strata[f[1]] ELSE 0
    BY DEF IsLoaded, StratumOf
  <1>6. program.stratum[i.head] = strata[h] /\ strata[h] \in Nat
    BY <1>1, <1>2, <1>3, <1>4, <1>5
  <1>7. ASSUME NEW f \in Premises(i) PROVE program.stratum[f] <= program.stratum[i.head]
    <2>1. CASE f[1] \in rulebase.idb
      <3>1. PICK k \in DOMAIN rulebase.atoms : rulebase.atoms[k].head = h /\ rulebase.atoms[k].pred = f[1]
        BY <1>2, <1>4, <2>1
      <3>2. strata[f[1]] <= strata[h]
        BY <2>1, <3>1 DEF Solves
      <3> QED
        BY <1>3, <1>5, <1>6, <2>1, <3>2
    <2>2. CASE f[1] \notin rulebase.idb
      BY <1>3, <1>5, <1>6, <2>2
    <2> QED
      BY <2>1, <2>2
  <1>8. ASSUME NEW f \in i.neg \cap Heads(program) PROVE program.stratum[f] < program.stratum[i.head]
    <2>1. f[1] \in rulebase.idb
      <3>1. PICK q \in DOMAIN program.rules : \E j \in program.rules[q] : f = j.head
        BY DEF Heads
      <3> QED
        BY <1>1, <3>1, InstancesHaveDependencies DEF IsLoaded
    <2>2. PICK k \in DOMAIN rulebase.atoms : /\ rulebase.atoms[k].head = h
                                             /\ rulebase.atoms[k].pred = f[1]
                                             /\ rulebase.atoms[k].negative
      BY <1>2, <1>4, <2>1
    <2>3. strata[f[1]] < strata[h]
      BY <2>1, <2>2 DEF Solves
    <2> QED
      BY <1>3, <1>5, <1>6, <2>1, <2>3
  <1> QED
    BY <1>7, <1>8

\* The closure's invariant holds when closure is called.
LEMMA InvStart ==
  /\ IsProgram(program) /\ facts = program.base /\ provenance = [f \in program.base |-> FromBase]
  /\ added = <<>> /\ stratum = 0 /\ cursor = 0 /\ start = {} /\ changed = FALSE /\ done = FALSE
  => IInv
  BY InvInit

\* A kernel before its construction.
LEMMA KernelStart == KernelInit => KernelInv
  <1> SUFFICES ASSUME KernelInit PROVE KernelInv
    OBVIOUS
  <1>1. ProgressInv
    BY ProgressInit DEF KernelInit
  <1> QED
    BY <1>1 DEF KernelInit, KernelInv

\* Construction runs the relaxation.
LEMMA KernelConstruct == KernelInv /\ Construct => KernelInv'
  <1> SUFFICES ASSUME KernelInv, Construct PROVE KernelInv'
    OBVIOUS
  <1>1. UNCHANGED <<program, facts, added, provenance, stratum, cursor, start, changed, done>> /\ StratNext
    BY DEF Construct, vars
  <1>2. ProgressInv'
    BY <1>1, ProgressStep DEF KernelInv
  <1>3. ASSUME program # NoProgram PROVE FALSE
    <2>1. ~Pending
      BY <1>3 DEF KernelInv, Pending
    <2> QED
      BY <1>1, <2>1 DEF StratNext, Relax, NextPass, Judge, PassEnded
  <1> QED
    BY <1>1, <1>2, <1>3 DEF KernelInv, NoProgram

\* A call loads the program under the strata found.
LEMMA KernelCall == KernelInv /\ Call => KernelInv'
  <1> SUFFICES ASSUME KernelInv, Call PROVE KernelInv'
    OBVIOUS
  <1>1. /\ program = NoProgram /\ verdict = "accepted"
        /\ UNCHANGED <<added, stratum, cursor, start, changed, done>>
        /\ facts' = rulebase.base /\ provenance' = [f \in rulebase.base |-> FromBase]
        /\ program' = [source |-> rulebase.source, base |-> rulebase.base, rules |-> rulebase.rules,
                       stratum |-> [f \in Facts |-> StratumOf(f)]]
        /\ UNCHANGED <<rulebase, strata, pass, reading, raised, verdict>>
    BY DEF Call, stratVars
  <1>2. ProgressInv'
    <2>1. UNCHANGED stratVars
      BY DEF Call
    <2> QED
      BY <2>1, ProgressStep DEF KernelInv
  <1>3. IsLoaded'
    BY <1>1 DEF IsLoaded, StratumOf
  <1>4. IsProgram(program)'
    BY <1>2, <1>3, LoadedIsProgram, PTL
  <1>5. /\ added = <<>> /\ stratum = 0 /\ cursor = 0 /\ start = {} /\ changed = FALSE /\ done = FALSE
    BY <1>1 DEF KernelInv
  <1>6. IInv'
    <2>1. (/\ facts = program.base /\ provenance = [f \in program.base |-> FromBase]
           /\ added = <<>> /\ stratum = 0 /\ cursor = 0 /\ start = {} /\ changed = FALSE /\ done = FALSE)'
      BY <1>1, <1>5
    <2> QED
      BY <1>4, <2>1, InvStart, PTL
  <1>7. program' = NoProgram => facts' = {}
    BY <1>1 DEF NoProgram
  <1> QED
    BY <1>1, <1>2, <1>3, <1>5, <1>6, <1>7 DEF KernelInv

\* The closure runs on what was loaded.
LEMMA KernelSaturate == KernelInv /\ Saturate => KernelInv'
  <1> SUFFICES ASSUME KernelInv, Saturate PROVE KernelInv'
    OBVIOUS
  <1>1. program # NoProgram /\ Next /\ UNCHANGED stratVars
    BY DEF Saturate
  <1>2. ProgressInv' /\ IInv'
    BY <1>1, ProgressStep, InvStep DEF KernelInv
  <1>3. UNCHANGED <<program, rulebase, strata, verdict>>
    BY <1>1 DEF stratVars, Next, BeginSweep, Derive, NextRule, EndSweep
  <1>4. IsLoaded' /\ verdict' = "accepted"
    BY <1>1, <1>3 DEF KernelInv, IsLoaded, StratumOf
  <1>5. changed' \in BOOLEAN /\ done' \in BOOLEAN
    BY <1>2 DEF IInv, StateOK
  <1> QED
    BY <1>1, <1>2, <1>3, <1>4, <1>5 DEF KernelInv

\* The constructor's invariant and the closure's hold of the whole kernel.
THEOREM KernelInvariant == KernelSpec => []KernelInv
  <1>1. KernelInv /\ UNCHANGED kernelVars => KernelInv'
    <2> SUFFICES ASSUME KernelInv, UNCHANGED kernelVars PROVE KernelInv'
      OBVIOUS
    <2>1. UNCHANGED vars /\ UNCHANGED stratVars
      BY DEF kernelVars
    <2>2. /\ UNCHANGED <<program, facts, added, provenance, stratum, cursor, start, changed, done>>
          /\ UNCHANGED <<rulebase, strata, verdict>>
      BY <2>1 DEF vars, stratVars
    <2>3. ProgressInv'
      BY <2>1, ProgressStep DEF KernelInv
    <2>4. program # NoProgram => IInv'
      BY <2>1, InvStep DEF KernelInv
    <2> QED
      BY <2>2, <2>3, <2>4 DEF KernelInv, IsLoaded, StratumOf
  <1>2. KernelInv /\ [KernelNext]_kernelVars => KernelInv'
    BY <1>1, KernelConstruct, KernelCall, KernelSaturate DEF KernelNext
  <1> QED
    BY <1>2, KernelStart, PTL DEF KernelSpec

-----------------------------------------------------------------------------

\* The constructor never raises for a rule base that can be stratified, and the strata it
\* finds are a stratification.
THEOREM KernelAcceptsStratifiable == KernelSpec => []StratifiableIsStratified
  BY KernelRefinesStratification, StratifiableRuleBasesAreAccepted, PTL

\* Whatever rule base was accepted, proof() of every fact of the closure ends in base facts.
THEOREM KernelProofsAreWellFounded == KernelSpec => []ProvenanceWellFounded
  <1>1. KernelInv => ProvenanceWellFounded
    <2>1. KernelInv /\ program = NoProgram => ProvenanceWellFounded
      BY DEF KernelInv, NoProgram, ProvenanceWellFounded
    <2>2. KernelInv /\ program # NoProgram => ProvenanceWellFounded
      BY WellFounded DEF KernelInv
    <2> QED
      BY <2>1, <2>2
  <1> QED
    BY <1>1, KernelInvariant, PTL

\* The stratification that was found is one of the rules closure evaluates.
LEMMA StratifiableIsEvaluatedSo ==
  ASSUME KernelInv, program # NoProgram, Stratifications # {}
  PROVE  WellStratified(program)
  <1>1. Solves(strata) /\ ProgressInv /\ IsLoaded
    BY DEF KernelInv, ProgressInv, StratifiableIsStratified, Stratifications, Pending
  <1> QED
    BY <1>1, LoadedIsWellStratified

\* A kernel whose rules can be stratified never invalidates a derivation it has made.
THEOREM KernelDerivationsStayValid == KernelSpec => [](Stratifications # {} => NegationStaysValid)
  <1>1. KernelInv /\ program = NoProgram => NegationStaysValid
    BY DEF KernelInv, NegationStaysValid
  <1>2. KernelInv /\ program # NoProgram /\ Stratifications # {} => NegationStaysValid
    BY StratifiableIsEvaluatedSo, StaysValid DEF KernelInv
  <1>3. KernelInv => (Stratifications # {} => NegationStaysValid)
    BY <1>1, <1>2
  <1> QED
    BY <1>3, KernelInvariant, PTL

\* A kernel whose rules can be stratified returns their one stable model, whatever the
\* order of the rules, the order they fire in and the order matches come in.
THEOREM KernelReturnsTheStandardModel == KernelSpec => []ReturnsTheStandardModel
  <1>1. KernelInv => ReturnsTheStandardModel
    <2> SUFFICES ASSUME KernelInv, done, Stratifications # {}
                 PROVE  IsStable(facts) /\ \A model \in SUBSET Facts : IsStable(model) => model = facts
      BY DEF ReturnsTheStandardModel
    <2>1. program # NoProgram
      BY DEF KernelInv
    <2>2. IInv /\ WellStratified(program)
      BY <2>1, StratifiableIsEvaluatedSo DEF KernelInv
    <2> QED
      BY <2>2, StableResult DEF ReturnsTheStableModel
  <1> QED
    BY <1>1, KernelInvariant, PTL
=============================================================================
