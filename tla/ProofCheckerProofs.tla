------------------------- MODULE ProofCheckerProofs -------------------------
(* Theorems about check_proof, for every object graph, rule base and depth.  *)
(* An object is what a child or the argument of the call is; the node of a   *)
(* frame is such an object unwrapped.                                        *)
EXTENDS ProofChecker, SequenceTheorems, FiniteSetTheorems, WellFoundedInduction, TLAPS

-----------------------------------------------------------------------------
(* The inductive invariant.                                                *)

Kids(k) == heap[stack[k].node].children

\* How many children of frame k were verified: the last one fetched is still under
\* verification, or has failed, unless it is the latest to have answered.
Settled(k) == IF k = Len(stack) /\ goal = None /\ answer # "false"
              THEN stack[k].next - 1 ELSE stack[k].next - 2

\* The frames descend from Root to the goal, each through the child fetched last.
PathFromRoot ==
  /\ stack = <<>> => goal \in {Root, None}
  /\ stack # <<>> => stack[1].node = Unwrap(Root)
  /\ \A k \in DOMAIN stack : stack[k].next - 1 <= Len(Kids(k))
  /\ \A k \in DOMAIN stack : k < Len(stack) =>
       stack[k].next > 1 /\ stack[k + 1].node = Unwrap(Kids(k)[stack[k].next - 1])
  /\ goal # None /\ stack # <<>> =>
       Top.next > 1 /\ goal = Kids(Len(stack))[Top.next - 1]

\* No more frames than the depth allows.
Shallow == Len(stack) <= limit + 1

\* Pairs of an object and the frame it is a child of (0 for Root) that include those that
\* stand for "root" and what follows from their own.
Grown(S) ==
  /\ \A n \in Nodes, k \in 0..(limit + 1) : Marker(n) => <<n, k>> \in S
  /\ \A n, v \in Nodes, k \in 1..(limit + 1) :
       /\ v = Unwrap(n) /\ Justified(v)
       /\ heap[v].kind = "rule" => \A j \in DOMAIN heap[v].children : <<heap[v].children[j], k>> \in S
       => <<n, k - 1>> \in S

\* The verified children, and Root once it is verified, are among them.
HoldIn(S) ==
  /\ \A k \in DOMAIN stack : \A j \in 1..Settled(k) : <<Kids(k)[j], k>> \in S
  /\ Returned /\ answer = "true" => <<Root, 0>> \in S

\* What was verified lies in every such set.
VerifiedIsGrown == \A S \in SUBSET (Nodes \X Nat) : Grown(S) => HoldIn(S)

SafeStack == CheckTypeOK /\ PathFromRoot

IInv == SafeStack /\ Shallow /\ VerifiedIsGrown

-----------------------------------------------------------------------------
(* Types and the shape of the stack.                                       *)

LEMMA HeapFacts ==
  ASSUME CheckTypeOK
  PROVE  /\ \A n \in Nodes : heap[n].children \in Seq(Nodes) /\ Unwrap(n) \in Nodes
         /\ Len(stack) \in Nat /\ DOMAIN stack = 1..Len(stack)
         /\ \A k \in DOMAIN stack : /\ stack[k] \in Frame /\ stack[k].node \in Nodes 
                                    /\ stack[k].next \in Nat \ {0} /\ Kids(k) \in Seq(Nodes)
         /\ stack # <<>> => Len(stack) \in DOMAIN stack /\ Len(stack) >= 1
  <1>1. \A n \in Nodes : heap[n].children \in Seq(Nodes) /\ Unwrap(n) \in Nodes
    <2>1. \A n \in Nodes : /\ heap[n].children \in Seq(Nodes)
                           /\ heap[n].kind = "dict" => Len(heap[n].children) = 1
      BY HeapsAreObjects DEF CheckTypeOK
    <2>2. \A n \in Nodes : heap[n].kind = "dict" => heap[n].children[1] \in Nodes
      BY <2>1
    <2> QED
      BY <2>1, <2>2 DEF Unwrap
  <1>2. stack \in Seq(Frame)
    BY DEF CheckTypeOK
  <1>3. /\ Len(stack) \in Nat /\ DOMAIN stack = 1..Len(stack)
        /\ \A k \in DOMAIN stack : stack[k] \in Frame
    BY <1>2
  <1>4. stack # <<>> => Len(stack) \in DOMAIN stack /\ Len(stack) >= 1
    <2>1. stack # <<>> => Len(stack) # 0
      BY <1>2, EmptySeq
    <2> QED
      BY <1>3, <2>1
  <1> QED
    BY <1>1, <1>3, <1>4 DEF Kids, Frame

\* The stack before the call.
LEMMA StackInit == CheckInit => SafeStack
  <1> SUFFICES ASSUME CheckInit PROVE SafeStack
    OBVIOUS
  <1>1. <<>> \in Seq(Frame)
    OBVIOUS
  <1>2. CheckTypeOK
    BY <1>1, RootIsNode DEF CheckInit, CheckTypeOK
  <1>3. PathFromRoot
    BY RootIsNode DEF CheckInit, PathFromRoot
  <1> QED
    BY <1>2, <1>3 DEF SafeStack

LEMMA StackRefuse == SafeStack /\ Refuse => SafeStack'
  BY DEF SafeStack, Refuse, Return, CheckTypeOK, PathFromRoot, Kids, Top, Unwrap

LEMMA StackAccept == SafeStack /\ Accept => SafeStack'
  BY DEF SafeStack, Accept, Return, CheckTypeOK, PathFromRoot, Kids, Top, Unwrap

LEMMA StackOverflow == SafeStack /\ Overflow => SafeStack'
  <1> SUFFICES ASSUME SafeStack, Overflow PROVE SafeStack'
    OBVIOUS
  <1>1. /\ stack' = <<>> /\ active' = {} /\ goal' = None /\ answer' = "raised"
        /\ UNCHANGED <<heap, call, limit>>
    BY DEF Overflow
  <1>2. <<>> \in Seq(Frame)
    OBVIOUS
  <1>3. CheckTypeOK'
    BY <1>1, <1>2 DEF SafeStack, CheckTypeOK
  <1>4. PathFromRoot'
    BY <1>1 DEF PathFromRoot
  <1> QED
    BY <1>3, <1>4 DEF SafeStack

LEMMA StackEnter == SafeStack /\ Enter => SafeStack'
  <1> SUFFICES ASSUME SafeStack, Enter PROVE SafeStack'
    OBVIOUS
  <1>g. goal \in Nodes /\ goal # None
    BY DEF SafeStack, CheckTypeOK, Enter
  <1>h. PICK v \in Nodes : v = Unwrap(goal)
    BY <1>g, HeapFacts DEF SafeStack
  <1> DEFINE frame == [node |-> v, next |-> 1]
  <1>0. /\ stack' = Append(stack, frame) /\ goal' = None
        /\ answer' = "none" /\ active' = active \cup {v} /\ UNCHANGED <<heap, call, limit>>
        /\ frame \in Frame
        /\ stack \in Seq(Frame)
    BY <1>h DEF SafeStack, CheckTypeOK, Enter, Frame
  <1>1. CheckTypeOK'
    BY <1>0 DEF SafeStack, CheckTypeOK
  <1>2. /\ Len(stack') = Len(stack) + 1 /\ stack'[Len(stack) + 1] = frame
        /\ DOMAIN stack' = 1..(Len(stack) + 1) /\ Len(stack) \in Nat
        /\ \A k \in 1..Len(stack) : stack'[k] = stack[k]
    BY <1>0
  <1>3. PathFromRoot'
    <2>1. stack'[1].node = Unwrap(Root)
      <3>1. CASE stack = <<>>
        BY <1>0, <1>2, <1>g, <1>h, <3>1, RootIsNode DEF SafeStack, PathFromRoot
      <3>2. CASE stack # <<>>
        BY <1>0, <1>2, <3>2, HeapFacts DEF SafeStack, PathFromRoot
      <3> QED
        BY <3>1, <3>2
    <2>2. ASSUME NEW k \in 1..Len(stack)
          PROVE  /\ stack'[k].next - 1 <= Len(heap'[stack'[k].node].children)
                 /\ stack'[k].next > 1
                 /\ stack'[k + 1].node = Unwrap(heap[stack'[k].node].children[stack'[k].next - 1])
      <3>1. CASE k < Len(stack)
        <4>1. k + 1 \in 1..Len(stack) /\ stack'[k] = stack[k] /\ stack'[k + 1] = stack[k + 1]
          BY <1>2, <3>1
        <4>2. k \in DOMAIN stack
          BY <1>0
        <4> QED
          BY <1>0, <3>1, <4>1, <4>2 DEF SafeStack, PathFromRoot, Kids
      <3>2. CASE k = Len(stack)
        <4>1. stack # <<>>
          BY <1>2
        <4>2. /\ stack[k].next > 1 /\ goal = heap[stack[k].node].children[stack[k].next - 1]
              /\ stack[k].next - 1 <= Len(heap[stack[k].node].children)
          BY <1>0, <1>g, <1>2, <3>2, <4>1 DEF SafeStack, PathFromRoot, Kids, Top
        <4>3. stack'[k] = stack[k] /\ stack'[k + 1] = frame /\ frame.node = Unwrap(goal)
          BY <1>h, <1>2, <3>2
        <4> QED
          BY <1>0, <4>2, <4>3
      <3> QED
        BY <1>2, <3>1, <3>2
    <2>3. frame.next - 1 <= Len(heap[v].children) /\ frame.node = v
      BY <1>0, HeapFacts DEF SafeStack
    <2>4. stack' # <<>>
      BY <1>2
    <2>5. \A k \in 1..(Len(stack) + 1) : stack'[k].next - 1 <= Len(heap'[stack'[k].node].children)
      BY <1>0, <1>2, <2>2, <2>3
    <2>6. \A k \in 1..(Len(stack) + 1) : k < Len(stack') =>
            /\ stack'[k].next > 1
            /\ stack'[k + 1].node = Unwrap(heap[stack'[k].node].children[stack'[k].next - 1])
      BY <1>2, <2>2
    <2>7. (DOMAIN stack)' = 1..(Len(stack) + 1)
      BY <1>2
    <2> QED
      BY <1>0, <2>1, <2>4, <2>5, <2>6, <2>7 DEF PathFromRoot, Kids, Unwrap
  <1> QED
    BY <1>1, <1>3 DEF SafeStack

LEMMA StackDescend == SafeStack /\ Descend => SafeStack'
  <1> SUFFICES ASSUME SafeStack, Descend PROVE SafeStack'
    OBVIOUS
  <1>1. PICK n \in 1..Len(stack) : n = Len(stack)
    BY HeapFacts DEF SafeStack, Descend, Running
  <1>2. PICK frame \in Frame :
          frame = [node |-> stack[n].node, next |-> stack[n].next + 1]
    <2>1. stack[n].node \in Nodes /\ stack[n].next \in Nat \ {0}
      BY <1>1, HeapFacts DEF SafeStack
    <2>2. stack[n].next + 1 \in Nat \ {0}
      BY <2>1
    <2>3. [node |-> stack[n].node, next |-> stack[n].next + 1] \in Frame
      BY <2>1, <2>2 DEF Frame
    <2> QED
      BY <2>3
  <1>3. /\ n \in Nat \ {0} /\ DOMAIN stack = 1..n /\ stack[n].next \in Nat \ {0}
        /\ Kids(n) \in Seq(Nodes) /\ frame.node = stack[n].node /\ frame.next = stack[n].next + 1
    BY <1>1, <1>2, HeapFacts DEF SafeStack
  <1>4. /\ goal = None /\ stack # <<>> /\ stack[n].next <= Len(Kids(n))
        /\ goal' = Kids(n)[stack[n].next] /\ stack' = [stack EXCEPT ![n] = frame]
        /\ UNCHANGED <<heap, call, limit, active, answer>>
    <2>1. stack[n] \in Frame
      BY <1>1, HeapFacts DEF SafeStack
    <2>2. frame = [stack[n] EXCEPT !.next = stack[n].next + 1]
      BY <1>2, <2>1 DEF Frame
    <2> QED
      BY <1>1, <2>2 DEF Descend, Running, Remaining, Top, Kids
  <1>5. /\ stack' \in Seq(Frame) /\ Len(stack') = n
        /\ DOMAIN stack' = 1..n /\ stack'[n] = frame
        /\ \A k \in 1..n : k # n => stack'[k] = stack[k]
    BY <1>1, <1>3, <1>4 DEF SafeStack, CheckTypeOK
  <1>6. goal' \in Nodes
    BY <1>3, <1>4
  <1>7. CheckTypeOK'
    BY <1>4, <1>5, <1>6 DEF SafeStack, CheckTypeOK
  <1>8. PathFromRoot'
    <2>1. \A k \in 1..n : stack'[k].node = stack[k].node
      BY <1>3, <1>5
    <2>2. stack'[1].node = Unwrap(Root)
      BY <1>1, <1>4, <2>1 DEF SafeStack, PathFromRoot
    <2>3. ASSUME NEW k \in 1..n
          PROVE  /\ stack'[k].next - 1 <= Len(heap'[stack'[k].node].children)
                 /\ k < n => /\ stack'[k].next > 1
                             /\ stack'[k + 1].node =
                                  Unwrap(heap[stack'[k].node].children[stack'[k].next - 1])
      <3>1. CASE k < n
        <4>1. k + 1 \in 1..n /\ stack'[k] = stack[k]
          BY <1>3, <1>5, <3>1
        <4> QED
          BY <1>1, <1>3, <1>4, <2>1, <3>1, <4>1 DEF SafeStack, PathFromRoot, Kids
      <3>2. CASE k = n
        <4>1. stack'[k].next - 1 = stack[n].next
          BY <1>3, <1>5, <3>2
        <4> QED
          BY <1>3, <1>4, <2>1, <3>2, <4>1 DEF Kids
      <3> QED
        BY <1>3, <3>1, <3>2
    <2>4. stack'[n].next > 1 /\ goal' = heap'[stack'[n].node].children[stack'[n].next - 1]
      <3>1. stack'[n].next - 1 = stack[n].next
        BY <1>3, <1>5
      <3> QED
        BY <1>3, <1>4, <1>5, <2>1, <3>1 DEF Kids
    <2>5. stack' # <<>>
      BY <1>3, <1>5
    <2>6. (stack[1].node = Unwrap(Root))'
      BY <1>4, <2>2 DEF Unwrap
    <2>7. ASSUME NEW k \in 1..n
          PROVE  /\ (stack[k].next - 1 <= Len(Kids(k)))'
                 /\ k < n => (stack[k].next > 1 /\ stack[k + 1].node = Unwrap(Kids(k)[stack[k].next - 1]))'
      <3>1. heap' = heap
        BY <1>4
      <3>2. (stack[k].next - 1 <= Len(Kids(k)))'
        BY <2>3 DEF Kids
      <3>3. k < n => (stack[k].next > 1)'
        BY <2>3
      <3>4. ASSUME k < n PROVE (stack[k + 1].node = Unwrap(Kids(k)[stack[k].next - 1]))'
        <4>1. stack'[k + 1].node = Unwrap(heap[stack'[k].node].children[stack'[k].next - 1])
          BY <2>3, <3>4
        <4> QED
          BY <3>1, <4>1 DEF Kids, Unwrap
      <3> QED
        BY <3>2, <3>3, <3>4
    <2>8. (goal # None /\ stack # <<>> => Top.next > 1 /\ goal = Kids(Len(stack))[Top.next - 1])'
      BY <1>5, <2>4 DEF Kids, Top
    <2> QED
      BY <1>5, <2>5, <2>6, <2>7, <2>8 DEF PathFromRoot
  <1> QED
    BY <1>7, <1>8 DEF SafeStack

\* What Leave does to the stack.
LEMMA LeaveFacts ==
  ASSUME SafeStack, Running, Leave
  PROVE  \E n \in Nat \ {0} :
           /\ n = Len(stack) /\ DOMAIN stack = 1..n /\ DOMAIN stack' = 1..(n - 1)
           /\ stack' \in Seq(Frame) /\ Len(stack') = n - 1
           /\ \A k \in 1..(n - 1) : stack'[k] = stack[k]
           /\ goal = None /\ goal' = None /\ active' \subseteq active
           /\ UNCHANGED <<heap, call, limit>>
  <1>1. PICK n \in Nat \ {0} : n = Len(stack) /\ DOMAIN stack = 1..n
    <2>1. /\ Len(stack) \in Nat /\ Len(stack) >= 1 /\ DOMAIN stack = 1..Len(stack)
      BY HeapFacts DEF SafeStack, Running
    <2>2. Len(stack) \in Nat \ {0}
      BY <2>1
    <2> QED
      BY <2>1, <2>2
  <1>2. stack \in Seq(Frame) /\ stack' = SubSeq(stack, 1, n - 1)
    BY <1>1 DEF SafeStack, CheckTypeOK, Leave
  <1>3. /\ stack' \in Seq(Frame) /\ Len(stack') = n - 1
        /\ \A k \in 1..(n - 1) : stack'[k] = stack[k]
    BY <1>1, <1>2
  <1> QED
    BY <1>1, <1>3 DEF Leave, Running

\* Leaving a node removes it from the path.
LEMMA StackLeave ==
  ASSUME SafeStack, Running, Leave, answer' \in {"true", "false"}
  PROVE  SafeStack'
  <1>1. PICK n \in Nat \ {0} :
           /\ n = Len(stack) /\ DOMAIN stack = 1..n /\ DOMAIN stack' = 1..(n - 1)
           /\ stack' \in Seq(Frame) /\ Len(stack') = n - 1
           /\ \A k \in 1..(n - 1) : stack'[k] = stack[k]
           /\ goal = None /\ goal' = None /\ active' \subseteq active
           /\ UNCHANGED <<heap, call, limit>>
    BY LeaveFacts
  <1>2. CheckTypeOK'
    BY <1>1 DEF SafeStack, CheckTypeOK
  <1>3. PathFromRoot'
    <2>1. stack' # <<>> => stack'[1].node = Unwrap(Root)
      <3>1. CASE n = 1
        <4>1. Len(stack') = 0
          BY <1>1, <3>1
        <4> QED
          BY <1>1, <4>1, EmptySeq
      <3>2. CASE n # 1
        <4>1. stack # <<>> /\ stack'[1] = stack[1]
          BY <1>1, <3>2 DEF Running
        <4> QED
          BY <4>1 DEF SafeStack, PathFromRoot
      <3> QED
        BY <3>1, <3>2
    <2>2. ASSUME NEW k \in 1..(n - 1)
          PROVE  /\ stack'[k].next - 1 <= Len(heap'[stack'[k].node].children)
                 /\ k < Len(stack') =>
                      /\ stack'[k].next > 1
                      /\ stack'[k + 1].node =
                           Unwrap(heap[stack'[k].node].children[stack'[k].next - 1])
      <3>1. k \in DOMAIN stack /\ k < Len(stack) /\ stack'[k] = stack[k]
        BY <1>1
      <3>2. k < Len(stack') => stack'[k + 1] = stack[k + 1]
        BY <1>1
      <3> QED
        BY <1>1, <3>1, <3>2 DEF SafeStack, PathFromRoot, Kids
    <2> QED
      BY <1>1, <2>1, <2>2 DEF PathFromRoot, Kids, Unwrap
  <1> QED
    BY <1>2, <1>3 DEF SafeStack

\* Every step keeps the stack a path in the heap.
LEMMA StackNext == SafeStack /\ [CheckNext]_checkVars => SafeStack'
  <1> SUFFICES ASSUME SafeStack, [CheckNext]_checkVars PROVE SafeStack'
    OBVIOUS
  <1>1. CASE Fail \/ Conclude
    BY <1>1, StackLeave DEF Fail, Conclude, Return
  <1>2. CASE UNCHANGED checkVars
    BY <1>2 DEF checkVars, SafeStack, CheckTypeOK, PathFromRoot, Kids, Top, Unwrap
  <1> QED
    BY <1>1, <1>2, StackAccept, StackRefuse, StackEnter, StackDescend, StackOverflow DEF CheckNext

-----------------------------------------------------------------------------
(* What was verified.                                                      *)

\* Nothing was verified yet.
LEMMA HoldInit == ASSUME CheckInit, NEW S PROVE HoldIn(S)
  BY RootIsNode DEF CheckInit, HoldIn, Returned

LEMMA HoldRefuse ==
  ASSUME SafeStack, NEW S, HoldIn(S), Refuse
  PROVE  HoldIn(S)'
  BY DEF Refuse, Return, HoldIn, Returned, Settled, Kids

\* "root" is verified wherever it stands.
LEMMA HoldAccept ==
  ASSUME SafeStack, NEW S, HoldIn(S), Shallow, Grown(S), Accept
  PROVE  HoldIn(S)'
  <1>1. PICK n \in Nat : n = Len(stack) /\ DOMAIN stack = 1..n
    BY HeapFacts DEF SafeStack
  <1>2. /\ goal \in Nodes /\ goal # None /\ Marker(goal) /\ goal' = None /\ answer' = "true"
        /\ UNCHANGED <<heap, stack>>
    BY DEF Accept, Return, SafeStack, CheckTypeOK
  <1>3. n \in 0..(limit + 1) /\ <<goal, n>> \in S
    <2>1. n \in 0..(limit + 1)
      BY <1>1, LimitsAreDepths DEF Shallow, SafeStack, CheckTypeOK
    <2> QED
      BY <1>2, <2>1 DEF Grown
  <1>4. ASSUME NEW k \in 1..n, NEW j \in 1..(Settled(k))'
        PROVE  <<(Kids(k))'[j], k>> \in S
    <2>1. (Kids(k))' = Kids(k) /\ stack[k].next \in Nat
      BY <1>1, <1>2, HeapFacts DEF Kids, SafeStack
    <2>2. CASE j \in 1..(stack[k].next - 2)
      BY <1>1, <1>2, <2>1, <2>2 DEF HoldIn, Settled
    <2>3. CASE j \notin 1..(stack[k].next - 2)
      <3>1. k = n /\ j = stack[k].next - 1
        BY <1>1, <1>2, <1>4, <2>1, <2>3 DEF Settled
      <3>2. stack # <<>>
        BY <1>1, <1>4
      <3>3. goal = Kids(n)[stack[n].next - 1]
        BY <1>1, <1>2, <3>2 DEF SafeStack, PathFromRoot, Top
      <3> QED
        BY <1>3, <2>1, <3>1, <3>3
    <2> QED
      BY <2>2, <2>3
  <1>5. Returned' => <<Root, 0>> \in S
    <2>1. SUFFICES ASSUME stack = <<>> PROVE <<Root, 0>> \in S
      BY <1>2 DEF Returned
    <2>2. goal = Root /\ n = 0
      BY <1>1, <1>2, <2>1 DEF SafeStack, PathFromRoot
    <2> QED
      BY <1>3, <2>2
  <1> QED
    BY <1>1, <1>2, <1>4, <1>5 DEF HoldIn

LEMMA HoldOverflow ==
  ASSUME NEW S, Overflow
  PROVE  HoldIn(S)'
  BY DEF Overflow, HoldIn

LEMMA HoldEnter ==
  ASSUME SafeStack, NEW S, HoldIn(S), Enter
  PROVE  HoldIn(S)'
  <1>1. PICK n \in Nat : n = Len(stack) /\ DOMAIN stack = 1..n
    BY HeapFacts DEF SafeStack
  <1>v. PICK v \in Nodes : v = Unwrap(goal)
    BY HeapFacts DEF SafeStack, CheckTypeOK, Enter
  <1>2. /\ stack' = Append(stack, [node |-> v, next |-> 1]) /\ goal # None /\ goal' = None
        /\ answer' = "none" /\ UNCHANGED heap /\ stack \in Seq(Frame) /\ goal \in Nodes
    BY <1>v DEF Enter, SafeStack, CheckTypeOK
  <1>3. [node |-> v, next |-> 1] \in Frame
    BY <1>2 DEF Frame
  <1>4. /\ Len(stack') = n + 1 /\ DOMAIN stack' = 1..(n + 1)
        /\ stack'[n + 1] = [node |-> v, next |-> 1]
        /\ \A k \in 1..n : stack'[k] = stack[k]
    BY <1>1, <1>2, <1>3
  <1>5. ASSUME NEW k \in 1..n, NEW j \in 1..(stack[k].next - 2)
        PROVE  <<Kids(k)[j], k>> \in S
    BY <1>1, <1>2, <1>5 DEF HoldIn, Settled
  <1>6. \A k \in 1..n : Settled(k)' = stack[k].next - 2 /\ Kids(k)' = Kids(k)
    BY <1>1, <1>2, <1>4 DEF Settled, Kids
  <1>7. stack'[n + 1].next - 1 = 0
    BY <1>4
  <1> QED
    BY <1>1, <1>2, <1>4, <1>5, <1>6, <1>7 DEF HoldIn, Settled, Returned

LEMMA HoldDescend ==
  ASSUME SafeStack, NEW S, HoldIn(S), Descend
  PROVE  HoldIn(S)'
  <1>1. PICK n \in Nat \ {0} : n = Len(stack) /\ DOMAIN stack = 1..n
    <2>1. /\ Len(stack) \in Nat /\ Len(stack) >= 1 /\ DOMAIN stack = 1..Len(stack)
      BY HeapFacts DEF SafeStack, Descend, Running
    <2>2. Len(stack) \in Nat \ {0}
      BY <2>1
    <2> QED
      BY <2>1, <2>2
  <1>2. SafeStack'
    BY StackDescend
  <1>3. /\ goal = None /\ answer # "false" /\ UNCHANGED heap
        /\ stack' = [stack EXCEPT ![n].next = @ + 1] /\ stack[n].next <= Len(Kids(n))
        /\ goal' = Kids(n)[stack[n].next] /\ stack \in Seq(Frame) /\ stack[n] \in Frame
        /\ Kids(n) \in Seq(Nodes) /\ stack[n].next \in Nat \ {0}
    BY <1>1, HeapFacts DEF Descend, Running, Remaining, Top, Kids, SafeStack, CheckTypeOK
  <1>4. goal' # None
    BY <1>3, RootIsNode
  <1>5. /\ DOMAIN stack' = 1..n /\ Len(stack') = n
        /\ \A k \in 1..n : k # n => stack'[k] = stack[k]
        /\ stack'[n].node = stack[n].node /\ stack'[n].next = stack[n].next + 1
    BY <1>1, <1>3 DEF Frame
  <1>6. ASSUME NEW k \in 1..n
        PROVE  Kids(k)' = Kids(k) /\ Settled(k)' = Settled(k)
    <2>1. CASE k = n
      BY <1>1, <1>3, <1>4, <1>5, <2>1 DEF Settled, Kids
    <2>2. CASE k # n
      BY <1>1, <1>3, <1>4, <1>5, <2>2 DEF Settled, Kids
    <2> QED
      BY <2>1, <2>2
  <1> QED
    BY <1>1, <1>3, <1>4, <1>5, <1>6 DEF HoldIn, Returned

LEMMA HoldFail ==
  ASSUME SafeStack, NEW S, HoldIn(S), Running, Leave, answer' = "false"
  PROVE  HoldIn(S)'
  <1>1. PICK n \in Nat \ {0} :
           /\ n = Len(stack) /\ DOMAIN stack = 1..n /\ DOMAIN stack' = 1..(n - 1)
           /\ stack' \in Seq(Frame) /\ Len(stack') = n - 1
           /\ \A k \in 1..(n - 1) : stack'[k] = stack[k]
           /\ goal = None /\ goal' = None /\ active' \subseteq active
           /\ UNCHANGED <<heap, call, limit>>
    BY LeaveFacts
  <1>2. ASSUME NEW k \in 1..(n - 1)
        PROVE  Kids(k)' = Kids(k) /\ Settled(k)' = Settled(k)
    BY <1>1 DEF Settled, Kids
  <1> QED
    BY <1>1, <1>2 DEF HoldIn

\* A node that concludes is an instance of a rule whose premises hold.
LEMMA HoldConclude ==
  ASSUME SafeStack, NEW S, HoldIn(S), Shallow, Grown(S), Conclude
  PROVE  HoldIn(S)'
  <1>1. PICK n \in Nat \ {0} :
           /\ n = Len(stack) /\ DOMAIN stack = 1..n /\ DOMAIN stack' = 1..(n - 1)
           /\ stack' \in Seq(Frame) /\ Len(stack') = n - 1
           /\ \A k \in 1..(n - 1) : stack'[k] = stack[k]
           /\ goal = None /\ goal' = None /\ active' \subseteq active
           /\ UNCHANGED <<heap, call, limit>>
    BY LeaveFacts DEF Conclude
  <1>2. CASE ~Justified(Top.node)
    BY <1>2, HoldFail DEF Conclude, Return
  <1>3. CASE Justified(Top.node)
    <2>1. PICK v \in Nodes : v = stack[n].node
      BY <1>1, HeapFacts DEF SafeStack
    <2>2. /\ Kids(n) = heap[v].children /\ Kids(n) \in Seq(Nodes)
          /\ DOMAIN Kids(n) = 1..Len(Kids(n)) /\ Len(Kids(n)) \in Nat
      BY <2>1, <1>1, HeapFacts DEF SafeStack, Kids
    <2>3. heap[v].kind = "rule" => \A j \in DOMAIN Kids(n) : <<Kids(n)[j], n>> \in S
      <3>1. SUFFICES ASSUME heap[v].kind = "rule", NEW j \in DOMAIN Kids(n)
                     PROVE  <<Kids(n)[j], n>> \in S
        OBVIOUS
      <3>2. stack[n].next > Len(Kids(n)) /\ stack[n].next \in Nat
        BY <1>1, <2>1, <2>2, <3>1, HeapFacts DEF Conclude, Remaining, Top, SafeStack
      <3>3. j \in 1..Settled(n)
        BY <1>1, <2>2, <3>2 DEF Settled, Conclude
      <3> QED
        BY <1>1, <3>3 DEF HoldIn
    <2>4. ASSUME NEW o \in Nodes, Unwrap(o) = v PROVE <<o, n - 1>> \in S
      <3>1. n \in 1..(limit + 1)
        BY <1>1 DEF Shallow
      <3>2. Justified(v)
        BY <1>1, <1>3, <2>1 DEF Top
      <3> QED
        BY <2>2, <2>3, <2>4, <3>1, <3>2 DEF Grown
    <2>5. answer' = "true"
      BY <1>3 DEF Conclude, Return
    <2>6. ASSUME NEW k \in 1..(n - 1), NEW j \in 1..(Settled(k))'
          PROVE  <<(Kids(k))'[j], k>> \in S
      <3>1. /\ k \in DOMAIN stack /\ k < Len(stack) /\ (Kids(k))' = Kids(k)
            /\ stack[k].next \in Nat /\ k + 1 \in 1..n /\ stack'[k] = stack[k]
        <4>1. k \in DOMAIN stack /\ k < Len(stack) /\ k + 1 \in 1..n /\ stack'[k] = stack[k]
          BY <1>1
        <4>2. stack[k].next \in Nat
          BY <4>1, HeapFacts DEF SafeStack
        <4>3. (Kids(k))' = Kids(k)
          BY <1>1, <4>1 DEF Kids
        <4> QED
          BY <4>1, <4>2, <4>3
      <3>2. CASE j \in 1..(stack[k].next - 2)
        <4>1. j \in 1..Settled(k)
          BY <1>1, <3>2 DEF Settled
        <4> QED
          BY <1>1, <3>1, <4>1 DEF HoldIn
      <3>3. CASE j \notin 1..(stack[k].next - 2)
        <4>1. k = n - 1 /\ j = stack[k].next - 1
          <5>1. (Settled(k))' = IF k = Len(stack') THEN stack[k].next - 1 ELSE stack[k].next - 2
            BY <1>1, <2>5, <3>1 DEF Settled
          <5>2. Len(stack') = n - 1
            BY <1>1
          <5>3. k = n - 1
            BY <2>6, <3>1, <3>3, <5>1, <5>2
          <5> QED
            BY <2>6, <3>1, <3>3, <5>1, <5>2, <5>3
        <4>2. /\ stack[k + 1].node = Unwrap(Kids(k)[stack[k].next - 1])
              /\ stack[k].next > 1 /\ stack[k].next - 1 <= Len(Kids(k))
          BY <3>1 DEF SafeStack, PathFromRoot
        <4>3. n = k + 1
          BY <1>1, <4>1
        <4>4. PICK o \in Nodes : o = Kids(k)[j]
          <5>1. Kids(k) \in Seq(Nodes)
            BY <3>1, HeapFacts DEF SafeStack
          <5>2. j \in Nat /\ j >= 1 /\ j <= Len(Kids(k))
            BY <3>1, <4>1, <4>2
          <5> QED
            BY <5>1, <5>2
        <4>5. Unwrap(o) = v
          BY <2>1, <4>1, <4>2, <4>3, <4>4
        <4>6. <<o, n - 1>> \in S
          BY <2>4, <4>5
        <4> QED
          BY <3>1, <4>1, <4>4, <4>6
      <3> QED
        BY <3>2, <3>3
    <2>7. Returned' => <<Root, 0>> \in S
      <3>1. SUFFICES ASSUME stack' = <<>> PROVE <<Root, 0>> \in S
        BY DEF Returned
      <3>2. n = 1
        <4>1. Len(stack') = 0
          BY <3>1
        <4>2. Len(stack') = n - 1
          BY <1>1
        <4> QED
          BY <4>1, <4>2
      <3>3. v = Unwrap(Root)
        BY <2>1, <3>2 DEF Conclude, Running, SafeStack, PathFromRoot
      <3>4. n - 1 = 0
        BY <3>2
      <3> QED
        BY <2>4, <3>3, <3>4, RootIsNode
    <2> QED
      BY <1>1, <2>6, <2>7 DEF HoldIn
  <1> QED
    BY <1>2, <1>3

\* The depth is checked before a node is entered.
LEMMA ShallowNext == SafeStack /\ Shallow /\ [CheckNext]_checkVars => Shallow'
  <1> SUFFICES ASSUME SafeStack, Shallow, [CheckNext]_checkVars PROVE Shallow'
    OBVIOUS
  <1>0. limit \in Nat /\ Len(stack) \in Nat /\ stack \in Seq(Frame)
    BY LimitsAreDepths, HeapFacts DEF SafeStack, CheckTypeOK
  <1>1. CASE Enter
    <2>1. Len(stack') = Len(stack) + 1
      BY <1>0, <1>1 DEF Enter
    <2> QED
      BY <1>0, <1>1, <2>1 DEF Enter, Admits, Shallow
  <1>2. CASE Descend
    <2>1. Len(stack') = Len(stack)
      BY <1>0, <1>2, HeapFacts DEF Descend, Running, SafeStack
    <2> QED
      BY <1>2, <2>1 DEF Descend, Shallow
  <1>3. CASE Fail \/ Conclude
    <2>1. Running /\ Leave
      BY <1>3 DEF Fail, Conclude
    <2>2. PICK n \in Nat \ {0} : n = Len(stack) /\ Len(stack') = n - 1 /\ UNCHANGED limit
      BY <2>1, LeaveFacts
    <2> QED
      BY <1>0, <2>2 DEF Shallow
  <1>4. CASE Overflow
    <2>1. Len(stack') = 0 /\ limit' = limit
      BY <1>4 DEF Overflow
    <2> QED
      BY <1>0, <2>1 DEF Shallow
  <1>5. CASE Accept \/ Refuse \/ UNCHANGED checkVars
    BY <1>5 DEF Accept, Refuse, checkVars, Shallow
  <1> QED
    BY <1>1, <1>2, <1>3, <1>4, <1>5 DEF CheckNext

\* The arguments of the call stay what they are.
LEMMA Fixed == [CheckNext]_checkVars => UNCHANGED <<heap, call, limit>>
  BY DEF CheckNext, Accept, Refuse, Enter, Descend, Fail, Conclude, Leave, Overflow, checkVars

LEMMA InvInit == CheckInit => IInv
  <1> SUFFICES ASSUME CheckInit PROVE IInv
    OBVIOUS
  <1>1. SafeStack
    BY StackInit
  <1>2. Shallow
    <2>1. Len(stack) = 0 /\ limit \in Nat
      BY LimitsAreDepths DEF CheckInit
    <2> QED
      BY <2>1 DEF Shallow
  <1> QED
    BY <1>1, <1>2, HoldInit DEF IInv, VerifiedIsGrown

\* Every step keeps the invariant.
LEMMA InvNext == IInv /\ [CheckNext]_checkVars => IInv'
  <1> SUFFICES ASSUME IInv, [CheckNext]_checkVars PROVE IInv'
    OBVIOUS
  <1>1. SafeStack /\ SafeStack' /\ Shallow /\ Shallow'
    BY StackNext, ShallowNext DEF IInv
  <1>2. ASSUME NEW S \in SUBSET (Nodes \X Nat), Grown(S)' PROVE HoldIn(S)'
    <2>1. Grown(S)
      <3>1. UNCHANGED <<heap, call, limit>>
        BY Fixed
      <3>2. \A n, v : (v = Unwrap(n))' <=> v = Unwrap(n)
        BY <3>1 DEF Unwrap
      <3>3. \A n : Marker(n)' <=> Marker(n)
        BY <3>1 DEF Marker, Unwrap
      <3>4. \A n : Justified(n)' <=> Justified(n)
        BY <3>1 DEF Justified, PremisesOf, Licensed
      <3> QED
        BY <1>2, <3>1, <3>2, <3>3, <3>4 DEF Grown
    <2>2. HoldIn(S)
      BY <2>1 DEF IInv, VerifiedIsGrown
    <2>3. CASE UNCHANGED checkVars
      BY <2>2, <2>3 DEF checkVars, HoldIn, Settled, Kids, Returned
    <2>4. CASE Fail
      BY <1>1, <2>2, <2>4, HoldFail DEF Fail
    <2> QED
      BY <1>1, <2>1, <2>2, <2>3, <2>4, HoldAccept, HoldRefuse, HoldEnter,
         HoldDescend, HoldConclude, HoldOverflow DEF CheckNext
  <1> QED
    BY <1>1, <1>2 DEF IInv, VerifiedIsGrown

\* The invariant holds in every reachable state.
THEOREM Inductive == CheckSpec => []IInv
  BY InvInit, InvNext, PTL DEF CheckSpec

-----------------------------------------------------------------------------
(* Soundness, of the rules in force that the checker reads as closure does. *)

\* A node that is justified by children whose facts lie in a model lies in it too.
LEMMA JustifiedIsInModel ==
  ASSUME CheckTypeOK, ReadersAgree, NEW M, Model(M), NEW n \in Nodes, Justified(n),
         heap[n].kind = "rule" => \A j \in DOMAIN heap[n].children :
           heap[heap[n].children[j]].fact # None => heap[heap[n].children[j]].fact \in M
  PROVE  heap[n].fact \in M
  <1>1. CASE heap[n].kind = "base" /\ heap[n].fact \in call.base
    BY <1>1 DEF Model
  <1>2. CASE /\ heap[n].kind = "rule" /\ Licensed(heap[n].rule)
             /\ [rule |-> heap[n].rule, premises |-> PremisesOf(n), fact |-> heap[n].fact] \in Checked
    <2> DEFINE s == [rule |-> heap[n].rule, premises |-> PremisesOf(n), fact |-> heap[n].fact]
    <2>1. s \in Checked /\ Licensed(s.rule) /\ s \in Fired
      BY <1>2 DEF ReadersAgree
    <2>2. \A k \in DOMAIN s.premises : s.premises[k] # None
      BY <2>1, CheckedReadsFacts
    <2>3. \A k \in DOMAIN s.premises : s.premises[k] \in M
      BY <1>2, <2>2 DEF PremisesOf
    <2>4. s.fact \in M
      BY <2>1, <2>3 DEF Model
    <2> QED
      BY <2>4
  <1> QED
    BY <1>1, <1>2 DEF Justified

\* A verified root's fact is a consequence.
LEMMA AcceptedIsInModel ==
  ASSUME IInv, ReadersAgree, NEW M \in SUBSET Statements, Model(M), Claims \subseteq M,
         Accepted, ~Marker(Root)
  PROVE  Conclusion \in M
  <1> DEFINE S == {p \in Nodes \X Nat : Marker(p[1]) \/ heap[Unwrap(p[1])].fact \in M}
  <1>0. CheckTypeOK /\ limit \in Nat
    BY LimitsAreDepths DEF IInv, SafeStack, CheckTypeOK
  <1>1. ASSUME NEW n \in Nodes, NEW v \in Nodes, NEW k \in 1..(limit + 1), v = Unwrap(n), Justified(v),
               heap[v].kind = "rule" =>
                 \A j \in DOMAIN heap[v].children : <<heap[v].children[j], k>> \in S
        PROVE  <<n, k - 1>> \in S
    <2>1. k - 1 \in Nat
      OBVIOUS
    <2>3. ASSUME heap[v].kind = "rule", NEW j \in DOMAIN heap[v].children,
                 heap[heap[v].children[j]].fact # None
          PROVE  heap[heap[v].children[j]].fact \in M
      <3>1. PICK c \in Nodes : c = heap[v].children[j]
        BY <1>0, HeapFacts
      <3>2. Marker(c) \/ heap[Unwrap(c)].fact \in M
        BY <1>1, <2>3, <3>1
      <3>3. CASE heap[c].kind \in {"root", "dict"}
        <4>1. heap[c].fact \in Statements
          BY <1>0, <2>3, <3>1, HeapsAreObjects DEF CheckTypeOK
        <4>2. heap[c].fact \in Claims
          BY <2>3, <3>1, <3>3, <4>1 DEF Claims
        <4> QED
          BY <3>1, <4>2
      <3>4. CASE heap[c].kind \notin {"root", "dict"}
        BY <3>1, <3>2, <3>4 DEF Marker, Unwrap
      <3> QED
        BY <3>3, <3>4
    <2>4. heap[v].fact \in M
      BY <1>0, <1>1, <2>3, JustifiedIsInModel
    <2> QED
      BY <1>1, <2>1, <2>4
  <1>2. Grown(S)
    <2>1. ASSUME NEW n \in Nodes, NEW k \in 0..(limit + 1), Marker(n) PROVE <<n, k>> \in S
      BY <1>0, <2>1
    <2> HIDE DEF S
    <2> QED
      BY <1>1, <2>1 DEF Grown
  <1>3. HoldIn(S)
    <2>1. S \in SUBSET (Nodes \X Nat)
      OBVIOUS
    <2> HIDE DEF S
    <2> QED
      BY <1>2, <2>1 DEF IInv, VerifiedIsGrown
  <1>4. <<Root, 0>> \in S
    BY <1>3 DEF HoldIn, Accepted
  <1> QED
    BY <1>4 DEF Conclusion

-----------------------------------------------------------------------------
(* The identities under verification are those on the stack.               *)

LEMMA PathInit == CheckInit => ActiveIsThePath
  BY DEF CheckInit, ActiveIsThePath

LEMMA PathEnter == SafeStack /\ ActiveIsThePath /\ Enter => ActiveIsThePath'
  <1> SUFFICES ASSUME SafeStack, ActiveIsThePath, Enter PROVE ActiveIsThePath'
    OBVIOUS
  <1>1. PICK n \in Nat : n = Len(stack) /\ DOMAIN stack = 1..n
    BY HeapFacts DEF SafeStack
  <1>v. PICK v \in Nodes : v = Unwrap(goal)
    BY HeapFacts DEF SafeStack, CheckTypeOK, Enter
  <1>2. /\ stack' = Append(stack, [node |-> v, next |-> 1]) /\ v \notin active
        /\ active' = active \cup {v} /\ stack \in Seq(Frame)
    BY <1>v DEF Enter, Admits, SafeStack, CheckTypeOK
  <1>3. /\ DOMAIN stack' = 1..(n + 1) /\ stack'[n + 1].node = v
        /\ \A k \in 1..n : stack'[k] = stack[k]
    BY <1>1, <1>2
  <1>4. \A k \in 1..n : stack[k].node \in active
    BY <1>1 DEF ActiveIsThePath
  <1>5. \A j, k \in 1..(n + 1) : stack'[j].node = stack'[k].node => j = k
    <2>1. \A j, k \in 1..n : stack[j].node = stack[k].node => j = k
      BY <1>1 DEF ActiveIsThePath
    <2>2. \A k \in 1..(n + 1) : k \in 1..n \/ k = n + 1
      OBVIOUS
    <2> QED
      BY <1>2, <1>3, <1>4, <2>1, <2>2
  <1>6. active' = {stack'[k].node : k \in 1..(n + 1)}
    <2>1. active = {stack[k].node : k \in 1..n}
      BY <1>1 DEF ActiveIsThePath
    <2>2. \A k \in 1..(n + 1) : k \in 1..n \/ k = n + 1
      OBVIOUS
    <2>3. n + 1 \in 1..(n + 1) /\ 1..n \subseteq 1..(n + 1)
      OBVIOUS
    <2> QED
      BY <1>2, <1>3, <2>1, <2>2, <2>3
  <1> QED
    BY <1>3, <1>5, <1>6 DEF ActiveIsThePath

LEMMA PathDescend == SafeStack /\ ActiveIsThePath /\ Descend => ActiveIsThePath'
  <1> SUFFICES ASSUME SafeStack, ActiveIsThePath, Descend PROVE ActiveIsThePath'
    OBVIOUS
  <1>1. /\ Len(stack) \in DOMAIN stack /\ stack[Len(stack)] \in Frame
        /\ stack' = [stack EXCEPT ![Len(stack)].next = @ + 1] /\ active' = active
        /\ stack \in Seq(Frame)
    BY HeapFacts DEF Descend, Running, SafeStack, CheckTypeOK
  <1>2. /\ DOMAIN stack' = DOMAIN stack
        /\ \A k \in DOMAIN stack : stack'[k].node = stack[k].node
    BY <1>1 DEF Frame
  <1> QED
    BY <1>1, <1>2 DEF ActiveIsThePath

\* The active set loses the node that is left.
LEMMA PathLeave ==
  ASSUME SafeStack, ActiveIsThePath, Running, Leave
  PROVE  ActiveIsThePath'
  <1>1. PICK n \in Nat \ {0} :
           /\ n = Len(stack) /\ DOMAIN stack = 1..n /\ DOMAIN stack' = 1..(n - 1)
           /\ stack' \in Seq(Frame) /\ Len(stack') = n - 1
           /\ \A k \in 1..(n - 1) : stack'[k] = stack[k]
           /\ goal = None /\ goal' = None /\ active' \subseteq active
           /\ UNCHANGED <<heap, call, limit>>
    BY LeaveFacts
  <1>2. active' = active \ {stack[n].node}
    BY <1>1 DEF Leave, Top
  <1>3. /\ active = {stack[k].node : k \in 1..n}
        /\ \A j, k \in 1..n : stack[j].node = stack[k].node => j = k
    BY <1>1 DEF ActiveIsThePath
  <1>4. \A k \in 1..n : k \in 1..(n - 1) \/ k = n
    BY <1>1
  <1>5. n \in 1..n /\ n \notin 1..(n - 1) /\ 1..(n - 1) \subseteq 1..n
    BY <1>1
  <1>6. active' = {stack[k].node : k \in 1..(n - 1)}
    <2> DEFINE node(k) == stack[k].node
    <2>1. /\ active' = active \ {node(n)} /\ active = {node(k) : k \in 1..n}
          /\ \A j, k \in 1..n : node(j) = node(k) => j = k
      BY <1>2, <1>3
    <2> HIDE DEF node
    <2>2. active' = {node(k) : k \in 1..(n - 1)}
      BY <1>4, <1>5, <2>1
    <2> QED
      BY <2>2 DEF node
  <1> QED
    BY <1>1, <1>3, <1>5, <1>6 DEF ActiveIsThePath

\* Every step keeps the active set on the path.
LEMMA PathNext == SafeStack /\ ActiveIsThePath /\ [CheckNext]_checkVars => ActiveIsThePath'
  <1> SUFFICES ASSUME SafeStack, ActiveIsThePath, [CheckNext]_checkVars PROVE ActiveIsThePath'
    OBVIOUS
  <1>1. CASE Accept \/ Refuse \/ UNCHANGED checkVars
    BY <1>1 DEF Accept, Refuse, checkVars, ActiveIsThePath
  <1>2. CASE Fail \/ Conclude
    BY <1>2, PathLeave DEF Fail, Conclude
  <1>3. CASE Overflow
    BY <1>3 DEF Overflow, ActiveIsThePath
  <1> QED
    BY <1>1, <1>2, <1>3, PathEnter, PathDescend DEF CheckNext

-----------------------------------------------------------------------------
(* Trees of correct inferences.                                            *)

\* A set of natural numbers that is not empty has a least element.
LEMMA LeastNatural ==
  ASSUME NEW S \in SUBSET Nat, S # {}
  PROVE  \E m \in S : \A n \in S : m <= n
  <1> DEFINE Below(m) == 1..m
             Segments == {Below(m) : m \in S}
  <1>1. Segments \subseteq FiniteSubsetsOf(Nat) /\ Segments # {}
    <2>1. ASSUME NEW m \in S PROVE Below(m) \in FiniteSubsetsOf(Nat)
      <3>1. IsFiniteSet(1..m)
        BY FS_Interval
      <3>2. 1..m \subseteq Nat
        OBVIOUS
      <3> QED
        BY <3>1, <3>2 DEF FiniteSubsetsOf
    <2> QED
      BY <2>1
  <1>2. PICK T \in Segments : \A U \in Segments : <<U, T>> \notin StrictSubsetOrdering(Nat)
    <2> HIDE DEF Segments
    <2> QED
      BY <1>1, FS_StrictSubsetOrderingWellFounded, WFMin
  <1>3. PICK m \in S : T = Below(m)
    OBVIOUS
  <1>4. ASSUME NEW n \in S PROVE m <= n
    <2>1. SUFFICES ASSUME n < m PROVE FALSE
      BY <1>3
    <2>2. Below(n) \subseteq Below(m) /\ m \in Below(m) /\ m \notin Below(n)
      BY <2>1
    <2>3. <<Below(n), T>> \in StrictSubsetOrdering(Nat)
      BY <1>3, <2>2 DEF StrictSubsetOrdering
    <2> QED
      BY <1>2, <2>3
  <1> QED
    BY <1>4

\* A deeper bound admits every tree.
LEMMA TreesAreMonotone ==
  ASSUME NEW n \in Nodes, NEW d \in Nat, NEW e \in Nat, d <= e, IsTree(n, d)
  PROVE  IsTree(n, e)
  <1>1. PICK height \in [Nodes -> 0..d] : height[n] > 0 /\ Grows(height)
    BY DEF IsTree
  <1>2. height \in [Nodes -> 0..e]
    <2>1. \A x \in 0..d : x \in 0..e
      OBVIOUS
    <2> QED
      BY <2>1
  <1> QED
    BY <1>1, <1>2 DEF IsTree

\* The heights below a bound witness by themselves.
LEMMA LowerHeights ==
  ASSUME CheckTypeOK, NEW d \in Nat, NEW e \in Nat, NEW height \in [Nodes -> 0..e], Grows(height),
         NEW n \in Nodes, height[n] \in 1..d
  PROVE  IsTree(n, d)
  <1> DEFINE low == [m \in Nodes |-> IF height[m] <= d THEN height[m] ELSE 0]
  <1>1. low \in [Nodes -> 0..d]
    <2>1. \A m \in Nodes : height[m] \in Nat
      OBVIOUS
    <2>2. \A m \in Nodes : (IF height[m] <= d THEN height[m] ELSE 0) \in 0..d
      BY <2>1
    <2> QED
      BY <2>2
  <1>2. low[n] > 0
    OBVIOUS
  <1>3. ASSUME NEW m \in Nodes, low[m] > 0
        PROVE  /\ Justified(m)
               /\ \A k \in DOMAIN heap[m].children :
                    \/ Marker(heap[m].children[k])
                    \/ low[Unwrap(heap[m].children[k])] \in 1..(low[m] - 1)
    <2>1. height[m] = low[m] /\ height[m] <= d /\ height[m] > 0 /\ height[m] \in Nat
      BY <1>3
    <2>2. /\ Justified(m)
          /\ \A k \in DOMAIN heap[m].children :
               \/ Marker(heap[m].children[k])
               \/ height[Unwrap(heap[m].children[k])] \in 1..(height[m] - 1)
      BY <2>1 DEF Grows
    <2>3. ASSUME NEW k \in DOMAIN heap[m].children, ~Marker(heap[m].children[k])
          PROVE  low[Unwrap(heap[m].children[k])] \in 1..(low[m] - 1)
      <3>1. PICK c \in Nodes : c = Unwrap(heap[m].children[k])
        <4>1. heap[m].children \in Seq(Nodes)
          BY HeapFacts
        <4>2. heap[m].children[k] \in Nodes
          BY <4>1
        <4> QED
          BY <4>2, HeapFacts
      <3>2. height[c] \in 1..(height[m] - 1)
        BY <2>2, <2>3, <3>1
      <3>3. height[c] <= d
        BY <2>1, <3>2
      <3> QED
        BY <2>1, <3>1, <3>2, <3>3
    <2> QED
      BY <2>2, <2>3
  <1>4. Grows(low)
    BY <1>3 DEF Grows
  <1> QED
    BY <1>1, <1>2, <1>3, <1>4 DEF IsTree

\* The lowest bound under which a node is a tree; its children are trees under lower ones.
Low(n) == CHOOSE d \in Nat : IsTree(n, d) /\ \A e \in Nat : IsTree(n, e) => d <= e

LEMMA LowFacts ==
  ASSUME CheckTypeOK, NEW n \in Nodes, NEW d \in Nat, IsTree(n, d)
  PROVE  /\ Low(n) \in 1..d
         /\ Justified(n)
         /\ \A k \in DOMAIN heap[n].children :
              \/ Marker(heap[n].children[k])
              \/ \E e \in 1..(Low(n) - 1) : IsTree(Unwrap(heap[n].children[k]), e)
  <1> DEFINE bounds == {e \in Nat : IsTree(n, e)}
  <1>1. d \in bounds /\ bounds \in SUBSET Nat /\ bounds # {}
    OBVIOUS
  <1>2. PICK m \in bounds : \A e \in bounds : m <= e
    <2> HIDE DEF bounds
    <2> QED
      BY <1>1, LeastNatural
  <1>3. \E e \in Nat : IsTree(n, e) /\ \A f \in Nat : IsTree(n, f) => e <= f
    BY <1>2
  <1>4. PICK e \in Nat : e = Low(n) /\ IsTree(n, e) /\ e <= d
    BY <1>3 DEF Low
  <1>5. PICK height \in [Nodes -> 0..e] : height[n] > 0 /\ Grows(height)
    BY <1>4 DEF IsTree
  <1>6. PICK h \in 1..e : h = height[n]
    <2>1. height[n] \in 0..e
      BY <1>5
    <2> QED
      BY <1>5, <2>1
  <1>7. /\ Justified(n)
        /\ \A k \in DOMAIN heap[n].children :
             \/ Marker(heap[n].children[k])
             \/ height[Unwrap(heap[n].children[k])] \in 1..(h - 1)
    BY <1>5, <1>6 DEF Grows
  <1>8. ASSUME NEW k \in DOMAIN heap[n].children, ~Marker(heap[n].children[k])
        PROVE  \E f \in 1..(e - 1) : IsTree(Unwrap(heap[n].children[k]), f)
    <2>1. PICK c \in Nodes : c = Unwrap(heap[n].children[k])
      <3>1. heap[n].children \in Seq(Nodes)
        BY HeapFacts
      <3>2. heap[n].children[k] \in Nodes
        BY <3>1
      <3> QED
        BY <3>2, HeapFacts
    <2>2. height[c] \in 1..(h - 1)
      BY <1>7, <1>8, <2>1
    <2>3. PICK f \in 1..(e - 1) : f = h - 1
      BY <2>2, <1>6
    <2>4. height[c] \in 1..f /\ f \in Nat
      BY <2>2, <2>3
    <2>5. IsTree(c, f)
      BY <1>4, <1>5, <2>4, LowerHeights
    <2> QED
      BY <2>1, <2>5
  <1> QED
    BY <1>4, <1>6, <1>7, <1>8

\* A node that follows from its children is a tree one level deeper than they are.
LEMMA TreesGrow ==
  ASSUME CheckTypeOK, NEW d \in Nat, NEW n \in Nodes, Justified(n),
         \A k \in DOMAIN heap[n].children :
           Marker(heap[n].children[k]) \/ IsTree(Unwrap(heap[n].children[k]), d)
  PROVE  IsTree(n, d + 1)
  <1> DEFINE height == [m \in Nodes |-> IF IsTree(m, d) THEN Low(m)
                                        ELSE IF m = n THEN d + 1 ELSE 0]
  <1>0. \A m \in Nodes : IsTree(m, d) => Low(m) \in 1..d
    BY LowFacts
  <1>1. height \in [Nodes -> 0..(d + 1)] /\ height[n] > 0
    <2>1. \A x \in 1..d : x \in 0..(d + 1) /\ x > 0
      OBVIOUS
    <2>2. d + 1 \in 0..(d + 1) /\ 0 \in 0..(d + 1) /\ d + 1 > 0
      OBVIOUS
    <2> QED
      BY <1>0, <2>1, <2>2
  <1>2. ASSUME NEW m \in Nodes, height[m] > 0
        PROVE  /\ Justified(m)
               /\ \A k \in DOMAIN heap[m].children :
                    \/ Marker(heap[m].children[k])
                    \/ height[Unwrap(heap[m].children[k])] \in 1..(height[m] - 1)
    <2>1. \A k \in DOMAIN heap[m].children : Unwrap(heap[m].children[k]) \in Nodes
      <3>1. heap[m].children \in Seq(Nodes)
        BY HeapFacts
      <3>2. \A k \in DOMAIN heap[m].children : heap[m].children[k] \in Nodes
        BY <3>1
      <3> QED
        BY <3>2, HeapFacts
    <2>2. CASE IsTree(m, d)
      <3>1. height[m] = Low(m) /\ Low(m) \in 1..d
        BY <1>0, <2>2
      <3>2. ASSUME NEW k \in DOMAIN heap[m].children, ~Marker(heap[m].children[k])
            PROVE  height[Unwrap(heap[m].children[k])] \in 1..(height[m] - 1)
        <4>1. PICK c \in Nodes : c = Unwrap(heap[m].children[k])
          BY <2>1, <3>2
        <4>2. PICK e \in 1..(Low(m) - 1) : IsTree(c, e)
          BY <2>2, <3>2, <4>1, LowFacts
        <4>3. e \in Nat /\ e <= d /\ e <= Low(m) - 1
          BY <3>1
        <4>4. IsTree(c, d)
          BY <4>2, <4>3, TreesAreMonotone
        <4>5. Low(c) \in 1..e
          BY <4>2, <4>3, LowFacts
        <4>6. height[c] = Low(c)
          BY <4>4
        <4>7. Low(c) \in 1..(Low(m) - 1)
          BY <4>3, <4>5, <3>1
        <4> QED
          BY <3>1, <4>1, <4>6, <4>7
      <3>3. Justified(m)
        BY <2>2, LowFacts
      <3> QED
        BY <3>2, <3>3
    <2>3. CASE ~IsTree(m, d)
      <3>1. m = n /\ height[m] = d + 1
        BY <1>2, <2>3
      <3>2. ASSUME NEW k \in DOMAIN heap[m].children, ~Marker(heap[m].children[k])
            PROVE  height[Unwrap(heap[m].children[k])] \in 1..(height[m] - 1)
        <4>1. PICK c \in Nodes : c = Unwrap(heap[m].children[k])
          BY <2>1, <3>2
        <4>2. IsTree(c, d)
          BY <3>1, <3>2, <4>1
        <4>3. height[c] \in 1..d
          BY <1>0, <4>2
        <4>4. height[m] - 1 = d
          BY <3>1
        <4> QED
          BY <4>1, <4>3, <4>4
      <3> QED
        BY <3>1, <3>2
    <2> QED
      BY <2>2, <2>3
  <1>3. Grows(height)
    BY <1>2 DEF Grows
  <1>4. \E h \in [Nodes -> 0..(d + 1)] : h[n] > 0 /\ Grows(h)
    <2> HIDE DEF height
    <2> QED
      BY <1>1, <1>3
  <1> QED
    BY <1>4 DEF IsTree

-----------------------------------------------------------------------------
(* Acceptance.  A verified child of frame k is a tree that fits the depth   *)
(* left there; a tree's heights fall along every path of the walk.          *)

\* What was verified stands for "root" or is a tree.
LEMMA AcceptedIsTree ==
  ASSUME IInv, Accepted
  PROVE  Marker(Root) \/ IsTree(Unwrap(Root), limit + 1)
  <1> DEFINE S == {p \in Nodes \X Nat :
                     p[2] <= limit + 1 /\ (Marker(p[1]) \/ IsTree(Unwrap(p[1]), limit + 1 - p[2]))}
  <1>0. limit \in Nat /\ CheckTypeOK
    BY LimitsAreDepths DEF IInv, SafeStack, CheckTypeOK
  <1>1. ASSUME NEW n \in Nodes, NEW v \in Nodes, NEW k \in 1..(limit + 1), v = Unwrap(n), Justified(v),
               heap[v].kind = "rule" =>
                 \A j \in DOMAIN heap[v].children : <<heap[v].children[j], k>> \in S
        PROVE  <<n, k - 1>> \in S
    <2>1. PICK d \in Nat : d = limit + 1 - k
      BY <1>0
    <2>2. \A j \in DOMAIN heap[v].children :
            Marker(heap[v].children[j]) \/ IsTree(Unwrap(heap[v].children[j]), d)
      <3>1. CASE heap[v].kind = "rule"
        BY <1>1, <2>1, <3>1
      <3>2. CASE heap[v].kind # "rule"
        <4>1. heap[v].children = <<>>
          BY <1>1, <3>2 DEF Justified
        <4> QED
          BY <4>1
      <3> QED
        BY <3>1, <3>2
    <2>3. IsTree(v, d + 1)
      BY <1>0, <1>1, <2>2, TreesGrow
    <2>4. d + 1 = limit + 1 - (k - 1) /\ k - 1 \in Nat /\ k - 1 <= limit + 1
      BY <1>0, <2>1
    <2> QED
      BY <1>1, <2>3, <2>4
  <1>2. Grown(S)
    <2>1. ASSUME NEW n \in Nodes, NEW k \in 0..(limit + 1), Marker(n) PROVE <<n, k>> \in S
      BY <1>0, <2>1
    <2> HIDE DEF S
    <2> QED
      BY <1>1, <2>1 DEF Grown
  <1>3. <<Root, 0>> \in S
    <2> HIDE DEF S
    <2>1. S \in SUBSET (Nodes \X Nat)
      BY DEF S
    <2> QED
      BY <1>2, <2>1 DEF HoldIn, IInv, VerifiedIsGrown, Accepted
  <1>4. limit + 1 - 0 = limit + 1
    BY <1>0
  <1> QED
    BY <1>3, <1>4

\* Along the walk the heights fall, and none has failed.
Falls(height) ==
  /\ \A k \in DOMAIN stack :
       /\ height[stack[k].node] \in 1..(limit + 2 - k)
       /\ \A j \in 1..(k - 1) : height[stack[k].node] < height[stack[j].node]
  /\ goal # None /\ ~Marker(goal) =>
       /\ height[Unwrap(goal)] \in 1..(limit + 1 - Len(stack))
       /\ \A k \in DOMAIN stack : height[Unwrap(goal)] < height[stack[k].node]
  /\ answer # "false"

\* A tree is neither refused nor judged wrong.
LEMMA TreesAreAdmitted ==
  ASSUME SafeStack, ActiveIsThePath, NEW height, Falls(height), Grows(height),
         goal # None, ~Marker(goal)
  PROVE  Admits(Unwrap(goal))
  <1>0. goal \in Nodes /\ limit \in Nat /\ Len(stack) \in Nat
    BY LimitsAreDepths, HeapFacts DEF SafeStack, CheckTypeOK
  <1>1. PICK v \in Nodes : v = Unwrap(goal)
    BY <1>0, HeapFacts DEF SafeStack
  <1>2. height[v] \in 1..(limit + 1 - Len(stack))
    BY <1>1 DEF Falls
  <1>3. Len(stack) <= limit
    BY <1>0, <1>2
  <1>4. heap[v].kind \in {"base", "rule"}
    <2>1. height[v] > 0
      BY <1>0, <1>2
    <2>2. Justified(v)
      BY <2>1 DEF Grows
    <2> QED
      BY <2>2 DEF Justified
  <1>5. v \notin active
    <2>1. SUFFICES ASSUME NEW k \in DOMAIN stack, v = stack[k].node PROVE FALSE
      BY DEF ActiveIsThePath
    <2>2. height[v] < height[v]
      BY <1>1, <2>1 DEF Falls
    <2> QED
      BY <1>0, <1>2, <2>2
  <1> QED
    BY <1>1, <1>3, <1>4, <1>5 DEF Admits

LEMMA FallsEnter ==
  ASSUME SafeStack, NEW height, Falls(height), Enter
  PROVE  Falls(height)'
  <1>1. PICK n \in Nat : n = Len(stack) /\ DOMAIN stack = 1..n
    BY HeapFacts DEF SafeStack
  <1>v. PICK v \in Nodes : v = Unwrap(goal)
    BY HeapFacts DEF SafeStack, CheckTypeOK, Enter
  <1>m. ~Marker(goal)
    BY DEF Enter, Admits, Marker
  <1>2. /\ stack' = Append(stack, [node |-> v, next |-> 1]) /\ goal # None /\ goal' = None
        /\ answer' = "none" /\ stack \in Seq(Frame) /\ limit' = limit /\ limit \in Nat
    BY <1>v, LimitsAreDepths DEF Enter, SafeStack, CheckTypeOK
  <1>3. /\ DOMAIN stack' = 1..(n + 1) /\ stack'[n + 1].node = v
        /\ \A k \in 1..n : stack'[k] = stack[k]
    BY <1>1, <1>2
  <1>4. ASSUME NEW k \in 1..(n + 1)
        PROVE  /\ height[stack'[k].node] \in 1..(limit + 2 - k)
               /\ \A j \in 1..(k - 1) : height[stack'[k].node] < height[stack'[j].node]
    <2>1. CASE k \in 1..n
      <3>1. \A j \in 1..(k - 1) : j \in 1..n
        BY <2>1
      <3> QED
        BY <1>1, <1>3, <2>1, <3>1 DEF Falls
    <2>2. CASE k = n + 1
      <3>1. limit + 1 - n = limit + 2 - k /\ k - 1 = n
        BY <1>2, <2>2
      <3>2. /\ height[v] \in 1..(limit + 1 - n)
            /\ \A j \in 1..n : height[v] < height[stack[j].node]
        BY <1>1, <1>2, <1>m, <1>v DEF Falls
      <3> QED
        BY <1>3, <2>2, <3>1, <3>2
    <2> QED
      BY <2>1, <2>2
  <1> QED
    BY <1>2, <1>3, <1>4 DEF Falls

LEMMA FallsDescend ==
  ASSUME SafeStack, NEW height, Falls(height), Grows(height), Descend
  PROVE  Falls(height)'
  <1>1. PICK n \in Nat \ {0} : n = Len(stack) /\ DOMAIN stack = 1..n
    <2>1. /\ Len(stack) \in Nat /\ Len(stack) >= 1 /\ DOMAIN stack = 1..Len(stack)
      BY HeapFacts DEF SafeStack, Descend, Running
    <2>2. Len(stack) \in Nat \ {0}
      BY <2>1
    <2> QED
      BY <2>1, <2>2
  <1>2. /\ stack' = [stack EXCEPT ![n].next = @ + 1] /\ stack[n].next <= Len(Kids(n))
        /\ goal' = Kids(n)[stack[n].next] /\ stack \in Seq(Frame) /\ stack[n] \in Frame
        /\ Kids(n) \in Seq(Nodes) /\ stack[n].next \in Nat \ {0} /\ limit' = limit /\ limit \in Nat
        /\ answer' = answer /\ stack[n].node \in Nodes
    BY <1>1, LimitsAreDepths, HeapFacts DEF Descend, Running, Remaining, Top, Kids, SafeStack, CheckTypeOK
  <1>3. /\ DOMAIN stack' = 1..n /\ Len(stack') = n
        /\ \A k \in 1..n : stack'[k].node = stack[k].node
    BY <1>1, <1>2 DEF Frame
  <1>4. PICK h \in 1..(limit + 2 - n) : h = height[stack[n].node]
    BY <1>1 DEF Falls
  <1>g. PICK c \in Nodes : c = goal'
    BY <1>2
  <1>5. ~Marker(c) => height[Unwrap(c)] \in 1..(h - 1)
    <2>1. PICK v \in Nodes : v = stack[n].node
      BY <1>2
    <2>2. PICK k \in DOMAIN Kids(n) : k = stack[n].next
      BY <1>2
    <2>3. height[v] > 0 /\ height[v] = h
      BY <1>4, <2>1
    <2>4. Marker(heap[v].children[k]) \/ height[Unwrap(heap[v].children[k])] \in 1..(height[v] - 1)
      BY <2>1, <2>2, <2>3 DEF Grows, Kids
    <2> QED
      BY <1>2, <1>g, <2>1, <2>2, <2>3, <2>4 DEF Kids
  <1>6. ~Marker(c) => height[Unwrap(c)] \in 1..(limit + 1 - n) /\ height[Unwrap(c)] < h
    <2> SUFFICES ASSUME ~Marker(c) PROVE height[Unwrap(c)] \in 1..(limit + 1 - n) /\ height[Unwrap(c)] < h
      OBVIOUS
    <2>1. PICK x \in 1..(h - 1) : x = height[Unwrap(c)]
      BY <1>5
    <2>2. x \in 1..(limit + 1 - n) /\ x < h
      BY <1>1, <1>2, <1>4
    <2> QED
      BY <2>1, <2>2
  <1>7. ASSUME ~Marker(c), NEW k \in 1..n PROVE height[Unwrap(c)] < height[stack[k].node]
    <2>1. height[stack[k].node] \in Nat
      BY <1>1, <1>2 DEF Falls
    <2>2. k = n \/ h < height[stack[k].node]
      <3>1. k = n \/ k \in 1..(n - 1)
        OBVIOUS
      <3> QED
        BY <1>1, <1>4, <3>1 DEF Falls
    <2> QED
      BY <1>4, <1>5, <1>6, <1>7, <2>1, <2>2
  <1>8. ASSUME NEW k \in 1..n, NEW j \in 1..(k - 1)
        PROVE  height[stack'[k].node] < height[stack'[j].node]
    <2>1. j \in 1..n
      OBVIOUS
    <2> QED
      BY <1>1, <1>3, <2>1 DEF Falls
  <1>9. (goal # None /\ ~Marker(goal) =>
           /\ height[Unwrap(goal)] \in 1..(limit + 1 - Len(stack))
           /\ \A k \in DOMAIN stack : height[Unwrap(goal)] < height[stack[k].node])'
    <2>1. heap' = heap
      BY DEF Descend
    <2>2. (Marker(goal))' <=> Marker(c)
      BY <1>g, <2>1 DEF Marker, Unwrap
    <2>3. (Unwrap(goal))' = Unwrap(c)
      BY <1>g, <2>1 DEF Unwrap
    <2> QED
      BY <1>2, <1>3, <1>6, <1>7, <2>2, <2>3
  <1> QED
    BY <1>1, <1>2, <1>3, <1>8, <1>9 DEF Falls

LEMMA FallsConclude ==
  ASSUME SafeStack, NEW height, Falls(height), Grows(height), Conclude
  PROVE  Falls(height)'
  <1>1. PICK n \in Nat \ {0} :
           /\ n = Len(stack) /\ DOMAIN stack = 1..n /\ DOMAIN stack' = 1..(n - 1)
           /\ stack' \in Seq(Frame) /\ Len(stack') = n - 1
           /\ \A k \in 1..(n - 1) : stack'[k] = stack[k]
           /\ goal = None /\ goal' = None /\ active' \subseteq active
           /\ UNCHANGED <<heap, call, limit>>
    BY LeaveFacts DEF Conclude
  <1>2. stack[n].node \in Nodes /\ limit \in Nat
    BY <1>1, LimitsAreDepths, HeapFacts DEF SafeStack, CheckTypeOK
  <1>3. height[stack[n].node] > 0
    BY <1>1, <1>2 DEF Falls
  <1>4. answer' = "true"
    BY <1>1, <1>2, <1>3 DEF Grows, Conclude, Return, Top
  <1>5. ASSUME NEW k \in 1..(n - 1)
        PROVE  /\ height[stack'[k].node] \in 1..(limit + 2 - k)
               /\ \A j \in 1..(k - 1) : height[stack'[k].node] < height[stack'[j].node]
    <2>1. k \in 1..n /\ \A j \in 1..(k - 1) : j \in 1..(n - 1)
      OBVIOUS
    <2> QED
      BY <1>1, <2>1 DEF Falls
  <1> QED
    BY <1>1, <1>4, <1>5 DEF Falls

\* A walk that was not cut short stays on the heights of the tree.
Complete ==
  answer # "raised" =>
    \A height \in [Nodes -> 0..(limit + 1)] :
      (Marker(Root) \/ height[Unwrap(Root)] > 0) /\ Grows(height) => Falls(height)

LEMMA CompleteInit == CheckInit => Complete
  <1> SUFFICES ASSUME CheckInit, NEW height \in [Nodes -> 0..(limit + 1)],
                      Marker(Root) \/ height[Unwrap(Root)] > 0
               PROVE  Falls(height)
    BY DEF Complete
  <1>1. limit \in Nat /\ Len(stack) = 0 /\ goal = Root
    BY LimitsAreDepths DEF CheckInit
  <1>2. Unwrap(Root) \in Nodes
    BY RootIsNode, StackInit, HeapFacts DEF SafeStack
  <1>3. Marker(Root) \/ height[Unwrap(Root)] \in 1..(limit + 1 - Len(stack))
    <2>1. height[Unwrap(Root)] \in 0..(limit + 1)
      BY <1>2
    <2> QED
      BY <1>1, <2>1
  <1> QED
    BY <1>1, <1>3 DEF CheckInit, Falls

\* Once raised, the answer stands.
LEMMA RaisedStays ==
  ASSUME SafeStack, answer = "raised" => Returned, [CheckNext]_checkVars
  PROVE  (answer = "raised" => Returned)' /\ (answer = "raised" => answer' = "raised")
  <1>1. Overflow => stack' = <<>> /\ goal' = None
    BY DEF Overflow
  <1> QED
    BY <1>1 DEF CheckNext, Accept, Refuse, Enter, Descend, Fail, Conclude, Overflow, Return, Running,
                Returned, checkVars

LEMMA CompleteNext ==
  ASSUME SafeStack, ActiveIsThePath, answer = "raised" => Returned, Complete, [CheckNext]_checkVars
  PROVE  Complete'
  <1>1. answer' # "raised" => answer # "raised"
    BY RaisedStays
  <1>2. SUFFICES ASSUME answer' # "raised", NEW height \in [Nodes -> 0..(limit + 1)],
                        Marker(Root) \/ height[Unwrap(Root)] > 0, Grows(height)
                 PROVE  Falls(height)'
    <2>1. UNCHANGED <<heap, call, limit>>
      BY Fixed
    <2>2. ASSUME NEW height PROVE (Grows(height))' <=> Grows(height)
      <3>1. \A n : (Justified(n))' <=> Justified(n)
        BY <2>1 DEF Justified, PremisesOf, Licensed
      <3>2. \A n, k : LET c == heap[n].children[k]
                     IN ((Marker(c) \/ height[Unwrap(c)] \in 1..(height[n] - 1))'
                          <=> Marker(c) \/ height[Unwrap(c)] \in 1..(height[n] - 1))
        BY <2>1 DEF Marker, Unwrap
      <3> QED
        BY <2>1, <3>1, <3>2 DEF Grows, Marker, Unwrap
    <2>3. (Marker(Root))' <=> Marker(Root)
      BY <2>1 DEF Marker, Unwrap
    <2>4. (Unwrap(Root))' = Unwrap(Root)
      BY <2>1 DEF Unwrap
    <2> QED
      BY <2>1, <2>2, <2>3, <2>4 DEF Complete
  <1>3. Falls(height)
    BY <1>1, <1>2 DEF Complete
  <1>4. CASE UNCHANGED checkVars
    BY <1>3, <1>4 DEF Falls, checkVars, Marker, Unwrap
  <1>8. CASE Accept
    BY <1>3, <1>8 DEF Accept, Return, Falls
  <1>5. CASE Overflow
    BY <1>2, <1>5 DEF Overflow
  <1>6. CASE Refuse
    BY <1>2, <1>3, <1>6, TreesAreAdmitted DEF Refuse
  <1>7. CASE Fail
    BY <1>3, <1>7 DEF Fail, Falls
  <1> QED
    BY <1>2, <1>3, <1>4, <1>5, <1>6, <1>7, <1>8, FallsEnter, FallsDescend, FallsConclude DEF CheckNext

-----------------------------------------------------------------------------

\* The call stack holds only nodes of the object, whatever its shape.
THEOREM CheckerTypeCorrect == CheckSpec => []CheckTypeOK
  <1>1. SafeStack => CheckTypeOK
    BY DEF SafeStack
  <1> QED
    BY <1>1, StackInit, StackNext, PTL DEF CheckSpec

\* Under rules that check_proof reads as closure does, a proof it accepts concludes a
\* consequence of the declared facts and the trusted rules, and of what the markers and
\* dictionaries among its children claim; without any, of the facts and the rules alone.
THEOREM AcceptedProofsAreSound == CheckSpec => []AcceptedIsDerivable
  <1>1. IInv => AcceptedIsDerivable
    BY AcceptedIsInModel DEF AcceptedIsDerivable, DerivableFrom
  <1> QED
    BY <1>1, Inductive, PTL

\* active is the path from the root to the node under inspection, without repetition.
THEOREM ActiveIsAlwaysThePath == CheckSpec => []ActiveIsThePath
  BY PathInit, PathNext, StackInit, StackNext, PTL DEF CheckSpec

\* check_proof, where it answers, accepts a proof object of any shape exactly when it stands
\* for "root" or is a finite tree of correct inferences within the depth it allows, in which
\* "root" and dictionaries around subtrees may occur: neither sharing nor the order of the
\* children makes it refuse, and no cycle makes it accept.
THEOREM AcceptsExactlyTheTrees == CheckSpec => []AcceptsExactlyTrees
  <1> DEFINE Inv == /\ IInv /\ ActiveIsThePath /\ Complete
                    /\ answer = "raised" => Returned
                    /\ Returned => answer \in {"true", "false", "raised"}
  <1>1. CheckInit => Inv
    BY InvInit, PathInit, CompleteInit, RootIsNode DEF CheckInit, Returned
  <1>2. Inv /\ [CheckNext]_checkVars => Inv'
    <2> SUFFICES ASSUME Inv, [CheckNext]_checkVars PROVE Inv'
      OBVIOUS
    <2>1. SafeStack
      BY DEF IInv
    <2>2. (Returned => answer \in {"true", "false", "raised"})'
      <3>1. CASE Enter \/ Descend
        <4>1. stack' # <<>>
          <5>1. CASE Enter
            <6>1. stack \in Seq(Frame) /\ stack' = Append(stack, [node |-> Unwrap(goal), next |-> 1])
              BY <2>1, <5>1 DEF SafeStack, CheckTypeOK, Enter
            <6> QED
              BY <6>1
          <5>2. CASE Descend
            <6>1. DOMAIN stack' = DOMAIN stack /\ Len(stack) \in DOMAIN stack
              BY <2>1, <5>2, HeapFacts DEF Descend, Running
            <6> QED
              BY <6>1
          <5> QED
            BY <3>1, <5>1, <5>2
        <4> QED
          BY <4>1 DEF Returned
      <3> QED
        BY <3>1 DEF CheckNext, Accept, Refuse, Fail, Conclude, Overflow, Return, Returned, checkVars
    <2> QED
      BY <2>1, <2>2, InvNext, PathNext, CompleteNext, RaisedStays
  <1>3. Inv => AcceptsExactlyTrees
    <2> SUFFICES ASSUME Inv, Returned, answer \in {"true", "false"}
                 PROVE  answer = "true" <=> Marker(Root) \/ IsTree(Unwrap(Root), limit + 1)
      BY DEF AcceptsExactlyTrees
    <2>1. answer = "true" => Marker(Root) \/ IsTree(Unwrap(Root), limit + 1)
      BY AcceptedIsTree DEF Accepted
    <2>2. ASSUME Marker(Root) PROVE answer = "true"
      <3> DEFINE none == [n \in Nodes |-> 0]
      <3>1. limit \in Nat
        BY LimitsAreDepths DEF IInv, SafeStack, CheckTypeOK
      <3>2. none \in [Nodes -> 0..(limit + 1)] /\ Grows(none)
        BY <3>1 DEF Grows
      <3> HIDE DEF none
      <3> QED
        BY <2>2, <3>2 DEF Complete, Falls
    <2>3. ASSUME IsTree(Unwrap(Root), limit + 1) PROVE answer = "true"
      <3>1. PICK height \in [Nodes -> 0..(limit + 1)] : height[Unwrap(Root)] > 0 /\ Grows(height)
        BY <2>3 DEF IsTree
      <3>2. answer # "false"
        BY <3>1 DEF Complete, Falls
      <3> QED
        BY <3>2
    <2> QED
      BY <2>1, <2>2, <2>3
  <1> QED
    BY <1>1, <1>2, <1>3, PTL DEF CheckSpec
=============================================================================
