---------------------------- MODULE ProofChecker ----------------------------
(***************************************************************************)
(* check_proof and _verify_proof (core/kernel_fol.py): a depth-first walk   *)
(* over a proof object, which is whatever the caller hands in.  Its nodes   *)
(* may be shared, may refer to themselves, may be malformed, may embed      *)
(* rules of their own, may be dictionaries around a proof, and may be the   *)
(* string "root", the proof of a certificate's bias terms, which is always  *)
(* accepted.  The call stack is explicit: a frame per activation of         *)
(* _verify_proof, with the child that "all" inspects next.                  *)
(*                                                                         *)
(* An object of the kinds "base" and "rule" is a triple of a fact, a rule   *)
(* and children.  One of kind "dict" has its "proof" entry as only child;   *)
(* a dictionary without that entry is "malformed", like anything else.  The *)
(* fact of an object is what a parent node reads as object[0]: of a triple  *)
(* its fact, of "root" its first character, of a dictionary its entry under *)
(* the key 0, None when there is none (the KeyError is answered False).     *)
(*                                                                         *)
(* An exception that check_proof catches unwinds to it and is answered      *)
(* False; a False travels up the same way, so the two are one outcome here. *)
(* RecursionError is not among them: a call that would need more activations *)
(* than the interpreter has left unwinds check_proof as well.               *)
(***************************************************************************)
EXTENDS Naturals, Sequences, FiniteSets

CONSTANTS
  Statements,  \* the ground facts objects may claim
  Rules,       \* the rules nodes may embed
  Nodes,       \* the objects of a proof
  Root,        \* the one check_proof is called with
  None,        \* no object
  Heaps,       \* functions Nodes -> [kind, fact, rule, children]
  Calls,       \* records [base, trusted, given]: the facts and rules check_proof is called with
  Limits,      \* candidates for _MAX_PROOF_DEPTH (512)
  Frames,      \* activations the interpreter grants whatever stack check_proof is called on
  Checked,     \* records [rule, premises, fact]: unification and side conditions let a node pass
  Fired,       \* records [rule, premises, fact]: closure fires the rule on the premises
  Lemmas       \* the rules with a positive premise

ASSUME RootIsNode == Root \in Nodes /\ None \notin Nodes

ASSUME HeapsAreObjects ==
  \A h \in Heaps :
    /\ DOMAIN h = Nodes
    /\ \A n \in Nodes :
         /\ h[n].children \in Seq(Nodes)
         /\ h[n].fact \in Statements \cup {None}
         /\ h[n].kind = "dict" => Len(h[n].children) = 1

ASSUME LimitsAreDepths == Limits \subseteq Nat /\ Frames \in Nat

ASSUME CallsTrustFacts == \A c \in Calls : c.base \subseteq Statements

ASSUME FiredIsAboutFacts == \A s \in Fired : s.fact \in Statements

ASSUME CheckedReadsFacts == \A s \in Checked : \A k \in DOMAIN s.premises : s.premises[k] # None

VARIABLES
  heap,    \* the objects
  call,    \* the arguments of check_proof
  limit,   \* _MAX_PROOF_DEPTH
  stack,   \* frames [node, next], the current activation last
  active,  \* identities of the nodes under verification
  goal,    \* the node being passed to _verify_proof, or None
  answer   \* what the last activation returned: "none", "true", "false", or "raised"

checkVars == <<heap, call, limit, stack, active, goal, answer>>

Top == stack[Len(stack)]

CheckInit ==
  /\ heap \in Heaps
  /\ call \in Calls
  /\ limit \in Limits
  /\ stack = <<>> /\ active = {}
  /\ goal = Root
  /\ answer = "none"

Return(b) == answer' = IF b THEN "true" ELSE "false"

\* "if isinstance(node, dict): node = node.get("proof")", once.
Unwrap(n) == IF heap[n].kind = "dict" THEN heap[n].children[1] ELSE n

\* What stands for "root", in a dictionary or bare.
Marker(n) == heap[Unwrap(n)].kind = "root"

\* "if node == "root": return True", at any depth and in any place.
Accept ==
  /\ goal # None /\ Marker(goal)
  /\ Return(TRUE)
  /\ goal' = None
  /\ UNCHANGED <<heap, call, limit, stack, active>>

\* Mutant: the depth is not bounded.
AdmitsAnyDepth(n) == heap[n].kind \in {"base", "rule"} /\ n \notin active

\* Neither too deep, nor anything but a triple, nor one of its own ancestors.
Admits(n) == Len(stack) <= limit /\ heap[n].kind \in {"base", "rule"} /\ n \notin active

\* The other early returns: False before the node is entered.
Refuse ==
  /\ goal # None /\ ~Marker(goal) /\ ~Admits(Unwrap(goal))
  /\ Return(FALSE)
  /\ goal' = None
  /\ UNCHANGED <<heap, call, limit, stack, active>>

\* active.add(id(node)); the children come first.
Enter ==
  /\ goal # None /\ Admits(Unwrap(goal))
  /\ stack' = Append(stack, [node |-> Unwrap(goal), next |-> 1])
  /\ active' = active \cup {Unwrap(goal)}
  /\ goal' = None /\ answer' = "none"
  /\ UNCHANGED <<heap, call, limit>>

Running == goal = None /\ stack # <<>>

\* Only a rule node looks at its children; a base node with children is refused by
\* Conclude.
Remaining == heap[Top.node].kind = "rule" /\ Top.next <= Len(heap[Top.node].children)

\* all(...): the next child, as long as none has failed.
Descend ==
  /\ Running /\ Remaining /\ answer # "false"
  /\ goal' = heap[Top.node].children[Top.next]
  /\ stack' = [stack EXCEPT ![Len(stack)].next = @ + 1]
  /\ UNCHANGED <<heap, call, limit, active, answer>>

\* A rule that was not handed in counts only when no rules were handed in.
Licensed(rule) == IF call.given THEN rule \in call.trusted ELSE rule \in Lemmas

\* child[0], of the child as it stands: of a dictionary not what its proof proves.
PremisesOf(n) == [k \in DOMAIN heap[n].children |-> heap[heap[n].children[k]].fact]

\* Mutant: an embedded rule is taken at its word.
JustifiedByAnyRule(n) ==
  \/ heap[n].kind = "base" /\ heap[n].children = <<>> /\ heap[n].fact \in call.base
  \/ /\ heap[n].kind = "rule"
     /\ [rule |-> heap[n].rule, premises |-> PremisesOf(n), fact |-> heap[n].fact] \in Checked

\* The node follows from its children, given that they were verified.
Justified(n) ==
  \/ heap[n].kind = "base" /\ heap[n].children = <<>> /\ heap[n].fact \in call.base
  \/ /\ heap[n].kind = "rule" /\ Licensed(heap[n].rule)
     /\ [rule |-> heap[n].rule, premises |-> PremisesOf(n), fact |-> heap[n].fact] \in Checked

\* "finally": active.remove(identity).
Leave ==
  /\ stack' = SubSeq(stack, 1, Len(stack) - 1)
  /\ active' = active \ {Top.node}
  /\ UNCHANGED <<heap, call, limit, goal>>

\* A child failed: the node fails.
Fail ==
  /\ Running /\ answer = "false"
  /\ answer' = "false"
  /\ Leave

\* Every child holds: the node itself is judged.
Conclude ==
  /\ Running /\ ~Remaining /\ answer # "false"
  /\ Return(Justified(Top.node))
  /\ Leave

\* RecursionError: every "finally" runs, nobody catches it.
Overflow ==
  /\ goal # None /\ Len(stack) >= Frames
  /\ answer' = "raised"
  /\ stack' = <<>> /\ active' = {} /\ goal' = None
  /\ UNCHANGED <<heap, call, limit>>

CheckNext == Accept \/ Refuse \/ Enter \/ Descend \/ Fail \/ Conclude \/ Overflow

CheckSpec == CheckInit /\ [][CheckNext]_checkVars

-----------------------------------------------------------------------------
(* Properties.                                                             *)

Returned == goal = None /\ stack = <<>>

Frame == [node : Nodes, next : Nat \ {0}]

CheckTypeOK ==
  /\ heap \in Heaps /\ call \in Calls /\ limit \in Limits
  /\ stack \in Seq(Frame)
  /\ active \subseteq Nodes
  /\ goal \in Nodes \cup {None}
  /\ answer \in {"none", "true", "false", "raised"}

\* A set of facts closed under what the caller trusts: the declared base facts and the
\* rules handed in, or any rule with a premise when none were.
Model(M) ==
  /\ call.base \subseteq M
  /\ \A s \in Fired : /\ Licensed(s.rule)
                      /\ \A k \in DOMAIN s.premises : s.premises[k] \in M
                      => s.fact \in M

\* f follows from what the caller trusts and from what is granted besides.
DerivableFrom(f, granted) ==
  \A M \in SUBSET Statements : Model(M) /\ granted \subseteq M => f \in M

\* What a rule node takes from a child without a proof of it: from "root" its first
\* character, from a dictionary its entry under the key 0, whatever its proof proves.
Claims ==
  {f \in Statements : \E n \in Nodes : \E k \in DOMAIN heap[n].children :
     LET child == heap[heap[n].children[k]]
     IN heap[n].kind = "rule" /\ child.kind \in {"root", "dict"} /\ child.fact = f}

\* Unification and side conditions let nothing of the rules in force pass that closure
\* would not fire; a rule that rebinds a variable with "is" breaks this.
ReadersAgree == \A s \in Checked : Licensed(s.rule) => s \in Fired

Conclusion == heap[Unwrap(Root)].fact

Accepted == Returned /\ answer = "true"

\* Under rules that the checker reads as closure does, an accepted proof other than "root"
\* itself concludes a consequence of what the caller trusts and of what its markers and
\* dictionaries claim, even if its nodes are shared, refer to themselves or embed rules of
\* their own: a proof of triples alone rests on nothing but the caller's facts and rules.
AcceptedIsDerivable ==
  Accepted /\ ~Marker(Root) /\ ReadersAgree => DerivableFrom(Conclusion, Claims)

\* An accepted proof other than "root" itself concludes a consequence of what the caller
\* trusts, of every rule base and every object: what the word "independently" in
\* check_proof's docstring promises, and what its treatment of children does not keep.
ProofsAreIndependent == Accepted /\ ~Marker(Root) => DerivableFrom(Conclusion, {})

\* Heights that show nodes to be trees of correct inferences: a node of positive height
\* follows from its children, and they, unwrapped, are lower and of positive height
\* themselves or stand for "root".
Grows(height) ==
  \A n \in Nodes : height[n] > 0 =>
    /\ \A k \in DOMAIN heap[n].children :
         LET c == heap[n].children[k]
         IN Marker(c) \/ height[Unwrap(c)] \in 1..(height[n] - 1)
    /\ Justified(n)

\* n is the root of a finite tree of correct inferences, of at most d levels.
IsTree(n, d) == Justified(n) /\ \E height \in [Nodes -> 0..d] : height[n] > 0 /\ Grows(height)

\* Where check_proof answers, it accepts exactly "root" and the finite trees of correct
\* inferences within the depth it allows, whose leaves are declared facts, rules without
\* premises and "root", each in a dictionary or not: sharing does not make it refuse, and a
\* cycle never makes it accept.
AcceptsExactlyTrees ==
  Returned /\ answer \in {"true", "false"} =>
    (answer = "true" <=> Marker(Root) \/ IsTree(Unwrap(Root), limit + 1))

\* active holds exactly the ancestors of the node under inspection, each once, so that
\* a shared node can be verified again and a cycle cannot be entered.
ActiveIsThePath ==
  /\ active = {stack[k].node : k \in DOMAIN stack}
  /\ \A j, k \in DOMAIN stack : stack[j].node = stack[k].node => j = k
=============================================================================
