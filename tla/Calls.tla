-------------------------------- MODULE Calls --------------------------------
(***************************************************************************)
(* A call of an operator with its answer: the state of the runs that check  *)
(* pure algorithms on small inputs.                                         *)
(***************************************************************************)
VARIABLES call, answer
Pending == [pending |-> TRUE]
Answered(op) == answer # Pending /\ call.op = op
=============================================================================
