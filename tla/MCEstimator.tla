---------------------------- MODULE MCEstimator -----------------------------
(* An estimator over its life and the file it is saved in, on one instance.  *)
(* They share no variable: while one of them moves the other is at rest, the *)
(* estimator before its first fit, the store before any call.               *)
EXTENDS ModelStore, ModelLifecycle, TLC

\* The calls of save_model, and those of load_model, are interchangeable.
CallSymmetry == Permutations(Saves) \cup Permutations(Loads)

EstimatorInit == Init /\ StoreInit

EstimatorLives == StoreInit /\ Next /\ UNCHANGED storeVars
StoreWorks == Init /\ StoreNext /\ UNCHANGED vars

EstimatorSpec ==
  EstimatorInit /\ [][EstimatorLives \/ StoreWorks]_<<vars, storeVars>>
=============================================================================
