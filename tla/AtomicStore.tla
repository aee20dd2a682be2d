----------------------------- MODULE AtomicStore -----------------------------
(***************************************************************************)
(* What model_io promises: a path holds one saved model or none, a save     *)
(* puts its model there in one step or fails without touching it, and a     *)
(* load returns the model that was there at one moment of the call.  Of a   *)
(* machine that loses power it promises less: the path may be back at a     *)
(* model that was there before, but it holds a model.                       *)
(***************************************************************************)
CONSTANTS Saves,     \* calls of save_model; a call stands for the model it saves
          Loads,     \* calls of load_model
          Nothing    \* the path holds no model

VARIABLES
  stored,    \* the save whose model the path holds
  earlier,   \* what the path may be found to hold after a loss of power
  saving,    \* of each save: "idle", "running", "saved", "failed", "killed"
  loaded     \* of each load: "idle", "none", or the save whose model it returns

vars == <<stored, earlier, saving, loaded>>

Init ==
  /\ stored = Nothing /\ earlier = {Nothing}
  /\ saving = [s \in Saves |-> "idle"]
  /\ loaded = [l \in Loads |-> "idle"]

Start(s) ==
  /\ saving[s] = "idle"
  /\ saving' = [saving EXCEPT ![s] = "running"]
  /\ UNCHANGED <<stored, earlier, loaded>>

Commit(s) ==
  /\ saving[s] = "running"
  /\ saving' = [saving EXCEPT ![s] = "saved"]
  /\ stored' = s /\ earlier' = earlier \cup {s}
  /\ UNCHANGED loaded

Abort(s) ==
  /\ saving[s] = "running"
  /\ \E outcome \in {"failed", "killed"} : saving' = [saving EXCEPT ![s] = outcome]
  /\ UNCHANGED <<stored, earlier, loaded>>

\* What the path holds becomes what a loss of power leaves there.
Persist ==
  /\ earlier' = {stored}
  /\ UNCHANGED <<stored, saving, loaded>>

LosePower ==
  /\ stored' \in earlier
  /\ earlier' = {stored'}
  /\ saving' = [s \in Saves |-> IF saving[s] = "running" THEN "killed" ELSE saving[s]]
  /\ UNCHANGED loaded

Load(l) ==
  /\ loaded[l] = "idle"
  /\ loaded' = [loaded EXCEPT ![l] = IF stored = Nothing THEN "none" ELSE stored]
  /\ UNCHANGED <<stored, earlier, saving>>

Next ==
  \/ \E s \in Saves : Start(s) \/ Commit(s) \/ Abort(s)
  \/ Persist \/ LosePower
  \/ \E l \in Loads : Load(l)

Spec == Init /\ [][Next]_vars
=============================================================================
