--------------------------- MODULE TemporalEvidence ---------------------------
(***************************************************************************)
(* The way of an event table through the estimator: EventFit chooses the   *)
(* schema and the representation of its history, _fit_event_table builds   *)
(* the map for that representation, and TemporalReplay fits it and serves  *)
(* with it.                                                                *)
(***************************************************************************)
EXTENDS EventFit, TemporalReplay

Marked(schema) == Len(schema.values)

\* The flags and the mark columns the map is constructed with.
Installed ==
    [values  |-> Marked(deployed.schema),
     context |-> deployed.representation \in {"laplace_context", "laplace_context_tree"},
     tree    |-> deployed.representation = "laplace_context_tree"]

ChoiceForgotten ==
    /\ frame' = <<>> /\ proposals' = <<>> /\ cache' = <<>> /\ evaluated' = <<>> /\ reports' = <<>>
    /\ selected' = None /\ deployed' = None /\ unseen' = FALSE
    /\ task' = "classification" /\ settings' = [context |-> FALSE, tree |-> FALSE]
    /\ source' = "explicit" /\ phase' = "replay"

\* The choice is over: of it the replay reads the map alone.
Install ==
    /\ phase = "fitted" /\ deployed # None
    /\ deployed.representation # "raw"
    /\ Installed \in Representations
    /\ map' = Constructed(Installed)
    /\ ChoiceForgotten
    /\ UNCHANGED <<table, facts>>

Init ==
    /\ EventInit
    /\ map = [fitted |-> FALSE] /\ Unplayed

Next ==
    \/ EventNext /\ UNCHANGED replayVars
    \/ Install
    \/ phase = "replay" /\ ReplayNext /\ UNCHANGED eventVars

Spec == Init /\ [][Next]_<<eventVars, replayVars>>
=============================================================================
