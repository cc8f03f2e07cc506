------------------------------ MODULE RunStatus ------------------------------
(***************************************************************************)
(* What workflow_runs.status promises to every reader of the table: the   *)
(* API, the dashboard, job_stats_collector.  A row is created pending,    *)
(* moves along the edges below and stops in completed or failed; deleting *)
(* the workflow removes it (ON DELETE CASCADE).  Two disturbances add     *)
(* edges: a database fault (a run that could not be marked running fails  *)
(* from pending) and the operator's documented reset (a paused run that   *)
(* was still alive comes back).  Neither leads out of completed.          *)
(***************************************************************************)
CONSTANTS
    Runs,          \* the identifiers of workflow_runs rows
    FaultsHappen,  \* a Boolean: TRUE if the database may fail a transaction
    ResetsHappen   \* a Boolean: TRUE if an operator may run the reset of hitl.py

VARIABLE status

Terminal == {"completed", "failed"}
Live     == {"pending", "running", "awaiting_review"}
Statuses == {"none", "deleted"} \cup Live \cup Terminal

\* The edges of the status column in an undisturbed system.
Edges ==
    {<<"none", "pending">>,
     <<"pending", "running">>,
     <<"running", "awaiting_review">>,
     <<"awaiting_review", "running">>,
     <<"running", "completed">>,
     <<"running", "failed">>,
     <<"awaiting_review", "failed">>}
    \cup ((Live \cup Terminal) \X {"deleted"})

FaultEdges == {<<"pending", "failed">>}
ResetEdges == {<<"failed", "running">>}

MayMove(s, t) ==
    \/ s = t
    \/ <<s, t>> \in Edges
    \/ FaultsHappen /\ <<s, t>> \in FaultEdges
    \/ ResetsHappen /\ <<s, t>> \in ResetEdges

Init == status = [r \in Runs |-> "none"]

\* One UPDATE or DELETE may move several rows, each along an edge.
Next == /\ status' \in [Runs -> Statuses]
        /\ \A r \in Runs : MayMove(status[r], status'[r])

Spec == Init /\ [][Next]_status
=============================================================================
