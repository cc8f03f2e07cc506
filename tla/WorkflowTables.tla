---------------------------- MODULE WorkflowTables ----------------------------
(***************************************************************************)
(* The rows that the Slack bot and the scheduler work on: workflows, with  *)
(* the endpoints that change them (routers/workflows.py), the agent that   *)
(* serves Slack, and workflow_runs with what run_workflow does to a row    *)
(* (RunLifecycle has the details: here it walks along RunStatus's edges).  *)
(***************************************************************************)
EXTENDS Naturals, FiniteSets

CONSTANTS
    Workflows,  \* ids of workflows
    Rows,       \* what a workflow may be: see RowsAssumption
    Runs,       \* ids of runs; a run is named after what triggered it
    None,       \* no row yet, no schedule
    Gone,       \* the row was deleted; its id is not used again
    Invalid,    \* a schedule that is no cron expression
    MaxEdits,   \* bound: workflows created, updated or deleted, agents deleted
    MaxFaults   \* bound: statements and calls that fail, restarts

\* A "message" workflow's graph contains the agent that serves Slack.  badIds:
\* some agent_id of the graph is no UUID.
ASSUME RowsAssumption ==
    \A row \in Rows : /\ DOMAIN row = {"trigger", "schedule", "badIds"}
                      /\ row.trigger \in {"message", "cron"} /\ row.badIds \in BOOLEAN
ASSUME NoneAssumption == None \notin Workflows /\ {None, Gone} \cap Rows = {} /\ None # Gone
ASSUME BoundsAssumption == MaxEdits \in Nat /\ MaxFaults \in Nat

VARIABLES
    workflows,  \* the row of each workflow, or None or Gone
    agent,      \* Boolean: an agent has "slack" among its channels
    status,     \* workflow_runs.status
    of,         \* workflow_runs.workflow_id
    task,       \* run_workflow's progress on each run; "silent" is over without
                \* that any node has appended a message
    changed,    \* history: workflows changed since the start in a way that
                \* registers no job
    harmed,     \* history: runs whose trigger or task met a fault
    edits, faults

tables == <<workflows, agent, status, of, task, changed, harmed, edits, faults>>

TablesTypeOK ==
    /\ workflows \in [Workflows -> Rows \cup {None, Gone}]
    /\ agent \in BOOLEAN
    /\ status \in [Runs -> {"none", "pending", "running", "completed", "failed", "deleted"}]
    /\ of \in [Runs -> Workflows \cup {None}]
    /\ task \in [Runs -> {"none", "starting", "graph", "over", "silent", "raised"}]
    /\ changed \subseteq Workflows /\ harmed \subseteq Workflows \cup Runs
    /\ edits \in 0..MaxEdits /\ faults \in 0..MaxFaults

TablesInit ==
    /\ workflows \in [Workflows -> Rows \cup {None}]
    /\ agent \in BOOLEAN
    /\ status = [r \in Runs |-> "none"]
    /\ of = [r \in Runs |-> None]
    /\ task = [r \in Runs |-> "none"]
    /\ changed = {} /\ harmed = {}
    /\ edits = 0 /\ faults = 0

\* A fault that r, a trigger or its run, does not get over.
Harm(r) == /\ faults < MaxFaults /\ faults' = faults + 1
           /\ harmed' = harmed \cup {r}

Edit == edits < MaxEdits /\ edits' = edits + 1

Exists(w) == workflows[w] \in Rows

Working(r) == task[r] \in {"starting", "graph"}
Over(r)    == task[r] \in {"over", "silent"}

-----------------------------------------------------------------------------
(* The endpoints                                                           *)

Deleted(w) == [r \in Runs |-> IF of[r] = w THEN "deleted" ELSE status[r]]

\* create_workflow, update_workflow, delete_workflow.
EditWorkflow(w) ==
    /\ Edit
    /\ changed' = changed \cup {w}
    /\ \/ /\ workflows[w] # Gone
          /\ \E row \in Rows : workflows' = [workflows EXCEPT ![w] = row]
          /\ UNCHANGED status
       \/ /\ Exists(w)
          /\ workflows' = [workflows EXCEPT ![w] = Gone]
          /\ status' = Deleted(w)
    /\ UNCHANGED <<agent, of, task, harmed, faults>>

DeleteSlackAgent ==
    /\ Edit /\ agent
    /\ agent' = FALSE
    /\ UNCHANGED <<workflows, status, of, task, changed, harmed, faults>>

-----------------------------------------------------------------------------
(* run_workflow                                                            *)

\* INSERT of a run of w; the foreign key wants the workflow.
InsertRun(r, w) ==
    /\ Exists(w)
    /\ status' = [status EXCEPT ![r] = "pending"]
    /\ of' = [of EXCEPT ![r] = w]

\* `if run_obj:` before every change of status.
SetStatus(r, s) ==
    status' = IF status[r] = "deleted" THEN status ELSE [status EXCEPT ![r] = s]

\* From pending to running to an outcome; the reviews in between are left out.
\* A graph can end without a message: start, condition, end.
Advance(r) ==
    \E t \in {<<"starting", "graph", "running">>, <<"graph", "over", "completed">>,
              <<"graph", "silent", "completed">>, <<"graph", "over", "failed">>} :
        /\ task[r] = t[1]
        /\ task' = [task EXCEPT ![r] = t[2]]
        /\ SetStatus(r, t[3])
        /\ UNCHANGED <<workflows, agent, of, changed, harmed, edits, faults>>

\* No connection to mark the run running: the except clause marks it failed.
NeverBegins(r) ==
    /\ task[r] = "starting" /\ Harm(r)
    /\ task' = [task EXCEPT ![r] = "over"]
    /\ SetStatus(r, "failed")
    /\ UNCHANGED <<workflows, agent, of, changed, edits>>

\* What a COMMIT has written whose acknowledgement is lost.
Unacknowledged(r) == IF task[r] = "starting" THEN {"running", "failed"}
                                             ELSE {"completed", "failed"}

\* A transaction of run_workflow's session fails, which cannot record that any
\* more, or the one that records it does; or the row was deleted between its
\* SELECT and its UPDATE.
Raise(r) ==
    /\ Working(r)
    /\ task' = [task EXCEPT ![r] = "raised"]
    /\ \/ Harm(r) /\ UNCHANGED status
       \/ Harm(r) /\ \E s \in Unacknowledged(r) : SetStatus(r, s)
       \/ status[r] = "deleted" /\ UNCHANGED <<status, faults, harmed>>
    /\ UNCHANGED <<workflows, agent, of, changed, edits>>

TablesNext ==
    \/ \E w \in Workflows : EditWorkflow(w)
    \/ DeleteSlackAgent
    \/ \E r \in Runs : Advance(r) \/ NeverBegins(r) \/ Raise(r)

\* What a restart leaves: the rows.  `others` are the triggers it interrupts.
TablesRestart(others) ==
    /\ faults < MaxFaults /\ faults' = faults + 1
    /\ task' = [r \in Runs |-> IF Working(r) THEN "raised" ELSE task[r]]
    /\ harmed' = harmed \cup others \cup {r \in Runs : Working(r)}
    /\ changed' = {}
    /\ UNCHANGED <<workflows, agent, status, of, edits>>
=============================================================================
