------------------------------ MODULE Scheduler ------------------------------
(***************************************************************************)
(* scheduler.py and the instantiation of templates (routers/templates.py): *)
(* jobs are registered from the rows at the start, and when a template is  *)
(* instantiated; a job that fires inserts a run of its workflow and        *)
(* executes it.  APScheduler starts a job no second time while it runs.    *)
(***************************************************************************)
EXTENDS WorkflowTables

CONSTANTS Firings,   \* moments at which a job may fire; each names its run
          Templates  \* the rows that templates make

ASSUME TemplatesAssumption == Templates \subseteq Rows

VARIABLES
    jobs,         \* the schedule of each workflow's job, or None
    firing,       \* each firing: place, workflow, and whether its graph has bad ids
    registering   \* workflows just instantiated, the job not yet registered

schedulerVars == <<jobs, firing, registering>>

SchedulerTypeOK ==
    /\ jobs \in [Workflows -> {row.schedule : row \in Rows} \cup {None}]
    /\ firing \in [Firings ->
          [pc : {"none", "fired", "found", "inserted", "running", "done", "dead"},
           workflow : Workflows \cup {None}, badIds : BOOLEAN]]
    /\ registering \subseteq Workflows \X Rows

\* _add_job: a schedule that is no cron expression is only worth a warning.
Job(schedule) == IF schedule \in {None, Invalid} THEN None ELSE schedule

-----------------------------------------------------------------------------
(* Plausible mistakes.                                                     *)

\* Only workflows with trigger "cron" are registered at the start.
StartSkipsMessages ==
    [w \in Workflows |-> IF ~Exists(w) \/ workflows[w].trigger # "cron" THEN None
                         ELSE Job(workflows[w].schedule)]

\* The run is created, its execution left to nobody.
PrepareForgets(f) ==
    /\ firing[f].pc = "inserted"
    /\ firing' = [firing EXCEPT ![f].pc = "done"]
    /\ UNCHANGED <<tables, jobs, registering>>

-----------------------------------------------------------------------------

\* start_scheduler: whatever the trigger.
StartJobs ==
    [w \in Workflows |-> IF ~Exists(w) THEN None ELSE Job(workflows[w].schedule)]

SchedulerInit ==
    /\ jobs = StartJobs
    /\ firing = [f \in Firings |-> [pc |-> "none", workflow |-> None, badIds |-> FALSE]]
    /\ registering = {}

\* instantiate_template: the row, with its agents, in one commit.
Instantiate(w) ==
    /\ Edit
    /\ workflows[w] = None
    /\ \E row \in Templates :
          /\ workflows' = [workflows EXCEPT ![w] = row]
          /\ registering' = registering \cup {<<w, row>>}
          /\ changed' = IF row.trigger = "cron" THEN changed ELSE changed \cup {w}
    /\ UNCHANGED <<jobs, firing, agent, status, of, task, harmed, faults>>

\* It refreshes the row and registers the job, by the template's schedule.  If
\* the row is gone, or the refresh fails, the client is told of an error.
Register(w, row) ==
    /\ <<w, row>> \in registering
    /\ registering' = registering \ {<<w, row>>}
    /\ \/ /\ Exists(w)
          /\ jobs' = [jobs EXCEPT ![w] = IF row.trigger = "cron" THEN Job(row.schedule) ELSE None]
          /\ UNCHANGED <<faults, harmed>>
       \/ ~Exists(w) /\ UNCHANGED <<jobs, faults, harmed>>
       \/ Harm(w) /\ UNCHANGED jobs
    /\ UNCHANGED <<firing, workflows, agent, status, of, task, changed, edits>>

-----------------------------------------------------------------------------
(* _trigger_workflow                                                       *)

MoveTo(f, pc) == firing' = [firing EXCEPT ![f].pc = pc]

Busy(w) == \E f \in Firings : firing[f].workflow = w /\ firing[f].pc \notin {"none", "done", "dead"}

Fire(f, w) ==
    /\ jobs[w] # None /\ ~Busy(w)
    /\ firing[f].pc = "none"
    /\ firing' = [firing EXCEPT ![f] = [@ EXCEPT !.pc = "fired", !.workflow = w]]
    /\ UNCHANGED <<tables, jobs, registering>>

\* The workflow is read, with its graph.  The job of a deleted one is skipped.
Find(f) ==
    LET w == firing[f].workflow IN
    /\ firing[f].pc = "fired"
    /\ \/ /\ Exists(w)
          /\ firing' = [firing EXCEPT ![f].pc = "found", ![f].badIds = workflows[w].badIds]
          /\ UNCHANGED <<faults, harmed>>
       \/ ~Exists(w) /\ MoveTo(f, "done") /\ UNCHANGED <<faults, harmed>>
       \/ MoveTo(f, "dead") /\ Harm(f)
    /\ UNCHANGED <<jobs, registering, workflows, agent, status, of, task, changed, edits>>

\* The run is inserted.
Insert(f) ==
    LET w == firing[f].workflow IN
    /\ firing[f].pc = "found"
    /\ \/ InsertRun(f, w) /\ MoveTo(f, "inserted") /\ UNCHANGED <<faults, harmed>>
       \/ ~Exists(w) /\ MoveTo(f, "dead") /\ UNCHANGED <<status, of, faults, harmed>>
       \/ /\ MoveTo(f, "dead") /\ Harm(f)
          /\ InsertRun(f, w) \/ UNCHANGED <<status, of>>
    /\ UNCHANGED <<jobs, registering, workflows, agent, task, changed, edits>>

\* The row is refreshed, the agents of the graph are read, run_workflow begins.
\* It does not if the row is gone or an agent_id is no UUID.
Prepare(f) ==
    LET CanRun == status[f] # "deleted" /\ ~firing[f].badIds IN
    /\ firing[f].pc = "inserted"
    /\ \/ /\ CanRun /\ MoveTo(f, "running")
          /\ task' = [task EXCEPT ![f] = "starting"]
          /\ UNCHANGED <<faults, harmed>>
       \/ ~CanRun /\ MoveTo(f, "dead") /\ UNCHANGED <<task, faults, harmed>>
       \/ MoveTo(f, "dead") /\ Harm(f) /\ UNCHANGED task
    /\ UNCHANGED <<jobs, registering, workflows, agent, status, of, changed, edits>>

Finish(f) ==
    /\ firing[f].pc = "running" /\ (Over(f) \/ task[f] = "raised")
    /\ MoveTo(f, "done")
    /\ UNCHANGED <<tables, jobs, registering>>

Trigger(f) == Find(f) \/ Insert(f) \/ Prepare(f) \/ Finish(f)

Idle(f) == firing[f].pc \in {"none", "done", "dead"}

\* The jobs are kept in memory: they are registered anew.
SchedulerRestart ==
    /\ jobs' = StartJobs
    /\ firing' = [f \in Firings |-> IF Idle(f) THEN firing[f] ELSE [firing[f] EXCEPT !.pc = "dead"]]
    /\ registering' = {}
=============================================================================
