------------------------------- MODULE Triggers -------------------------------
(***************************************************************************)
(* The Slack bot and the scheduler at work on the same workflows and runs, *)
(* in one process that may be restarted, while the API changes the rows.   *)
(***************************************************************************)
EXTENDS SlackBot, Scheduler

CONSTANT MaxTriggers  \* bound: events delivered and jobs fired

\* A run is named after its trigger, and no trigger is of both kinds.
ASSUME RunsAssumption == Runs = Deliveries \cup Firings /\ Deliveries \cap Firings = {}

vars == <<tables, slackVars, schedulerVars>>

Init == TablesInit /\ SlackInit /\ SchedulerInit

\* The process is restarted: main.py's lifespan starts the bot and the scheduler.
Restart ==
    /\ TablesRestart({d \in Deliveries : ~Handled(d)} \cup {f \in Firings : ~Idle(f)})
    /\ SlackRestart
    /\ SchedulerRestart

MoreTriggers ==
    Cardinality({d \in Deliveries : handler[d].pc # "none"})
        + Cardinality({f \in Firings : firing[f].pc # "none"}) < MaxTriggers

SlackNext == \E d \in Deliveries : (MoreTriggers /\ Deliver(d)) \/ Handle(d)

SchedulerNext ==
    \/ \E w \in Workflows : Instantiate(w) \/ \E row \in Rows : Register(w, row)
    \/ \E f \in Firings : Trigger(f) \/ \E w \in Workflows : MoreTriggers /\ Fire(f, w)

Next ==
    \/ TablesNext /\ UNCHANGED <<slackVars, schedulerVars>>
    \/ SlackNext /\ UNCHANGED schedulerVars
    \/ SchedulerNext /\ UNCHANGED slackVars
    \/ Restart

Spec == Init /\ [][Next]_vars

\* Every await of a task returns or raises; a review is answered or times out.
Fairness ==
    /\ \A d \in Deliveries : WF_vars(Handle(d) /\ UNCHANGED schedulerVars)
    /\ \A f \in Firings : WF_vars(Trigger(f) /\ UNCHANGED slackVars)
    /\ \A r \in Runs : WF_vars(Advance(r) /\ UNCHANGED <<slackVars, schedulerVars>>)

FairSpec == Spec /\ Fairness

-----------------------------------------------------------------------------
(* Properties                                                              *)

\* The type invariant.
TypeOK == TablesTypeOK /\ SlackTypeOK /\ SchedulerTypeOK

\* A workflow's job has the row's schedule.  It may have another one, or be there
\* for a row that is not, or be missing, only if the row was changed since the
\* start (by its endpoints, or made of a template whose trigger is not "cron"), or
\* if the registration is on its way or has failed.
JobsMatchRows ==
    \A w \in Workflows :
        \/ jobs[w] = IF Exists(w) THEN Job(workflows[w].schedule) ELSE None
        \/ w \in changed \cup harmed
        \/ \E row \in Rows : <<w, row>> \in registering

\* What the user is told.  An answer is the last message of a completed run, or
\* the model's own.  "Workflow completed." means that there is none: the run has
\* failed, was deleted, or has completed without any node saying a word.  That
\* there was an error does not mean that there is no completed run only if a fault
\* hit the task.  A fact is cut out of the reply only for the agent's memory.
RepliesTellOutcome ==
    \A d \in Deliveries :
        LET h == handler[d] IN
        /\ h.reply = "answer" /\ h.workflow # None /\ status[d] # "deleted" =>
              status[d] = "completed" /\ task[d] = "over"
        /\ h.reply = "Workflow completed." =>
              status[d] \in {"failed", "deleted"} \/ task[d] = "silent"
        /\ h.reply = "sorry" /\ status[d] = "completed" => d \in harmed
        /\ h.cut /\ h.pc = "done" => d \in facts \cup harmed \/ ~agent

\* An event has effects twice, a message saved, a run or a reply, only if Slack
\* did not see its acknowledgement in time.
Acted(d) == saved[d] # {} \/ status[d] # "none" \/ d \in posted \/ d \in facts

EventsActOnce ==
    \A e \in Events :
        Acted(<<e, 1>>) /\ Acted(<<e, 2>>) => handler[<<e, 1>>].ack \in {"unseen", "late"}

\* An acknowledged event is answered, unless a fault hit its task or the agent
\* was deleted meanwhile.
EventsAreAnswered ==
    \A d \in Deliveries :
        handler[d].pc = "acked" ~> d \in posted \/ d \in harmed \/ (handler[d].agent /\ ~agent)

\* A run that was created is executed to its end, unless a fault hit its trigger
\* or its task, or its graph names no valid agent: then it stays pending.
RunsAreExecuted ==
    \A r \in Runs :
        status[r] = "pending" ~>
            \/ status[r] \in {"completed", "failed", "deleted"}
            \/ r \in harmed
            \/ r \in Firings /\ firing[r].badIds
=============================================================================
