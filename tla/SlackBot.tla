------------------------------- MODULE SlackBot -------------------------------
(***************************************************************************)
(* slack_bot.py: a task per delivered event acknowledges it, looks for the *)
(* agent, saves the message, has a workflow or the agent itself answer,    *)
(* saves the answer and posts it.  Every step ends at an await, between    *)
(* which the tables change.  Slack delivers an event again if it has not   *)
(* seen the acknowledgement.                                               *)
(***************************************************************************)
EXTENDS WorkflowTables

CONSTANT Events  \* events that Slack delivers

\* The second delivery of an event is the one that is not acknowledged in time.
Deliveries == Events \X {1, 2}

VARIABLES
    ignored,  \* the events that come from a bot or have no text; never changed
    handler,  \* each delivery's task: place, agent found, workflow chosen, reply,
              \* and (history) what became of its acknowledgement, and whether
              \* it was cut out of the reply that a fact be remembered
    saved,    \* history: messages saved by each delivery's task
    posted,   \* deliveries whose reply was posted
    facts     \* deliveries whose fact is in the agent's memory

slackVars == <<ignored, handler, saved, posted, facts>>

Places == {"none", "delivered", "acked", "ignored", "found", "saved", "routed", "direct",
           "remembering", "running", "replying", "posting", "done", "dead"}

SlackTypeOK ==
    /\ ignored \subseteq Events
    /\ handler \in [Deliveries ->
          [pc : Places, ack : {"none", "seen", "unseen", "late"}, agent : BOOLEAN,
           workflow : Workflows \cup {None},
           reply : {"none", "answer", "sorry", "Workflow completed."}, cut : BOOLEAN]]
    /\ saved \in [Deliveries -> SUBSET {"user", "assistant"}]
    /\ posted \subseteq Deliveries /\ facts \subseteq Deliveries

SlackInit ==
    /\ ignored \in SUBSET Events
    /\ handler = [d \in Deliveries |-> [pc |-> "none", ack |-> "none", agent |-> FALSE,
                                        workflow |-> None, reply |-> "none", cut |-> FALSE]]
    /\ posted = {} /\ facts = {}
    /\ saved = [d \in Deliveries |-> {}]

Go(d, pc) == handler' = [handler EXCEPT ![d].pc = pc]

Reply(d, reply) == handler' = [handler EXCEPT ![d].pc = "replying", ![d].reply = reply]

\* The task ends by an exception.
Die(d) == Go(d, "dead")

-----------------------------------------------------------------------------
(* Plausible mistakes, each a wrong version of the definition it is named  *)
(* after.                                                                  *)

\* The exception of the acknowledgement is swallowed.
AckAnyway(d) ==
    /\ handler[d].pc = "delivered"
    /\ \/ handler' = [handler EXCEPT ![d].pc = "acked", ![d].ack = "seen"] 
          /\ UNCHANGED <<faults, harmed>>
       \/ Go(d, "acked") /\ Harm(d)
    /\ UNCHANGED <<ignored, saved, posted, facts, workflows, agent, status, of, task, changed, edits>>

\* The run's last message whatever its status.
OutcomeUnchecked(r) == "answer"

\* _save_message does not look whether there is an agent.
SaveNeedsAgent(d, role, from, to) ==
    /\ handler[d].pc = from
    /\ \/ handler[d].agent /\ agent /\ saved' = [saved EXCEPT ![d] = @ \cup {role}] /\ Go(d, to)
       \/ ~(handler[d].agent /\ agent) /\ Die(d) /\ UNCHANGED saved
    /\ UNCHANGED <<tables, ignored, posted, facts>>

-----------------------------------------------------------------------------
(* _handle_event                                                           *)

\* Slack delivers an event a second time if the acknowledgement does not come.
Deliver(d) ==
    LET first == handler[<<d[1], 1>>] IN
    /\ handler[d].pc = "none"
    /\ d[2] = 2 => first.pc # "none" /\ first.ack # "seen"
    /\ handler' = [handler EXCEPT
          ![d].pc = "delivered",
          ![<<d[1], 1>>].ack = IF d[2] = 2 /\ first.pc = "delivered" THEN "late" ELSE @]
    /\ UNCHANGED <<tables, ignored, saved, posted, facts>>

\* The bot's own messages and those without text are ignored.  If sending the
\* acknowledgement raises, the task ends; if only Slack does not see it, the
\* task goes on.
Ack(d) ==
    LET Acknowledged(how) ==
            handler' = [handler EXCEPT ![d].pc = IF d[1] \in ignored THEN "ignored" ELSE "acked",
                                       ![d].ack = IF @ = "late" THEN "late" ELSE how]
    IN  /\ handler[d].pc = "delivered"
        /\ \/ Acknowledged("seen") /\ UNCHANGED <<faults, harmed>>
           \/ Acknowledged("unseen") /\ Harm(d)
           \/ Die(d) /\ Harm(d)
        /\ UNCHANGED <<ignored, saved, posted, facts, workflows, agent, status, of, task, changed, edits>>

FindAgent(d) ==
    /\ handler[d].pc = "acked"
    /\ \/ /\ handler' = [handler EXCEPT ![d].pc = "found", ![d].agent = agent]
          /\ UNCHANGED <<faults, harmed>>
       \/ Die(d) /\ Harm(d)
    /\ UNCHANGED <<ignored, saved, posted, facts, workflows, agent, status, of, task, changed, edits>>

\* _save_message, outside of the try: the foreign key wants the agent.  If none
\* was found nothing is saved.
Save(d, role, from, to) ==
    /\ handler[d].pc = from
    /\ \/ /\ handler[d].agent /\ agent
          /\ saved' = [saved EXCEPT ![d] = @ \cup {role}]
          /\ Go(d, to) /\ UNCHANGED <<faults, harmed>>
       \/ ~handler[d].agent /\ Go(d, to) /\ UNCHANGED <<saved, faults, harmed>>
       \/ handler[d].agent /\ ~agent /\ Die(d) /\ UNCHANGED <<saved, faults, harmed>>
       \/ handler[d].agent /\ Die(d) /\ Harm(d) /\ UNCHANGED saved
    /\ UNCHANGED <<ignored, posted, facts, workflows, agent, status, of, task, changed, edits>>

\* _find_message_workflow: the first in the order of the SELECT, which has none.
Route(d) ==
    LET Candidates == {w \in Workflows : Exists(w) /\ workflows[w].trigger = "message"}
    IN  /\ handler[d].pc = "saved"
        /\ \/ /\ handler[d].agent
              /\ \E w \in Candidates :
                    handler' = [handler EXCEPT ![d].pc = "routed", ![d].workflow = w]
              /\ UNCHANGED <<faults, harmed>>
           \/ /\ ~handler[d].agent \/ Candidates = {}
              /\ Go(d, "direct")
              /\ UNCHANGED <<faults, harmed>>
           \/ handler[d].agent /\ Reply(d, "sorry") /\ Harm(d)
        /\ UNCHANGED <<ignored, saved, posted, facts, workflows, agent, status, of, task, changed, edits>>

\* _run_via_workflow inserts the run and executes it.  The commit may fail, or
\* have taken effect when it seems to fail.
StartRun(d) ==
    LET w == handler[d].workflow IN
    /\ handler[d].pc = "routed"
    /\ \/ /\ InsertRun(d, w) /\ Go(d, "running")
          /\ task' = [task EXCEPT ![d] = "starting"]
          /\ UNCHANGED <<faults, harmed>>
       \/ /\ ~Exists(w)
          /\ Reply(d, "sorry")
          /\ UNCHANGED <<status, of, task, faults, harmed>>
       \/ /\ Reply(d, "sorry") /\ Harm(d)
          /\ InsertRun(d, w) \/ UNCHANGED <<status, of>>
          /\ UNCHANGED task
    /\ UNCHANGED <<ignored, saved, posted, facts, workflows, agent, changed, edits>>

\* `run_obj.output` is there when the run has completed, but its messages may be
\* empty.
Outcome(r) == IF status[r] = "completed" /\ task[r] # "silent" THEN "answer"
              ELSE "Workflow completed."

\* The row is read again for the output, whose last message is the reply.
FinishRun(d) ==
    /\ handler[d].pc = "running"
    /\ \/ Over(d) /\ Reply(d, Outcome(d)) /\ UNCHANGED <<faults, harmed>>
       \/ Over(d) /\ Reply(d, "sorry") /\ Harm(d)
       \/ task[d] = "raised" /\ Reply(d, "sorry") /\ UNCHANGED <<faults, harmed>>
    /\ UNCHANGED <<ignored, saved, posted, facts, workflows, agent, status, of, task, changed, edits>>

\* _run_agent_direct: memory and knowledge are left out if they cannot be had;
\* the model answers, perhaps with a fact to remember, or raises.
RunDirect(d) ==
    /\ handler[d].pc = "direct"
    /\ \/ Reply(d, "answer")
       \/ Reply(d, "sorry")
       \/ /\ handler[d].agent
          /\ handler' = [handler EXCEPT ![d].pc = "remembering", ![d].cut = TRUE]
    /\ UNCHANGED <<tables, ignored, saved, posted, facts>>

\* _write_remember_markers: the marker is cut out whatever set_memory returns.
Remember(d) ==
    /\ handler[d].pc = "remembering"
    /\ Reply(d, "answer")
    /\ \/ agent /\ facts' = facts \cup {d} /\ UNCHANGED <<faults, harmed>>
       \/ ~agent /\ UNCHANGED <<facts, faults, harmed>>
       \/ agent /\ Harm(d) /\ UNCHANGED facts
    /\ UNCHANGED <<ignored, saved, posted, workflows, agent, status, of, task, changed, edits>>

Post(d) ==
    /\ handler[d].pc = "posting"
    /\ Go(d, "done")
    /\ \/ posted' = posted \cup {d} /\ UNCHANGED <<faults, harmed>>
       \/ UNCHANGED posted /\ Harm(d)
    /\ UNCHANGED <<ignored, saved, facts, workflows, agent, status, of, task, changed, edits>>

Handle(d) ==
    \/ Ack(d) \/ FindAgent(d) \/ Save(d, "user", "found", "saved")
    \/ Route(d) \/ StartRun(d) \/ FinishRun(d) \/ RunDirect(d) \/ Remember(d)
    \/ Save(d, "assistant", "replying", "posting") \/ Post(d)

Handled(d) == handler[d].pc \in {"none", "ignored", "done", "dead"}

SlackRestart ==
    /\ handler' = [d \in Deliveries |-> IF Handled(d) THEN handler[d]
                                        ELSE [handler[d] EXCEPT !.pc = "dead"]]
    /\ UNCHANGED <<ignored, saved, posted, facts>>
=============================================================================
