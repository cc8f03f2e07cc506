---------------------------- MODULE TriggersProofs ----------------------------
(***************************************************************************)
(* Proofs about Triggers, for any workflows, rows, templates, events,      *)
(* firings and bounds: the type invariant, that jobs match rows, that      *)
(* replies tell the outcome, and that an event acts once.                  *)
(***************************************************************************)
EXTENDS Triggers, TLAPS

\* A run's status follows its task; a run nobody has inserted has no workflow.
RunOK(r) ==
    /\ task[r] = "none" => status[r] \in {"none", "pending", "deleted"}
    /\ task[r] = "starting" => status[r] \in {"pending", "deleted"}
    /\ task[r] = "graph" => status[r] \in {"running", "deleted"}
    /\ task[r] = "over" => status[r] \in {"completed", "failed", "deleted"}
    /\ task[r] = "silent" => status[r] \in {"completed", "deleted"}
    /\ task[r] = "raised" => r \in harmed \/ status[r] = "deleted"
    /\ status[r] = "none" => of[r] = None

NoRun(r) == status[r] = "none" /\ task[r] = "none"

\* The places of a handler before its run is inserted, and those before a workflow
\* is chosen.
Unrouted == {"none", "delivered", "acked", "ignored", "found", "saved", "direct", "remembering"}

PlaceOK(d) ==
    /\ handler[d].pc \in Unrouted \cup {"routed"} => NoRun(d)
    /\ handler[d].pc \in Unrouted => handler[d].workflow = None
    /\ handler[d].pc = "routed" => handler[d].workflow \in Workflows
    /\ handler[d].reply # "none" => handler[d].pc \in {"replying", "posting", "done", "dead"}

ReplyOK(d) ==
    /\ handler[d].reply = "answer" =>
          handler[d].workflow = None \/ (task[d] = "over" /\ status[d] \in {"completed", "deleted"})
    /\ handler[d].reply = "Workflow completed." =>
          status[d] \in {"failed", "deleted"} \/ task[d] = "silent"
    /\ handler[d].reply = "sorry" => task[d] = "none" \/ d \in harmed \/ status[d] = "deleted"
    /\ handler[d].cut => handler[d].pc = "remembering" \/ d \in facts \cup harmed \/ ~agent

\* What the acknowledgement says of the handler's effects.
AckOK(d) ==
    /\ handler[d].pc \in {"none", "delivered"} => ~Acted(d) /\ handler[d].ack \in {"none", "late"}
    /\ handler[d].ack = "none" => handler[d].pc \in {"none", "delivered", "dead"} /\ ~Acted(d)

DeliveryOK(d) == PlaceOK(d) /\ ReplyOK(d) /\ AckOK(d)

\* A second delivery has its cause in the first.
SecondOK(e) ==
    handler[<<e, 2>>].pc # "none" =>
        \/ handler[<<e, 1>>].ack \in {"unseen", "late"}
        \/ handler[<<e, 1>>].pc = "dead" /\ handler[<<e, 1>>].ack = "none"

FiringOK(f) ==
    /\ firing[f].pc \in {"none", "fired", "found"} => NoRun(f)
    /\ firing[f].pc # "none" => firing[f].workflow \in Workflows
    /\ firing[f].pc = "inserted" => task[f] = "none" /\ status[f] # "none"

JobOK(w) ==
    \/ jobs[w] = IF Exists(w) THEN Job(workflows[w].schedule) ELSE None
    \/ w \in changed \cup harmed
    \/ \E row \in Rows : <<w, row>> \in registering

\* A job that is about to be registered is that of the row.
RegisteringOK(w, row) ==
    w \in changed \/ (workflows[w] = row /\ row.trigger = "cron")

IInv ==
    /\ TypeOK
    /\ \A r \in Runs : RunOK(r)
    /\ \A d \in Deliveries : DeliveryOK(d)
    /\ \A e \in Events : SecondOK(e)
    /\ \A f \in Firings : FiringOK(f)
    /\ \A w \in Workflows : JobOK(w)
    /\ \A p \in registering : RegisteringOK(p[1], p[2])

-----------------------------------------------------------------------------
(* What a step may do to the runs and the triggers it is not about         *)

\* A step that changes a run's row at most by deleting it keeps what it keeps.
LEMMA RunFrame ==
    ASSUME NEW r \in Runs, RunOK(r), task'[r] = task[r], of'[r] = of[r],
           status'[r] = status[r] \/ (status'[r] = "deleted" /\ status[r] # "none"),
           harmed \subseteq harmed'
    PROVE  RunOK(r)'
BY DEF RunOK

\* A run stays as it is, is deleted, or is moved by its task.
RunMoves(r) ==
    \/ status'[r] = status[r] /\ task'[r] = task[r]
    \/ status[r] # "none" /\ status'[r] = "deleted" /\ task'[r] = task[r]
    \/ /\ Working(r) /\ task'[r] # "none" /\ status'[r] # "none"
       /\ status[r] = "deleted" => status'[r] = "deleted"

LEMMA DeliveryFrame ==
    ASSUME NEW d \in Deliveries, RunOK(d), DeliveryOK(d), RunMoves(d),
           handler'[d] = handler[d], saved'[d] = saved[d],
           d \in posted' <=> d \in posted, d \in facts' <=> d \in facts,
           harmed \subseteq harmed', agent' => agent
    PROVE  DeliveryOK(d)'
<1>1. Working(d) => status[d] \in {"pending", "running", "deleted"} /\ task[d] # "none"
    BY DEF RunOK, Working
<1>2. NoRun(d) => NoRun(d)'
    BY <1>1 DEF NoRun, RunMoves
<1>3. PlaceOK(d)'
    BY <1>2 DEF DeliveryOK, PlaceOK
<1>4. ReplyOK(d)'
    <2>1. ReplyOK(d)
        BY DEF DeliveryOK
    <2>2. CASE Working(d)
        <3>1. status[d] = "deleted" => status'[d] = "deleted"
            BY DEF RunMoves
        <3>2. task[d] \notin {"none", "over", "silent"} /\ status[d] \notin {"completed", "failed"}
            BY <1>1, <2>2 DEF Working
        <3>. QED  BY <2>1, <3>1, <3>2 DEF ReplyOK
    <2>3. CASE ~Working(d)
        <3>1. task'[d] = task[d] /\ (status'[d] = status[d] \/ status'[d] = "deleted")
            BY <2>3 DEF RunMoves
        <3>. QED  BY <2>1, <3>1 DEF ReplyOK
    <2>. QED  BY <2>2, <2>3
<1>5. Acted(d)' => Acted(d)
    BY <1>1 DEF Acted, RunMoves
<1>6. AckOK(d)'
    BY <1>5 DEF DeliveryOK, AckOK
<1>. QED  BY <1>3, <1>4, <1>6 DEF DeliveryOK

LEMMA FiringFrame ==
    ASSUME NEW f \in Firings, RunOK(f), FiringOK(f), RunMoves(f), firing'[f] = firing[f]
    PROVE  FiringOK(f)'
BY DEF FiringOK, RunMoves, RunOK, Working, NoRun

\* Jobs and rows as they were, or a row changed.
LEMMA JobFrame ==
    ASSUME NEW w \in Workflows, JobOK(w), jobs'[w] = jobs[w],
           workflows'[w] = workflows[w] \/ w \in changed',
           changed \subseteq changed', harmed \subseteq harmed', registering \subseteq registering'
    PROVE  JobOK(w)'
BY DEF JobOK, Exists

LEMMA RegisteringFrame ==
    ASSUME NEW w \in Workflows, NEW row, RegisteringOK(w, row),
           workflows'[w] = workflows[w] \/ w \in changed', changed \subseteq changed'
    PROVE  RegisteringOK(w, row)'
BY DEF RegisteringOK

-----------------------------------------------------------------------------
(* The rows change under the triggers                                      *)

\* A fault, or none.
Harmless == UNCHANGED <<faults, harmed>>

LEMMA FaultType ==
    ASSUME TypeOK, NEW r \in Workflows \cup Runs, Harmless \/ Harm(r)
    PROVE  /\ harmed' \subseteq Workflows \cup Runs /\ faults' \in 0..MaxFaults
           /\ harmed \subseteq harmed'
BY BoundsAssumption DEF TypeOK, TablesTypeOK, Harmless, Harm

LEMMA EditType == ASSUME TypeOK, Edit PROVE edits' \in 0..MaxEdits
BY BoundsAssumption DEF TypeOK, TablesTypeOK, Edit

\* What no trigger takes part in.
LEMMA TablesStep ==
    ASSUME IInv, TablesTypeOK', UNCHANGED <<slackVars, schedulerVars>>,
           \A r \in Runs : RunMoves(r) /\ RunOK(r)',
           \A w \in Workflows : workflows'[w] = workflows[w] \/ w \in changed',
           changed \subseteq changed', harmed \subseteq harmed', agent' => agent
    PROVE  IInv'
<1>1. TypeOK'
    BY DEF IInv, TypeOK, SlackTypeOK, SchedulerTypeOK, slackVars, schedulerVars
<1>2. \A d \in Deliveries : DeliveryOK(d)'
    BY DeliveryFrame, RunsAssumption DEF IInv, slackVars
<1>3. \A e \in Events : SecondOK(e)'
    BY DEF IInv, SecondOK, slackVars
<1>4. \A f \in Firings : FiringOK(f)'
    BY FiringFrame, RunsAssumption DEF IInv, schedulerVars
<1>5. \A w \in Workflows : JobOK(w)'
    BY JobFrame DEF IInv, schedulerVars
<1>6. \A p \in registering' : RegisteringOK(p[1], p[2])'
    <2>1. \A p \in registering : p[1] \in Workflows
        BY DEF IInv, TypeOK, SchedulerTypeOK
    <2>. QED  BY <2>1, RegisteringFrame DEF IInv, schedulerVars
<1>. QED  BY <1>1, <1>2, <1>3, <1>4, <1>5, <1>6 DEF IInv

LEMMA EditWorkflowIInv ==
    ASSUME IInv, NEW w \in Workflows, EditWorkflow(w), UNCHANGED <<slackVars, schedulerVars>>
    PROVE  IInv'
<1>1. /\ UNCHANGED <<agent, of, task, harmed, faults>> /\ changed' = changed \cup {w}
      /\ edits' \in 0..MaxEdits
    BY EditType DEF EditWorkflow, IInv
<1>2. \/ status' = status
      \/ status' = Deleted(w)
    BY DEF EditWorkflow
<1>3. PICK row \in Rows \cup {Gone} : workflows' = [workflows EXCEPT ![w] = row]
    BY DEF EditWorkflow
<1>4. \A r \in Runs : status'[r] = status[r] \/ (status'[r] = "deleted" /\ status[r] # "none")
    BY <1>2, NoneAssumption DEF Deleted, IInv, RunOK
<1>5. TablesTypeOK'
    <2>1. status' \in [Runs -> {"none", "pending", "running", "completed", "failed", "deleted"}]
        BY <1>2 DEF IInv, TypeOK, TablesTypeOK, Deleted
    <2>2. workflows' \in [Workflows -> Rows \cup {None, Gone}]
        BY <1>3 DEF IInv, TypeOK, TablesTypeOK
    <2>. QED  BY <1>1, <2>1, <2>2 DEF IInv, TypeOK, TablesTypeOK
<1>6. \A r \in Runs : RunMoves(r) /\ RunOK(r)'
    BY <1>1, <1>4, RunFrame DEF RunMoves, IInv
<1>7. \A x \in Workflows : workflows'[x] = workflows[x] \/ x \in changed'
    BY <1>1, <1>3 DEF IInv, TypeOK, TablesTypeOK
<1>. QED  BY <1>1, <1>5, <1>6, <1>7, TablesStep

LEMMA DeleteSlackAgentIInv ==
    ASSUME IInv, DeleteSlackAgent, UNCHANGED <<slackVars, schedulerVars>>
    PROVE  IInv'
<1>1. /\ UNCHANGED <<workflows, status, of, task, changed, harmed, faults>>
      /\ agent' = FALSE /\ edits' \in 0..MaxEdits
    BY EditType DEF DeleteSlackAgent, IInv
<1>2. TablesTypeOK'
    BY <1>1 DEF IInv, TypeOK, TablesTypeOK
<1>3. \A r \in Runs : RunMoves(r) /\ RunOK(r)'
    BY <1>1, RunFrame DEF RunMoves, IInv
<1>. QED  BY <1>1, <1>2, <1>3, TablesStep

LEMMA AdvanceIInv ==
    ASSUME IInv, NEW r \in Runs, Advance(r), UNCHANGED <<slackVars, schedulerVars>>
    PROVE  IInv'
<1>1. UNCHANGED <<workflows, agent, of, changed, harmed, edits, faults>>
    BY DEF Advance
<1>2. PICK s \in {"running", "completed", "failed"}, t \in {"graph", "over", "silent"} :
          /\ Working(r)
          /\ t = "graph" <=> s = "running"
          /\ t = "silent" => s = "completed"
          /\ task' = [task EXCEPT ![r] = t]
          /\ status' = IF status[r] = "deleted" THEN status ELSE [status EXCEPT ![r] = s]
    <2>1. PICK x \in {<<"starting", "graph", "running">>, <<"graph", "over", "completed">>,
                       <<"graph", "silent", "completed">>, <<"graph", "over", "failed">>} :
              /\ task[r] = x[1]
              /\ task' = [task EXCEPT ![r] = x[2]]
              /\ SetStatus(r, x[3])
        BY DEF Advance
    <2>2. /\ x[1] \in {"starting", "graph"} /\ x[2] \in {"graph", "over", "silent"}
          /\ x[3] \in {"running", "completed", "failed"}
          /\ x[2] = "graph" <=> x[3] = "running"
          /\ x[2] = "silent" => x[3] = "completed"
        OBVIOUS
    <2>. QED  BY <2>1, <2>2 DEF SetStatus, Working
<1>3. /\ \A x \in Runs \ {r} : status'[x] = status[x] /\ task'[x] = task[x]
      /\ task'[r] = t
      /\ status'[r] = IF status[r] = "deleted" THEN "deleted" ELSE s
    BY <1>2 DEF IInv, TypeOK, TablesTypeOK
<1>4. TablesTypeOK'
    <2>1. task' \in [Runs -> {"none", "starting", "graph", "over", "silent", "raised"}]
        BY <1>2 DEF IInv, TypeOK, TablesTypeOK
    <2>2. status' \in [Runs -> {"none", "pending", "running", "completed", "failed", "deleted"}]
        BY <1>2 DEF IInv, TypeOK, TablesTypeOK
    <2>. QED  BY <1>1, <2>1, <2>2 DEF IInv, TypeOK, TablesTypeOK
<1>5. \A x \in Runs : RunMoves(x)
    BY <1>2, <1>3 DEF RunMoves
<1>6. RunOK(r)'
    BY <1>1, <1>2, <1>3 DEF RunOK
<1>7. \A x \in Runs \ {r} : RunOK(x)'
    BY <1>1, <1>3, RunFrame DEF IInv
<1>. QED  BY <1>1, <1>4, <1>5, <1>6, <1>7, TablesStep

\* The run r, which is at work, ends by a fault, or because its row is gone; its
\* row may have moved.
LEMMA FaultyIInv ==
    ASSUME IInv, NEW r \in Runs, Working(r), Harmless \/ Harm(r),
           NEW t \in {"over", "raised"}, task' = [task EXCEPT ![r] = t],
           NEW s \in {"running", "completed", "failed"}, UNCHANGED status \/ SetStatus(r, s),
           t = "over" => s = "failed" /\ SetStatus(r, s),
           t = "raised" => Harm(r) \/ (status[r] = "deleted" /\ UNCHANGED status),
           UNCHANGED <<workflows, agent, of, changed, edits>>,
           UNCHANGED <<slackVars, schedulerVars>>
    PROVE  IInv'
<1>1. /\ harmed' \subseteq Workflows \cup Runs /\ faults' \in 0..MaxFaults
      /\ harmed \subseteq harmed'
    BY FaultType DEF IInv
<1>2. /\ task \in [Runs -> {"none", "starting", "graph", "over", "silent", "raised"}]
      /\ status \in [Runs -> {"none", "pending", "running", "completed", "failed", "deleted"}]
    BY DEF IInv, TypeOK, TablesTypeOK
<1>3. /\ task'[r] = t /\ \A x \in Runs \ {r} : task'[x] = task[x]
      /\ task' \in [Runs -> {"none", "starting", "graph", "over", "silent", "raised"}]
    BY <1>2
<1>4. /\ \A x \in Runs \ {r} : status'[x] = status[x]
      /\ status' \in [Runs -> {"none", "pending", "running", "completed", "failed", "deleted"}]
      /\ status'[r] \in {status[r], s}
      /\ status[r] = "deleted" => status'[r] = "deleted"
      /\ t = "over" => status'[r] \in {"failed", "deleted"}
    BY <1>2 DEF SetStatus
<1>5. TablesTypeOK'
    BY <1>1, <1>3, <1>4 DEF IInv, TypeOK, TablesTypeOK
<1>6. RunOK(r)
    BY DEF IInv
<1>7. status[r] # "none" /\ task[r] # "none"
    BY <1>6 DEF RunOK, Working
<1>8. t = "raised" => r \in harmed' \/ status'[r] = "deleted"
    BY <1>4 DEF Harm
<1>9. RunOK(r)' /\ RunMoves(r)
    BY <1>3, <1>4, <1>7, <1>8 DEF RunOK, RunMoves
<1>10. \A x \in Runs \ {r} : RunOK(x)' /\ RunMoves(x)
    BY <1>1, <1>3, <1>4, RunFrame DEF IInv, RunMoves
<1>. QED  BY <1>1, <1>5, <1>9, <1>10, TablesStep

LEMMA NeverBeginsIInv ==
    ASSUME IInv, NEW r \in Runs, NeverBegins(r), UNCHANGED <<slackVars, schedulerVars>>
    PROVE  IInv'
BY FaultyIInv DEF NeverBegins, Working

LEMMA RaiseIInv ==
    ASSUME IInv, NEW r \in Runs, Raise(r), UNCHANGED <<slackVars, schedulerVars>>
    PROVE  IInv'
<1>1. PICK s \in {"running", "completed", "failed"} :
          /\ Harm(r) \/ (status[r] = "deleted" /\ UNCHANGED status /\ Harmless)
          /\ UNCHANGED status \/ SetStatus(r, s)
    BY DEF Raise, Unacknowledged, Harmless
<1>. QED  BY <1>1, FaultyIInv DEF Raise

-----------------------------------------------------------------------------
(* The Slack bot's steps                                                   *)

\* Of all deliveries only d moves, and of all runs only d.
OnlyDelivery(d) ==
    /\ \A x \in Deliveries \ {d} :
          /\ handler'[x] = handler[x] /\ saved'[x] = saved[x]
          /\ x \in posted' <=> x \in posted
          /\ x \in facts' <=> x \in facts
    /\ \A r \in Runs \ {d} : status'[r] = status[r] /\ task'[r] = task[r] /\ of'[r] = of[r]
    /\ UNCHANGED <<workflows, agent, changed, edits, ignored>>
    /\ UNCHANGED schedulerVars

\* An acknowledgement that Slack did not see in time stays one.
AckKept(d) == handler[d].ack \in {"unseen", "late"} => handler'[d].ack \in {"unseen", "late"}

LEMMA SlackStep ==
    ASSUME IInv, NEW d \in Deliveries, handler[d].pc \notin {"none", "dead"},
           OnlyDelivery(d), Harmless \/ Harm(d), AckKept(d),
           TablesTypeOK', SlackTypeOK', RunOK(d)', DeliveryOK(d)'
    PROVE  IInv'
<1>. d \in Runs
    BY RunsAssumption
<1>1. TypeOK' /\ harmed \subseteq harmed'
    BY FaultType DEF IInv, TypeOK, SchedulerTypeOK, OnlyDelivery, schedulerVars
<1>2. \A r \in Runs \ {d} : RunMoves(r) /\ RunOK(r)'
    BY <1>1, RunFrame DEF IInv, OnlyDelivery, RunMoves
<1>3. \A x \in Deliveries \ {d} : DeliveryOK(x)'
    BY <1>1, <1>2, DeliveryFrame, RunsAssumption DEF IInv, OnlyDelivery
<1>4. \A e \in Events : SecondOK(e)'
    <2>. SUFFICES ASSUME NEW e \in Events, handler'[<<e, 2>>].pc # "none"
                  PROVE  \/ handler'[<<e, 1>>].ack \in {"unseen", "late"}
                         \/ handler'[<<e, 1>>].pc = "dead" /\ handler'[<<e, 1>>].ack = "none"
        BY DEF SecondOK
    <2>1. <<e, 1>> \in Deliveries /\ <<e, 2>> \in Deliveries /\ <<e, 1>> # <<e, 2>>
        BY DEF Deliveries
    <2>2. handler[<<e, 2>>].pc # "none"
        BY <2>1 DEF OnlyDelivery
    <2>3. \/ handler[<<e, 1>>].ack \in {"unseen", "late"}
          \/ handler[<<e, 1>>].pc = "dead" /\ handler[<<e, 1>>].ack = "none"
        BY <2>2 DEF IInv, SecondOK
    <2>. QED  BY <2>1, <2>3 DEF OnlyDelivery, AckKept
<1>5. \A f \in Firings : FiringOK(f)'
    BY <1>2, FiringFrame, RunsAssumption DEF IInv, OnlyDelivery, schedulerVars
<1>6. \A w \in Workflows : JobOK(w)'
    BY <1>1, JobFrame DEF IInv, OnlyDelivery, schedulerVars
<1>7. \A p \in registering' : RegisteringOK(p[1], p[2])'
    <2>1. \A p \in registering : p[1] \in Workflows
        BY DEF IInv, TypeOK, SchedulerTypeOK
    <2>. QED  BY <2>1, RegisteringFrame DEF IInv, OnlyDelivery, schedulerVars
<1>. QED  BY <1>1, <1>2, <1>3, <1>4, <1>5, <1>6, <1>7 DEF IInv

\* The same for a step that leaves the runs alone.
LEMMA QuietStep ==
    ASSUME IInv, NEW d \in Deliveries, handler[d].pc \notin {"none", "dead"},
           \A x \in Deliveries \ {d} :
              /\ handler'[x] = handler[x] /\ saved'[x] = saved[x]
              /\ x \in posted' <=> x \in posted
              /\ x \in facts' <=> x \in facts,
           UNCHANGED <<workflows, agent, status, of, task, changed, edits, ignored>>,
           UNCHANGED schedulerVars, Harmless \/ Harm(d), AckKept(d),
           SlackTypeOK', DeliveryOK(d)'
    PROVE  IInv'
<1>. d \in Runs
    BY RunsAssumption
<1>1. /\ harmed' \subseteq Workflows \cup Runs /\ faults' \in 0..MaxFaults
      /\ harmed \subseteq harmed'
    BY FaultType DEF IInv
<1>2. TablesTypeOK' /\ OnlyDelivery(d)
    BY <1>1 DEF IInv, TypeOK, TablesTypeOK, OnlyDelivery
<1>3. RunOK(d)'
    BY <1>1, RunFrame DEF IInv
<1>. QED  BY <1>2, <1>3, SlackStep

HandlerRecord ==
    [pc : Places, ack : {"none", "seen", "unseen", "late"}, agent : BOOLEAN,
     workflow : Workflows \cup {None},
     reply : {"none", "answer", "sorry", "Workflow completed."}, cut : BOOLEAN]

LEMMA HandlerType ==
    ASSUME IInv, NEW d \in Deliveries
    PROVE  /\ handler[d] \in HandlerRecord
           /\ PlaceOK(d) /\ ReplyOK(d) /\ AckOK(d) /\ RunOK(d) /\ d \in Runs
BY RunsAssumption DEF IInv, TypeOK, SlackTypeOK, DeliveryOK, HandlerRecord

\* Only the record of d changes, to one with these fields.
Becomes(d, pc, ack, found, workflow, reply, cut) ==
    /\ handler' \in [Deliveries -> HandlerRecord]
    /\ \A x \in Deliveries \ {d} : handler'[x] = handler[x]
    /\ handler'[d].pc = pc /\ handler'[d].ack = ack /\ handler'[d].agent = found
    /\ handler'[d].workflow = workflow /\ handler'[d].reply = reply /\ handler'[d].cut = cut

LEMMA Goes ==
    ASSUME IInv, NEW d \in Deliveries, NEW pc \in Places, Go(d, pc)
    PROVE  Becomes(d, pc, handler[d].ack, handler[d].agent, handler[d].workflow,
                   handler[d].reply, handler[d].cut)
<1>1. handler \in [Deliveries -> HandlerRecord]
  BY DEF IInv, TypeOK, SlackTypeOK, HandlerRecord
<1>2. PICK h : h = [handler[d] EXCEPT !.pc = pc]
  OBVIOUS
<1>3. handler' = [handler EXCEPT ![d] = h] BY <1>2 DEF Go
<1>4. handler[d] \in HandlerRecord BY <1>1
<1>5. /\ h \in HandlerRecord /\ h.pc = pc
      /\ h.ack = handler[d].ack /\ h.agent = handler[d].agent
      /\ h.workflow = handler[d].workflow /\ h.reply = handler[d].reply
      /\ h.cut = handler[d].cut
  BY <1>2, <1>4 DEF HandlerRecord
<1> QED BY <1>1, <1>3, <1>5 DEF Becomes

LEMMA Replies ==
    ASSUME IInv, NEW d \in Deliveries, NEW reply \in {"answer", "sorry", "Workflow completed."},
           Reply(d, reply)
    PROVE  Becomes(d, "replying", handler[d].ack, handler[d].agent, handler[d].workflow,
                   reply, handler[d].cut)
<1>. DEFINE g == [handler[d] EXCEPT !.pc = "replying", !.reply = reply]
<1>1. handler \in [Deliveries -> HandlerRecord] /\ handler[d] \in HandlerRecord
    BY HandlerType DEF IInv, TypeOK, SlackTypeOK, HandlerRecord
<1>2. /\ g \in HandlerRecord
      /\ g.pc = "replying" /\ g.ack = handler[d].ack /\ g.agent = handler[d].agent
      /\ g.workflow = handler[d].workflow /\ g.reply = reply /\ g.cut = handler[d].cut
    BY <1>1 DEF HandlerRecord, Places
<1>3. handler' = [handler EXCEPT ![d] = g]
    BY DEF Reply
<1>. HIDE DEF g
<1>. QED  BY <1>1, <1>2, <1>3 DEF Becomes

LEMMA AckIInv ==
    ASSUME IInv, NEW d \in Deliveries, Ack(d), UNCHANGED schedulerVars
    PROVE  IInv'
<1>. DEFINE h == handler[d]
<1>1. /\ h.pc = "delivered" /\ (Harmless \/ Harm(d)) /\ h.ack \in {"none", "late"}
      /\ UNCHANGED <<ignored, saved, posted, facts, workflows, agent, status, of, task, changed, edits>>
    BY HandlerType DEF Ack, Harmless, Die, AckOK
<1>2. \E pc \in {"acked", "ignored", "dead"}, ack \in {"none", "seen", "unseen", "late"} :
          /\ Becomes(d, pc, ack, h.agent, h.workflow, h.reply, h.cut)
          /\ ack = "none" => pc = "dead"
          /\ h.ack = "late" => ack = "late"
    <2>1. ASSUME NEW ack \in {"seen", "unseen"}, NEW pc \in {"acked", "ignored"},
                 handler' = [handler EXCEPT ![d].pc = pc,
                                            ![d].ack = IF @ = "late" THEN "late" ELSE ack]
          PROVE  Becomes(d, pc, IF h.ack = "late" THEN "late" ELSE ack,
                         h.agent, h.workflow, h.reply, h.cut)
        <3>. DEFINE how == IF h.ack = "late" THEN "late" ELSE ack
                    g == [handler[d] EXCEPT !.pc = pc, !.ack = how]
        <3>1. handler \in [Deliveries -> HandlerRecord] /\ handler[d] \in HandlerRecord
            BY HandlerType DEF IInv, TypeOK, SlackTypeOK, HandlerRecord
        <3>2. /\ g \in HandlerRecord
              /\ g.pc = pc /\ g.ack = how /\ g.agent = h.agent
              /\ g.workflow = h.workflow /\ g.reply = h.reply /\ g.cut = h.cut
            BY <3>1 DEF HandlerRecord, Places
        <3>3. handler' = [handler EXCEPT ![d] = g]
            BY <2>1, <3>1 DEF HandlerRecord
        <3>. HIDE DEF g, how
        <3>. QED  BY <3>1, <3>2, <3>3 DEF Becomes, how
    <2>2. Die(d) => Becomes(d, "dead", h.ack, h.agent, h.workflow, h.reply, h.cut)
        BY Goes DEF Die, Places
    <2>. QED  BY <1>1, <2>1, <2>2 DEF Ack
<1>3. PICK pc \in {"acked", "ignored", "dead"}, ack \in {"none", "seen", "unseen", "late"} :
          /\ Becomes(d, pc, ack, h.agent, h.workflow, h.reply, h.cut)
          /\ ack = "none" => pc = "dead"
          /\ h.ack = "late" => ack = "late"
    BY <1>2
<1>4. DeliveryOK(d)'
    BY <1>1, <1>3, HandlerType
       DEF Becomes, DeliveryOK, PlaceOK, ReplyOK, AckOK, Acted, NoRun, Unrouted, Harmless, Harm
<1>5. SlackTypeOK'
    BY <1>1, <1>3 DEF IInv, TypeOK, SlackTypeOK, Becomes, HandlerRecord
<1>6. AckKept(d)
    BY <1>1, <1>3 DEF AckKept, Becomes
<1>. QED  BY <1>1, <1>3, <1>4, <1>5, <1>6, QuietStep DEF Becomes

LEMMA FindAgentIInv ==
    ASSUME IInv, NEW d \in Deliveries, FindAgent(d), UNCHANGED schedulerVars
    PROVE  IInv'
<1>. DEFINE h == handler[d]
<1>1. /\ h.pc = "acked" /\ (Harmless \/ Harm(d))
      /\ UNCHANGED <<ignored, saved, posted, facts, workflows, agent, status, of, task, changed, edits>>
    BY DEF FindAgent, Harmless, Die
<1>2. PICK pc \in {"found", "dead"}, found \in BOOLEAN :
          Becomes(d, pc, h.ack, found, h.workflow, h.reply, h.cut)
    <2>1. ASSUME handler' = [handler EXCEPT ![d].pc = "found", ![d].agent = agent]
          PROVE  Becomes(d, "found", h.ack, agent, h.workflow, h.reply, h.cut)
        <3>. DEFINE g == [handler[d] EXCEPT !.pc = "found", !.agent = agent]
        <3>1. handler \in [Deliveries -> HandlerRecord] /\ handler[d] \in HandlerRecord
            BY HandlerType DEF IInv, TypeOK, SlackTypeOK, HandlerRecord
        <3>2. /\ g \in HandlerRecord
              /\ g.pc = "found" /\ g.ack = h.ack /\ g.agent = agent
              /\ g.workflow = h.workflow /\ g.reply = h.reply /\ g.cut = h.cut
            BY <3>1 DEF HandlerRecord, Places, IInv, TypeOK, TablesTypeOK
        <3>3. handler' = [handler EXCEPT ![d] = g]
            BY <2>1, <3>1 DEF HandlerRecord
        <3>. HIDE DEF g
        <3>. QED  BY <3>1, <3>2, <3>3 DEF Becomes
    <2>2. Die(d) => Becomes(d, "dead", h.ack, h.agent, h.workflow, h.reply, h.cut)
        BY Goes DEF Die, Places
    <2>3. agent \in BOOLEAN /\ h.agent \in BOOLEAN
        BY HandlerType DEF IInv, TypeOK, TablesTypeOK, HandlerRecord
    <2>. QED  BY <2>1, <2>2, <2>3 DEF FindAgent
<1>3. DeliveryOK(d)'
    BY <1>1, <1>2, HandlerType
       DEF Becomes, DeliveryOK, PlaceOK, ReplyOK, AckOK, Acted, NoRun, Unrouted, Harmless, Harm
<1>4. SlackTypeOK'
    BY <1>1, <1>2 DEF IInv, TypeOK, SlackTypeOK, Becomes, HandlerRecord
<1>5. AckKept(d)
    BY <1>1, <1>2 DEF AckKept, Becomes
<1>. QED  BY <1>1, <1>2, <1>3, <1>4, <1>5, QuietStep DEF Becomes

\* _save_message saves the user's message or the answer.
SavesBetween(role, from, to) ==
    \/ role = "user" /\ from = "found" /\ to = "saved"
    \/ role = "assistant" /\ from = "replying" /\ to = "posting"

LEMMA SaveIInv ==
    ASSUME IInv, NEW d \in Deliveries, NEW role, NEW from, NEW to, SavesBetween(role, from, to),
           Save(d, role, from, to), UNCHANGED schedulerVars
    PROVE  IInv'
<1>. DEFINE h == handler[d]
<1>1. /\ h.pc = from /\ (Harmless \/ Harm(d))
      /\ UNCHANGED <<ignored, posted, facts, workflows, agent, status, of, task, changed, edits>>
      /\ saved' = saved \/ saved' = [saved EXCEPT ![d] = @ \cup {role}]
    BY DEF Save, Harmless, Die
<1>2. PICK pc \in {to, "dead"} : Becomes(d, pc, h.ack, h.agent, h.workflow, h.reply, h.cut)
    BY Goes DEF Save, Die, Places, SavesBetween
<1>3. DeliveryOK(d)'
    BY ZenonT(60), <1>1, <1>2, HandlerType
       DEF Becomes, DeliveryOK, PlaceOK, ReplyOK, AckOK, Acted, NoRun, Unrouted, Harmless, Harm,
           SavesBetween
<1>4. SlackTypeOK' /\ \A x \in Deliveries \ {d} : saved'[x] = saved[x]
    <2>1. saved \in [Deliveries -> SUBSET {"user", "assistant"}] /\ role \in {"user", "assistant"}
        BY DEF IInv, TypeOK, SlackTypeOK, SavesBetween
    <2>2. /\ saved' \in [Deliveries -> SUBSET {"user", "assistant"}]
          /\ \A x \in Deliveries \ {d} : saved'[x] = saved[x]
        BY <1>1, <2>1
    <2>. QED  BY <1>1, <1>2, <2>2 DEF IInv, TypeOK, SlackTypeOK, Becomes, HandlerRecord
<1>5. AckKept(d)
    BY <1>1, <1>2 DEF AckKept, Becomes
<1>. QED  BY <1>1, <1>2, <1>3, <1>4, <1>5, QuietStep DEF Becomes, SavesBetween

LEMMA RouteIInv ==
    ASSUME IInv, NEW d \in Deliveries, Route(d), UNCHANGED schedulerVars
    PROVE  IInv'
<1>. DEFINE h == handler[d]
<1>1. /\ h.pc = "saved" /\ (Harmless \/ Harm(d))
      /\ UNCHANGED <<ignored, saved, posted, facts, workflows, agent, status, of, task, changed, edits>>
    BY DEF Route, Harmless
<1>2. \/ \E w \in Workflows : Becomes(d, "routed", h.ack, h.agent, w, h.reply, h.cut)
      \/ Becomes(d, "direct", h.ack, h.agent, h.workflow, h.reply, h.cut)
      \/ Becomes(d, "replying", h.ack, h.agent, h.workflow, "sorry", h.cut)
    <2>1. ASSUME NEW w \in Workflows,
                 handler' = [handler EXCEPT ![d].pc = "routed", ![d].workflow = w]
          PROVE  Becomes(d, "routed", h.ack, h.agent, w, h.reply, h.cut)
        <3>. DEFINE g == [handler[d] EXCEPT !.pc = "routed", !.workflow = w]
        <3>1. handler \in [Deliveries -> HandlerRecord] /\ handler[d] \in HandlerRecord
            BY HandlerType DEF IInv, TypeOK, SlackTypeOK, HandlerRecord
        <3>2. /\ g \in HandlerRecord
              /\ g.pc = "routed" /\ g.ack = h.ack /\ g.agent = h.agent
              /\ g.workflow = w /\ g.reply = h.reply /\ g.cut = h.cut
            BY <3>1 DEF HandlerRecord, Places
        <3>3. handler' = [handler EXCEPT ![d] = g]
            BY <2>1, <3>1 DEF HandlerRecord
        <3>. HIDE DEF g
        <3>. QED  BY <3>1, <3>2, <3>3 DEF Becomes
    <2>. QED  BY <2>1, Goes, Replies DEF Route, Places
<1>3. PICK pc \in {"routed", "direct", "replying"}, w \in Workflows \cup {None},
           reply \in {h.reply, "sorry"} :
          /\ Becomes(d, pc, h.ack, h.agent, w, reply, h.cut)
          /\ pc = "routed" => w \in Workflows
          /\ pc # "routed" => w = h.workflow
          /\ reply = IF pc = "replying" THEN "sorry" ELSE h.reply
    BY <1>2, HandlerType DEF HandlerRecord
<1>4. DeliveryOK(d)'
    BY <1>1, <1>3, HandlerType
       DEF Becomes, DeliveryOK, PlaceOK, ReplyOK, AckOK, Acted, NoRun, Unrouted, Harmless, Harm
<1>5. SlackTypeOK'
    BY <1>1, <1>3 DEF IInv, TypeOK, SlackTypeOK, Becomes, HandlerRecord
<1>6. AckKept(d)
    BY <1>1, <1>3 DEF AckKept, Becomes
<1>. QED  BY <1>1, <1>3, <1>4, <1>5, <1>6, QuietStep DEF Becomes

\* The insertion of a run, or its failure.
LEMMA InsertType ==
    ASSUME TypeOK, NEW r \in Runs, NEW w \in Workflows, InsertRun(r, w)
    PROVE  /\ status' \in [Runs -> {"none", "pending", "running", "completed", "failed", "deleted"}]
           /\ of' \in [Runs -> Workflows \cup {None}]
           /\ status'[r] = "pending" /\ of'[r] = w
           /\ \A x \in Runs \ {r} : status'[x] = status[x] /\ of'[x] = of[x]
BY DEF InsertRun, TypeOK, TablesTypeOK

LEMMA StartRunIInv ==
    ASSUME IInv, NEW d \in Deliveries, StartRun(d), UNCHANGED schedulerVars
    PROVE  IInv'
<1>. DEFINE h == handler[d]
            w == h.workflow
<1>1. /\ h.pc = "routed" /\ w \in Workflows /\ (Harmless \/ Harm(d)) /\ d \in Runs
      /\ UNCHANGED <<ignored, saved, posted, facts, workflows, agent, changed, edits>>
    BY HandlerType DEF StartRun, Harmless, PlaceOK
<1>2. /\ harmed' \subseteq Workflows \cup Runs /\ faults' \in 0..MaxFaults
      /\ harmed \subseteq harmed'
    BY <1>1, FaultType DEF IInv
<1>3. PICK pc \in {"running", "replying"}, reply \in {h.reply, "sorry"} :
          /\ Becomes(d, pc, h.ack, h.agent, w, reply, h.cut)
          /\ reply = IF pc = "replying" THEN "sorry" ELSE h.reply
          /\ task' = IF pc = "running" THEN [task EXCEPT ![d] = "starting"] ELSE task
          /\ pc = "running" => InsertRun(d, w)
          /\ InsertRun(d, w) \/ UNCHANGED <<status, of>>
    <2>1. /\ Go(d, "running") => Becomes(d, "running", h.ack, h.agent, w, h.reply, h.cut)
          /\ Reply(d, "sorry") => Becomes(d, "replying", h.ack, h.agent, w, "sorry", h.cut)
        BY Goes, Replies DEF Places
    <2>. QED  BY <2>1 DEF StartRun
<1>4. /\ status' \in [Runs -> {"none", "pending", "running", "completed", "failed", "deleted"}]
      /\ of' \in [Runs -> Workflows \cup {None}]
      /\ \A x \in Runs \ {d} : status'[x] = status[x] /\ of'[x] = of[x]
      /\ (status'[d] = "pending" /\ of'[d] = w) \/ (status'[d] = status[d] /\ of'[d] = of[d])
      /\ pc = "running" => status'[d] = "pending"
    BY <1>1, <1>3, InsertType DEF IInv, TypeOK, TablesTypeOK
<1>5. /\ task' \in [Runs -> {"none", "starting", "graph", "over", "silent", "raised"}]
      /\ \A x \in Runs \ {d} : task'[x] = task[x]
      /\ task'[d] = IF pc = "running" THEN "starting" ELSE "none"
    BY <1>1, <1>3, HandlerType DEF IInv, TypeOK, TablesTypeOK, PlaceOK, NoRun
<1>6. TablesTypeOK'
    BY <1>1, <1>2, <1>4, <1>5 DEF IInv, TypeOK, TablesTypeOK
<1>7. RunOK(d)'
    BY <1>1, <1>2, <1>3, <1>4, <1>5, HandlerType DEF RunOK, PlaceOK, NoRun
<1>8. DeliveryOK(d)'
    <2>1. /\ h.reply = "none"
          /\ h.cut => d \in facts \cup harmed \/ ~agent
        BY <1>1, HandlerType DEF PlaceOK, ReplyOK, HandlerRecord
    <2>2. PlaceOK(d)'
        BY <1>1, <1>3, <2>1 DEF Becomes, PlaceOK, Unrouted
    <2>3. ReplyOK(d)'
        BY <1>1, <1>2, <1>3, <1>5, <2>1 DEF Becomes, ReplyOK
    <2>4. AckOK(d)'
        BY <1>1, <1>3, HandlerType DEF Becomes, AckOK
    <2>. QED  BY <2>2, <2>3, <2>4 DEF DeliveryOK
<1>9. SlackTypeOK'
    BY <1>1, <1>3 DEF IInv, TypeOK, SlackTypeOK, Becomes, HandlerRecord
<1>10. AckKept(d) /\ OnlyDelivery(d)
    BY <1>1, <1>3, <1>4, <1>5 DEF AckKept, OnlyDelivery, Becomes
<1>. QED  BY <1>1, <1>6, <1>7, <1>8, <1>9, <1>10, SlackStep

LEMMA FinishRunIInv ==
    ASSUME IInv, NEW d \in Deliveries, FinishRun(d), UNCHANGED schedulerVars
    PROVE  IInv'
<1>. DEFINE h == handler[d]
<1>1. /\ h.pc = "running" /\ (Harmless \/ Harm(d)) /\ task[d] \in {"over", "silent", "raised"}
      /\ UNCHANGED <<ignored, saved, posted, facts, workflows, agent, status, of, task, changed, edits>>
    BY DEF FinishRun, Harmless, Over
<1>2. PICK reply \in {"answer", "Workflow completed.", "sorry"} :
          /\ Becomes(d, "replying", h.ack, h.agent, h.workflow, reply, h.cut)
          /\ reply = "answer" => task[d] = "over" /\ status[d] = "completed"
          /\ reply = "Workflow completed." =>
                task[d] = "silent" \/ (task[d] = "over" /\ status[d] # "completed")
          /\ reply = "sorry" => task[d] = "raised" \/ Harm(d)
    <2>1. Outcome(d) \in {"answer", "Workflow completed."}
        BY DEF Outcome
    <2>. QED  BY <2>1, Replies DEF FinishRun, Outcome, Over
<1>3. status[d] \in {"completed", "failed", "deleted"} \/ task[d] = "raised"
    BY <1>1, HandlerType DEF RunOK
<1>4. DeliveryOK(d)'
    BY <1>1, <1>2, <1>3, HandlerType
       DEF Becomes, DeliveryOK, PlaceOK, ReplyOK, AckOK, Acted, NoRun, Unrouted, Harmless, Harm, RunOK
<1>5. SlackTypeOK'
    BY <1>1, <1>2 DEF IInv, TypeOK, SlackTypeOK, Becomes, HandlerRecord
<1>6. AckKept(d)
    BY <1>1, <1>2 DEF AckKept, Becomes
<1>. QED  BY <1>1, <1>2, <1>4, <1>5, <1>6, QuietStep DEF Becomes

LEMMA RunDirectIInv ==
    ASSUME IInv, NEW d \in Deliveries, RunDirect(d), UNCHANGED schedulerVars
    PROVE  IInv'
<1>. DEFINE h == handler[d]
<1>1. /\ h.pc = "direct" /\ Harmless /\ NoRun(d) /\ h.workflow = None
      /\ UNCHANGED <<ignored, saved, posted, facts, workflows, agent, status, of, task, changed, edits>>
    BY HandlerType DEF RunDirect, Harmless, tables, PlaceOK, Unrouted
<1>2. \/ \E reply \in {"answer", "sorry"} :
            Becomes(d, "replying", h.ack, h.agent, h.workflow, reply, h.cut)
      \/ Becomes(d, "remembering", h.ack, h.agent, h.workflow, h.reply, TRUE)
    <2>1. ASSUME handler' = [handler EXCEPT ![d].pc = "remembering", ![d].cut = TRUE]
          PROVE  Becomes(d, "remembering", h.ack, h.agent, h.workflow, h.reply, TRUE)
        <3>. DEFINE g == [handler[d] EXCEPT !.pc = "remembering", !.cut = TRUE]
        <3>1. handler \in [Deliveries -> HandlerRecord] /\ handler[d] \in HandlerRecord
            BY HandlerType DEF IInv, TypeOK, SlackTypeOK, HandlerRecord
        <3>2. /\ g \in HandlerRecord
              /\ g.pc = "remembering" /\ g.ack = h.ack /\ g.agent = h.agent
              /\ g.workflow = h.workflow /\ g.reply = h.reply /\ g.cut = TRUE
            BY <3>1 DEF HandlerRecord, Places
        <3>3. handler' = [handler EXCEPT ![d] = g]
            BY <2>1, <3>1 DEF HandlerRecord
        <3>. HIDE DEF g
        <3>. QED  BY <3>1, <3>2, <3>3 DEF Becomes
    <2>. QED  BY <2>1, Replies DEF RunDirect
<1>3. PICK pc \in {"replying", "remembering"}, reply \in {h.reply, "answer", "sorry"},
           cut \in BOOLEAN :
          /\ Becomes(d, pc, h.ack, h.agent, h.workflow, reply, cut)
          /\ pc = "replying" => cut = h.cut
          /\ pc = "remembering" => reply = h.reply
    BY <1>2, HandlerType DEF HandlerRecord
<1>4. reply # "Workflow completed." /\ (pc = "remembering" => reply = "none")
      /\ (cut => pc = "remembering" \/ h.cut)
    BY <1>1, <1>3, HandlerType DEF PlaceOK, HandlerRecord
<1>5. DeliveryOK(d)'
    BY ZenonT(60), <1>1, <1>3, <1>4, HandlerType
       DEF Becomes, DeliveryOK, PlaceOK, ReplyOK, AckOK, Acted, NoRun, Unrouted, Harmless
<1>6. SlackTypeOK'
    BY <1>1, <1>3 DEF IInv, TypeOK, SlackTypeOK, Becomes, HandlerRecord
<1>7. AckKept(d)
    BY <1>1, <1>3 DEF AckKept, Becomes
<1>. QED  BY <1>1, <1>3, <1>5, <1>6, <1>7, QuietStep DEF Becomes

LEMMA RememberIInv ==
    ASSUME IInv, NEW d \in Deliveries, Remember(d), UNCHANGED schedulerVars
    PROVE  IInv'
<1>. DEFINE h == handler[d]
<1>1. /\ h.pc = "remembering" /\ (Harmless \/ Harm(d)) /\ h.workflow = None /\ NoRun(d)
      /\ UNCHANGED <<ignored, saved, posted, workflows, agent, status, of, task, changed, edits>>
      /\ facts' = facts \/ facts' = facts \cup {d}
      /\ d \in facts' \/ ~agent \/ Harm(d)
    BY HandlerType DEF Remember, Harmless, PlaceOK, Unrouted
<1>2. Becomes(d, "replying", h.ack, h.agent, h.workflow, "answer", h.cut)
    BY Replies DEF Remember
<1>3. DeliveryOK(d)'
    BY <1>1, <1>2, HandlerType
       DEF Becomes, DeliveryOK, PlaceOK, ReplyOK, AckOK, Acted, NoRun, Unrouted, Harm
<1>4. SlackTypeOK'
    BY <1>1, <1>2 DEF IInv, TypeOK, SlackTypeOK, Becomes, HandlerRecord
<1>5. AckKept(d)
    BY <1>1, <1>2 DEF AckKept, Becomes
<1>. QED  BY <1>1, <1>2, <1>3, <1>4, <1>5, QuietStep DEF Becomes

LEMMA PostIInv ==
    ASSUME IInv, NEW d \in Deliveries, Post(d), UNCHANGED schedulerVars
    PROVE  IInv'
<1>. DEFINE h == handler[d]
<1>1. /\ h.pc = "posting" /\ (Harmless \/ Harm(d))
      /\ UNCHANGED <<ignored, saved, facts, workflows, agent, status, of, task, changed, edits>>
      /\ posted' = posted \/ posted' = posted \cup {d}
    BY DEF Post, Harmless
<1>2. Becomes(d, "done", h.ack, h.agent, h.workflow, h.reply, h.cut)
    BY Goes DEF Post, Places
<1>3. DeliveryOK(d)'
    BY <1>1, <1>2, HandlerType
       DEF Becomes, DeliveryOK, PlaceOK, ReplyOK, AckOK, Acted, NoRun, Unrouted, Harmless, Harm
<1>4. SlackTypeOK'
    BY <1>1, <1>2 DEF IInv, TypeOK, SlackTypeOK, Becomes, HandlerRecord
<1>5. AckKept(d)
    BY <1>1, <1>2 DEF AckKept, Becomes
<1>. QED  BY <1>1, <1>2, <1>3, <1>4, <1>5, QuietStep DEF Becomes

\* The first delivery of an event, or the second, which tells of the first that
\* its acknowledgement was not seen or came late.
LEMMA DeliverIInv ==
    ASSUME IInv, NEW d \in Deliveries, Deliver(d), UNCHANGED schedulerVars
    PROVE  IInv'
<1>. PICK e \in Events, k \in {1, 2} : d = <<e, k>>
    BY DEF Deliveries
<1>. DEFINE p == <<e, 1>>
            late == k = 2 /\ handler[p].pc = "delivered"
            g == [handler[d] EXCEPT !.pc = "delivered"]
            q == [handler[p] EXCEPT !.ack = IF late THEN "late" ELSE @]
<1>1. /\ d[1] = e /\ d[2] = k /\ p \in Deliveries /\ handler[d].pc = "none"
      /\ k = 1 => p = d
      /\ k = 2 => p # d /\ handler[p].pc # "none" /\ handler[p].ack # "seen"
      /\ UNCHANGED <<ignored, saved, posted, facts>>
      /\ UNCHANGED <<workflows, agent, status, of, task, changed, harmed, edits, faults>>
    BY DEF Deliver, Deliveries, tables
<1>2. handler \in [Deliveries -> HandlerRecord] /\ \A x \in Deliveries : handler[x] \in HandlerRecord
    BY DEF IInv, TypeOK, SlackTypeOK, HandlerRecord
<1>3. /\ g \in HandlerRecord /\ g.pc = "delivered" /\ g.ack = handler[d].ack
      /\ g.workflow = handler[d].workflow /\ g.reply = handler[d].reply /\ g.cut = handler[d].cut
    BY <1>2 DEF HandlerRecord, Places
<1>4. /\ q \in HandlerRecord /\ q.pc = handler[p].pc
      /\ q.ack = IF late THEN "late" ELSE handler[p].ack
      /\ q.workflow = handler[p].workflow /\ q.reply = handler[p].reply /\ q.cut = handler[p].cut
    BY <1>1, <1>2 DEF HandlerRecord
<1>5. /\ handler' \in [Deliveries -> HandlerRecord]
      /\ handler'[d] = g
      /\ k = 2 => handler'[p] = q
      /\ \A x \in Deliveries \ {d, p} : handler'[x] = handler[x]
    <2>1. CASE k = 1
        <3>1. handler' = [handler EXCEPT ![d] = g]
            BY <1>1, <1>2, <2>1 DEF Deliver, HandlerRecord
        <3>. HIDE DEF g, q, late
        <3>. QED  BY <1>1, <1>2, <1>3, <2>1, <3>1
    <2>2. CASE k = 2
        <3>1. handler' = [handler EXCEPT ![d] = g, ![p] = q]
            BY <1>1, <1>2, <2>2 DEF Deliver, HandlerRecord
        <3>. HIDE DEF g, q, late
        <3>. QED  BY <1>1, <1>2, <1>3, <1>4, <2>2, <3>1
    <2>. QED  BY <2>1, <2>2
<1>. HIDE DEF g, q
<1>6. \A r \in Runs : RunMoves(r) /\ RunOK(r)'
    BY <1>1, RunFrame DEF IInv, RunMoves
<1>7. \A x \in Deliveries : DeliveryOK(x)'
    <2>1. DeliveryOK(d)'
        BY <1>1, <1>3, <1>5, HandlerType
           DEF DeliveryOK, PlaceOK, ReplyOK, AckOK, Acted, NoRun, Unrouted
    <2>2. ASSUME k = 2
          PROVE  DeliveryOK(p)'
        <3>1. PlaceOK(p) /\ ReplyOK(p) /\ AckOK(p)
            BY <1>1, HandlerType
        <3>2. handler'[p] = q
            BY <1>5, <2>2
        <3>3. PlaceOK(p)' /\ ReplyOK(p)'
            BY <1>1, <1>4, <3>1, <3>2 DEF PlaceOK, ReplyOK, NoRun
        <3>4. AckOK(p)'
            BY <1>1, <1>4, <3>1, <3>2 DEF AckOK, Acted
        <3>. QED  BY <3>3, <3>4 DEF DeliveryOK
    <2>3. \A x \in Deliveries \ {d, p} : DeliveryOK(x)'
        BY <1>1, <1>5, <1>6, DeliveryFrame, HandlerType DEF IInv
    <2>. QED  BY <1>1, <2>1, <2>2, <2>3
<1>8. \A x \in Events : SecondOK(x)'
    <2>1. SecondOK(e)'
        <3>1. CASE k = 1
            <4>1. <<e, 2>> \in Deliveries /\ <<e, 2>> # d
                BY <3>1 DEF Deliveries
            <4>. QED  BY <1>1, <1>3, <1>5, <3>1, <4>1 DEF IInv, SecondOK
        <3>2. CASE k = 2
            <4>1. handler[p].ack = "none" => handler[p].pc \in {"delivered", "dead"}
                BY <1>1, <3>2, HandlerType DEF AckOK
            <4>2. handler[p].ack \in {"none", "unseen", "late"}
                BY <1>1, <1>2, <3>2 DEF HandlerRecord
            <4>. QED  BY <1>4, <1>5, <3>2, <4>1, <4>2 DEF SecondOK
        <3>. QED  BY <3>1, <3>2
    <2>2. ASSUME NEW x \in Events, x # e
          PROVE  SecondOK(x)'
        <3>1. <<x, 1>> \in Deliveries \ {d, p} /\ <<x, 2>> \in Deliveries \ {d, p}
            BY <2>2 DEF Deliveries
        <3>. QED  BY <1>5, <3>1 DEF IInv, SecondOK
    <2>. QED  BY <2>1, <2>2
<1>9. \A f \in Firings : FiringOK(f)'
    BY <1>6, FiringFrame, RunsAssumption DEF IInv, schedulerVars
<1>10. (\A w \in Workflows : JobOK(w)') /\ (\A r \in registering' : RegisteringOK(r[1], r[2])')
    BY <1>1 DEF IInv, JobOK, RegisteringOK, Exists, schedulerVars
<1>11. TypeOK'
    BY <1>1, <1>5 DEF IInv, TypeOK, TablesTypeOK, SlackTypeOK, SchedulerTypeOK, schedulerVars, HandlerRecord
<1>. QED  BY <1>6, <1>7, <1>8, <1>9, <1>10, <1>11 DEF IInv

-----------------------------------------------------------------------------
(* The scheduler's steps                                                   *)

\* Of all firings and runs only f moves.
OnlyFiring(f) ==
    /\ \A x \in Firings \ {f} : firing'[x] = firing[x]
    /\ \A r \in Runs \ {f} : status'[r] = status[r] /\ task'[r] = task[r] /\ of'[r] = of[r]
    /\ UNCHANGED <<workflows, agent, changed, edits, jobs, registering>>
    /\ UNCHANGED slackVars

LEMMA SchedulerStep ==
    ASSUME IInv, NEW f \in Firings, OnlyFiring(f), Harmless \/ Harm(f),
           TablesTypeOK', SchedulerTypeOK', RunOK(f)', FiringOK(f)'
    PROVE  IInv'
<1>. f \in Runs /\ f \notin Deliveries
    BY RunsAssumption
<1>1. TypeOK' /\ harmed \subseteq harmed'
    BY FaultType DEF IInv, TypeOK, SlackTypeOK, OnlyFiring, slackVars
<1>2. \A r \in Runs \ {f} : RunMoves(r) /\ RunOK(r)'
    BY <1>1, RunFrame DEF IInv, OnlyFiring, RunMoves
<1>3. \A x \in Deliveries : DeliveryOK(x)'
    BY <1>1, <1>2, DeliveryFrame, RunsAssumption DEF IInv, OnlyFiring, slackVars
<1>4. \A e \in Events : SecondOK(e)'
    BY DEF IInv, SecondOK, OnlyFiring, slackVars
<1>5. \A x \in Firings \ {f} : FiringOK(x)'
    BY <1>2, FiringFrame, RunsAssumption DEF IInv, OnlyFiring
<1>6. \A w \in Workflows : JobOK(w)'
    BY <1>1, JobFrame DEF IInv, OnlyFiring
<1>7. \A p \in registering' : RegisteringOK(p[1], p[2])'
    BY DEF IInv, RegisteringOK, OnlyFiring
<1>. QED  BY <1>1, <1>2, <1>3, <1>4, <1>5, <1>6, <1>7 DEF IInv

FiringRecord ==
    [pc : {"none", "fired", "found", "inserted", "running", "done", "dead"},
     workflow : Workflows \cup {None}, badIds : BOOLEAN]

LEMMA FiringType ==
    ASSUME IInv, NEW f \in Firings
    PROVE  /\ firing[f] \in FiringRecord /\ firing \in [Firings -> FiringRecord]
           /\ FiringOK(f) /\ RunOK(f) /\ f \in Runs
BY RunsAssumption DEF IInv, TypeOK, SchedulerTypeOK, FiringRecord

\* Only the record of f changes, to one with these fields.
FiringBecomes(f, pc, w) ==
    /\ firing' \in [Firings -> FiringRecord]
    /\ \A x \in Firings \ {f} : firing'[x] = firing[x]
    /\ firing'[f].pc = pc /\ firing'[f].workflow = w

LEMMA Moves ==
    ASSUME IInv, NEW f \in Firings,
           NEW pc \in {"fired", "found", "inserted", "running", "done", "dead"}, MoveTo(f, pc)
    PROVE  FiringBecomes(f, pc, firing[f].workflow)
BY FiringType DEF MoveTo, FiringBecomes, FiringRecord

\* The same for a step that leaves the runs alone.
LEMMA QuietFiring ==
    ASSUME IInv, NEW f \in Firings, NEW pc, NEW w, FiringBecomes(f, pc, w), Harmless \/ Harm(f),
           UNCHANGED <<workflows, agent, status, of, task, changed, edits, jobs, registering>>,
           UNCHANGED slackVars, FiringOK(f)'
    PROVE  IInv'
<1>1. /\ harmed' \subseteq Workflows \cup Runs /\ faults' \in 0..MaxFaults
      /\ harmed \subseteq harmed'
    BY FaultType, FiringType DEF IInv
<1>2. TablesTypeOK' /\ OnlyFiring(f)
    BY <1>1 DEF IInv, TypeOK, TablesTypeOK, OnlyFiring, FiringBecomes
<1>3. RunOK(f)'
    BY <1>1, FiringType, RunFrame DEF IInv
<1>4. SchedulerTypeOK'
    BY DEF IInv, TypeOK, SchedulerTypeOK, FiringBecomes, FiringRecord
<1>. QED  BY <1>2, <1>3, <1>4, SchedulerStep

LEMMA FireIInv ==
    ASSUME IInv, NEW f \in Firings, NEW w \in Workflows, Fire(f, w), UNCHANGED slackVars
    PROVE  IInv'
<1>1. /\ firing[f].pc = "none" /\ Harmless /\ UNCHANGED <<jobs, registering>>
      /\ UNCHANGED <<workflows, agent, status, of, task, changed, edits>>
    BY DEF Fire, tables, Harmless
<1>2. FiringBecomes(f, "fired", w)
    <2>. DEFINE g == [firing[f] EXCEPT !.pc = "fired", !.workflow = w]
    <2>1. g \in FiringRecord /\ g.pc = "fired" /\ g.workflow = w
        BY FiringType DEF FiringRecord
    <2>2. firing' = [firing EXCEPT ![f] = g]
        BY DEF Fire
    <2>. HIDE DEF g
    <2>. QED  BY <2>1, <2>2, FiringType DEF FiringBecomes
<1>3. FiringOK(f)'
    BY <1>1, <1>2, FiringType DEF FiringOK, FiringBecomes, NoRun
<1>. QED  BY <1>1, <1>2, <1>3, QuietFiring

LEMMA FindIInv ==
    ASSUME IInv, NEW f \in Firings, Find(f), UNCHANGED slackVars
    PROVE  IInv'
<1>. DEFINE w == firing[f].workflow
<1>1. /\ firing[f].pc = "fired" /\ (Harmless \/ Harm(f)) /\ UNCHANGED <<jobs, registering>>
      /\ UNCHANGED <<workflows, agent, status, of, task, changed, edits>>
    BY DEF Find, Harmless
<1>2. PICK pc \in {"found", "done", "dead"} : FiringBecomes(f, pc, w)
    <2>1. ASSUME Exists(w),
                 firing' = [firing EXCEPT ![f].pc = "found", ![f].badIds = workflows[w].badIds]
          PROVE  FiringBecomes(f, "found", w)
        <3>. DEFINE g == [firing[f] EXCEPT !.pc = "found", !.badIds = workflows[w].badIds]
        <3>1. workflows[w].badIds \in BOOLEAN
            BY <2>1, RowsAssumption DEF Exists
        <3>2. g \in FiringRecord /\ g.pc = "found" /\ g.workflow = w
            BY <3>1, FiringType DEF FiringRecord
        <3>3. firing' = [firing EXCEPT ![f] = g]
            BY <2>1, FiringType DEF FiringRecord
        <3>. HIDE DEF g
        <3>. QED  BY <3>2, <3>3, FiringType DEF FiringBecomes
    <2>. QED  BY <2>1, Moves DEF Find
<1>3. FiringOK(f)'
    BY <1>1, <1>2, FiringType DEF FiringOK, FiringBecomes, NoRun
<1>. QED  BY <1>1, <1>2, <1>3, QuietFiring

LEMMA InsertIInv ==
    ASSUME IInv, NEW f \in Firings, Insert(f), UNCHANGED slackVars
    PROVE  IInv'
<1>. DEFINE w == firing[f].workflow
<1>1. /\ firing[f].pc = "found" /\ (Harmless \/ Harm(f)) /\ f \in Runs /\ NoRun(f) /\ w \in Workflows
      /\ UNCHANGED <<jobs, registering, workflows, agent, task, changed, edits>>
    BY FiringType DEF Insert, Harmless, FiringOK
<1>2. /\ harmed' \subseteq Workflows \cup Runs /\ faults' \in 0..MaxFaults
      /\ harmed \subseteq harmed'
    BY <1>1, FaultType DEF IInv
<1>3. PICK pc \in {"inserted", "dead"} :
          /\ FiringBecomes(f, pc, w)
          /\ pc = "inserted" => InsertRun(f, w)
          /\ InsertRun(f, w) \/ UNCHANGED <<status, of>>
    BY Moves DEF Insert
<1>4. /\ status' \in [Runs -> {"none", "pending", "running", "completed", "failed", "deleted"}]
      /\ of' \in [Runs -> Workflows \cup {None}]
      /\ \A x \in Runs \ {f} : status'[x] = status[x] /\ of'[x] = of[x]
      /\ (status'[f] = "pending" /\ of'[f] = w) \/ (status'[f] = status[f] /\ of'[f] = of[f])
      /\ pc = "inserted" => status'[f] = "pending"
    BY <1>1, <1>3, InsertType DEF IInv, TypeOK, TablesTypeOK
<1>5. TablesTypeOK' /\ OnlyFiring(f)
    BY <1>1, <1>2, <1>3, <1>4 DEF IInv, TypeOK, TablesTypeOK, OnlyFiring, FiringBecomes
<1>6. RunOK(f)'
    BY <1>1, <1>4, FiringType DEF RunOK, NoRun
<1>7. FiringOK(f)'
    BY <1>1, <1>3, <1>4 DEF FiringOK, FiringBecomes, NoRun
<1>8. SchedulerTypeOK'
    BY <1>1, <1>3 DEF IInv, TypeOK, SchedulerTypeOK, FiringBecomes, FiringRecord
<1>. QED  BY <1>1, <1>5, <1>6, <1>7, <1>8, SchedulerStep

LEMMA PrepareIInv ==
    ASSUME IInv, NEW f \in Firings, Prepare(f), UNCHANGED slackVars
    PROVE  IInv'
<1>. DEFINE w == firing[f].workflow
<1>1. /\ firing[f].pc = "inserted" /\ (Harmless \/ Harm(f)) /\ f \in Runs
      /\ task[f] = "none" /\ status[f] # "none"
      /\ UNCHANGED <<jobs, registering, workflows, agent, status, of, changed, edits>>
    BY FiringType DEF Prepare, Harmless, FiringOK
<1>2. /\ harmed' \subseteq Workflows \cup Runs /\ faults' \in 0..MaxFaults
      /\ harmed \subseteq harmed'
    BY <1>1, FaultType DEF IInv
<1>3. PICK pc \in {"running", "dead"} :
          /\ FiringBecomes(f, pc, w)
          /\ task' = task \/ task' = [task EXCEPT ![f] = "starting"]
    BY Moves DEF Prepare
<1>4. /\ task' \in [Runs -> {"none", "starting", "graph", "over", "silent", "raised"}]
      /\ \A x \in Runs \ {f} : task'[x] = task[x]
      /\ task'[f] \in {"none", "starting"}
    BY <1>1, <1>3 DEF IInv, TypeOK, TablesTypeOK
<1>5. TablesTypeOK' /\ OnlyFiring(f)
    BY <1>1, <1>2, <1>3, <1>4 DEF IInv, TypeOK, TablesTypeOK, OnlyFiring, FiringBecomes
<1>6. RunOK(f)'
    BY <1>1, <1>4, FiringType DEF RunOK
<1>7. FiringOK(f)'
    BY <1>1, <1>3, FiringType DEF FiringOK, FiringBecomes, FiringRecord
<1>8. SchedulerTypeOK'
    BY <1>1, <1>3 DEF IInv, TypeOK, SchedulerTypeOK, FiringBecomes, FiringRecord
<1>. QED  BY <1>1, <1>5, <1>6, <1>7, <1>8, SchedulerStep

LEMMA FinishIInv ==
    ASSUME IInv, NEW f \in Firings, Finish(f), UNCHANGED slackVars
    PROVE  IInv'
<1>1. /\ firing[f].pc = "running" /\ Harmless /\ UNCHANGED <<jobs, registering>>
      /\ UNCHANGED <<workflows, agent, status, of, task, changed, edits>>
    BY DEF Finish, tables, Harmless
<1>2. FiringBecomes(f, "done", firing[f].workflow)
    BY Moves DEF Finish
<1>3. FiringOK(f)'
    BY <1>1, <1>2, FiringType DEF FiringOK, FiringBecomes
<1>. QED  BY <1>1, <1>2, <1>3, QuietFiring

-----------------------------------------------------------------------------
(* The jobs                                                                *)

\* A step of which no delivery, firing or run takes notice.
LEMMA JobsStep ==
    ASSUME IInv, UNCHANGED slackVars, UNCHANGED <<firing, agent, status, of, task>>,
           harmed \subseteq harmed', TablesTypeOK', SchedulerTypeOK',
           \A w \in Workflows : JobOK(w)',
           \A p \in registering' : RegisteringOK(p[1], p[2])'
    PROVE  IInv'
<1>1. TypeOK'
    BY DEF IInv, TypeOK, SlackTypeOK, slackVars
<1>2. \A r \in Runs : RunMoves(r) /\ RunOK(r)'
    BY RunFrame DEF IInv, RunMoves
<1>3. \A x \in Deliveries : DeliveryOK(x)'
    BY <1>2, DeliveryFrame, RunsAssumption DEF IInv, slackVars
<1>4. \A e \in Events : SecondOK(e)'
    BY DEF IInv, SecondOK, slackVars
<1>5. \A f \in Firings : FiringOK(f)'
    BY <1>2, FiringFrame, RunsAssumption DEF IInv
<1>. QED  BY <1>1, <1>2, <1>3, <1>4, <1>5 DEF IInv

LEMMA InstantiateIInv ==
    ASSUME IInv, NEW w \in Workflows, Instantiate(w), UNCHANGED slackVars
    PROVE  IInv'
<1>1. PICK row \in Templates :
          /\ workflows' = [workflows EXCEPT ![w] = row]
          /\ registering' = registering \cup {<<w, row>>}
          /\ changed' = IF row.trigger = "cron" THEN changed ELSE changed \cup {w}
    BY DEF Instantiate
<1>2. /\ workflows[w] = None /\ row \in Rows /\ edits' \in 0..MaxEdits
      /\ UNCHANGED <<jobs, firing, agent, status, of, task, harmed, faults>>
    BY EditType, TemplatesAssumption DEF Instantiate, IInv
<1>3. /\ workflows' \in [Workflows -> Rows \cup {None, Gone}]
      /\ workflows'[w] = row /\ \A x \in Workflows \ {w} : workflows'[x] = workflows[x]
    BY <1>1, <1>2 DEF IInv, TypeOK, TablesTypeOK
<1>4. TablesTypeOK'
    BY <1>1, <1>2, <1>3 DEF IInv, TypeOK, TablesTypeOK
<1>5. SchedulerTypeOK'
    BY <1>1, <1>2 DEF IInv, TypeOK, SchedulerTypeOK
<1>6. \A x \in Workflows : JobOK(x)'
    <2>1. JobOK(w)'
        BY <1>1, <1>2 DEF JobOK
    <2>2. \A x \in Workflows \ {w} : JobOK(x)'
        BY <1>1, <1>2, <1>3, JobFrame DEF IInv
    <2>. QED  BY <2>1, <2>2
<1>7. ASSUME NEW p \in registering'
      PROVE  RegisteringOK(p[1], p[2])'
    <2>1. CASE p = <<w, row>>
        BY <1>1, <1>3, <2>1 DEF RegisteringOK
    <2>2. CASE p \in registering
        <3>1. p[1] \in Workflows /\ p[2] \in Rows /\ RegisteringOK(p[1], p[2])
            BY <2>2 DEF IInv, TypeOK, SchedulerTypeOK
        <3>2. p[1] = w => w \in changed
            BY <1>2, <3>1, NoneAssumption DEF RegisteringOK
        <3>. QED  BY <1>1, <1>3, <3>1, <3>2 DEF RegisteringOK
    <2>. QED  BY <1>1, <2>1, <2>2
<1>. QED  BY <1>2, <1>4, <1>5, <1>6, <1>7, JobsStep

LEMMA RegisterIInv ==
    ASSUME IInv, NEW w \in Workflows, NEW row \in Rows, Register(w, row), UNCHANGED slackVars
    PROVE  IInv'
<1>1. /\ <<w, row>> \in registering /\ RegisteringOK(w, row)
      /\ registering' = registering \ {<<w, row>>}
      /\ Harmless \/ Harm(w)
      /\ UNCHANGED <<firing, workflows, agent, status, of, task, changed, edits>>
    <2>1. <<w, row>>[1] = w /\ <<w, row>>[2] = row
        OBVIOUS
    <2>. QED  BY <2>1 DEF Register, IInv, Harmless
<1>2. /\ harmed' \subseteq Workflows \cup Runs /\ faults' \in 0..MaxFaults
      /\ harmed \subseteq harmed'
    BY <1>1, FaultType DEF IInv
<1>3. PICK job \in {r.schedule : r \in Rows} \cup {None} :
          /\ jobs' = [jobs EXCEPT ![w] = job]
          /\ \/ Exists(w) /\ job = IF row.trigger = "cron" THEN Job(row.schedule) ELSE None
             \/ ~Exists(w) /\ job = jobs[w]
             \/ w \in harmed'
    <2>1. jobs = [jobs EXCEPT ![w] = jobs[w]] /\ jobs[w] \in {r.schedule : r \in Rows} \cup {None}
        BY DEF IInv, TypeOK, SchedulerTypeOK
    <2>2. \A b \in {TRUE, FALSE} :
              (IF b THEN Job(row.schedule) ELSE None) \in {r.schedule : r \in Rows} \cup {None}
        BY DEF Job
    <2>3. \/ /\ Exists(w)
             /\ jobs' = [jobs EXCEPT ![w] = IF row.trigger = "cron" THEN Job(row.schedule) ELSE None]
          \/ ~Exists(w) /\ jobs' = jobs
          \/ w \in harmed' /\ jobs' = jobs
        BY DEF Register, Harm
    <2>. QED  BY <2>1, <2>2, <2>3
<1>4. /\ jobs' \in [Workflows -> {r.schedule : r \in Rows} \cup {None}]
      /\ jobs'[w] = job /\ \A x \in Workflows \ {w} : jobs'[x] = jobs[x]
    BY <1>3 DEF IInv, TypeOK, SchedulerTypeOK
<1>5. TablesTypeOK' /\ SchedulerTypeOK'
    BY <1>1, <1>2, <1>4 DEF IInv, TypeOK, TablesTypeOK, SchedulerTypeOK
<1>6. \A x \in Workflows : JobOK(x)'
    <2>1. JobOK(w)'
        <3>1. CASE w \in changed \cup harmed'
            BY <1>1, <3>1 DEF JobOK
        <3>2. CASE w \notin changed \cup harmed'
            <4>1. workflows[w] = row /\ row.trigger = "cron" /\ Exists(w)
                BY <1>1, <3>2 DEF RegisteringOK, Exists
            <4>2. jobs'[w] = Job(row.schedule) /\ workflows'[w] = row
                BY <1>1, <1>3, <1>4, <3>2, <4>1
            <4>. QED  BY <4>1, <4>2 DEF JobOK, Exists
        <3>. QED  BY <3>1, <3>2
    <2>2. ASSUME NEW x \in Workflows, x # w
          PROVE  JobOK(x)'
        <3>1. \A r \in Rows : <<x, r>> \in registering => <<x, r>> \in registering'
            BY <1>1, <2>2
        <3>. QED  BY <1>1, <1>2, <1>4, <2>2, <3>1 DEF IInv, JobOK, Exists
    <2>. QED  BY <2>1, <2>2
<1>7. \A p \in registering' : RegisteringOK(p[1], p[2])'
    BY <1>1 DEF IInv, RegisteringOK
<1>. QED  BY <1>1, <1>2, <1>5, <1>6, <1>7, JobsStep

-----------------------------------------------------------------------------
(* The start, and the restarts                                             *)

LEMMA StartJobsType ==
    StartJobs \in [Workflows -> {row.schedule : row \in Rows} \cup {None}]
BY DEF StartJobs, Exists, Job

LEMMA InitIInv == ASSUME Init PROVE IInv
<1>. USE DEF Init, TablesInit, SlackInit, SchedulerInit
<1>1. TypeOK
    BY StartJobsType, BoundsAssumption
       DEF TypeOK, TablesTypeOK, SlackTypeOK, SchedulerTypeOK, Places
<1>2. /\ \A r \in Runs : RunOK(r)
      /\ \A d \in Deliveries : DeliveryOK(d)
      /\ \A f \in Firings : FiringOK(f)
    BY RunsAssumption
       DEF RunOK, DeliveryOK, PlaceOK, ReplyOK, AckOK, Acted, NoRun, Unrouted, FiringOK
<1>3. \A e \in Events : SecondOK(e)
    BY DEF SecondOK, Deliveries
<1>4. (\A w \in Workflows : JobOK(w)) /\ (\A p \in registering : RegisteringOK(p[1], p[2]))
    BY DEF JobOK, StartJobs
<1>. QED  BY <1>1, <1>2, <1>3, <1>4 DEF IInv

LEMMA RestartIInv == ASSUME IInv, Restart PROVE IInv'
<1>. DEFINE others == {d \in Deliveries : ~Handled(d)} \cup {f \in Firings : ~Idle(f)}
<1>1. /\ faults < MaxFaults /\ faults' = faults + 1
      /\ task' = [r \in Runs |-> IF Working(r) THEN "raised" ELSE task[r]]
      /\ harmed' = harmed \cup others \cup {r \in Runs : Working(r)}
      /\ changed' = {} /\ registering' = {} /\ jobs' = StartJobs
      /\ UNCHANGED <<workflows, agent, status, of, edits>>
      /\ UNCHANGED <<ignored, saved, posted, facts>>
    BY DEF Restart, TablesRestart, SlackRestart, SchedulerRestart
<1>2. \A d \in Deliveries : handler'[d] = IF Handled(d) THEN handler[d]
                                          ELSE [handler[d] EXCEPT !.pc = "dead"]
    BY DEF Restart, SlackRestart
<1>3. \A f \in Firings : firing'[f] = IF Idle(f) THEN firing[f]
                                      ELSE [firing[f] EXCEPT !.pc = "dead"]
    BY DEF Restart, SchedulerRestart
<1>4. \A r \in Runs : RunMoves(r) /\ RunOK(r)'
    <2>. SUFFICES ASSUME NEW r \in Runs PROVE RunMoves(r) /\ RunOK(r)'
        OBVIOUS
    <2>1. RunOK(r) /\ (Working(r) => r \in harmed')
        BY <1>1 DEF IInv
    <2>. QED  BY <1>1, <2>1 DEF RunMoves, RunOK, Working
<1>5. \A d \in Deliveries : DeliveryOK(d)'
    <2>. SUFFICES ASSUME NEW d \in Deliveries PROVE DeliveryOK(d)'
        OBVIOUS
    <2>1. CASE Handled(d)
        BY <1>1, <1>2, <1>4, <2>1, DeliveryFrame, HandlerType DEF IInv
    <2>2. CASE ~Handled(d)
        <3>1. /\ handler'[d].pc = "dead" /\ handler'[d].ack = handler[d].ack
              /\ handler'[d].workflow = handler[d].workflow
              /\ handler'[d].reply = handler[d].reply /\ d \in harmed'
            BY <1>1, <1>2, <2>2, HandlerType DEF HandlerRecord
        <3>2. /\ handler'[d].cut = handler[d].cut
              /\ task[d] \in {"over", "silent"} => task'[d] = task[d]
              /\ status'[d] = status[d] /\ facts' = facts
              /\ agent' = agent /\ harmed \subseteq harmed'
            BY <1>1, <1>2, <2>2, HandlerType DEF HandlerRecord, Working
        <3>3. saved' = saved /\ posted' = posted
            BY <1>1
        <3>4. PlaceOK(d)'
            BY <3>1 DEF PlaceOK, Unrouted
        <3>5. ReplyOK(d)'
            <4>1. ReplyOK(d) /\ (handler[d].cut => handler[d].pc # "remembering" \/ d \in harmed')
                BY <3>1, HandlerType
            <4>. QED  BY <3>1, <3>2, <4>1 DEF ReplyOK
        <3>6. AckOK(d)'
            BY <3>1, <3>2, <3>3, HandlerType DEF AckOK, Acted
        <3>. QED  BY <3>4, <3>5, <3>6 DEF DeliveryOK
    <2>. QED  BY <2>1, <2>2
<1>6. \A e \in Events : SecondOK(e)'
    <2>. SUFFICES ASSUME NEW e \in Events PROVE SecondOK(e)'
        OBVIOUS
    <2>1. \A d \in Deliveries :
              /\ handler'[d].ack = handler[d].ack
              /\ handler[d].pc = "none" => handler'[d].pc = "none"
              /\ handler[d].pc = "dead" => handler'[d].pc = "dead"
        BY <1>2, HandlerType DEF HandlerRecord, Handled
    <2>2. <<e, 1>> \in Deliveries /\ <<e, 2>> \in Deliveries
        BY DEF Deliveries
    <2>. QED  BY <2>1, <2>2 DEF IInv, SecondOK
<1>7. \A f \in Firings : FiringOK(f)'
    <2>. SUFFICES ASSUME NEW f \in Firings PROVE FiringOK(f)'
        OBVIOUS
    <2>1. CASE Idle(f)
        BY <1>3, <1>4, <2>1, FiringFrame, FiringType
    <2>2. CASE ~Idle(f)
        <3>1. firing'[f].pc = "dead" /\ firing'[f].workflow \in Workflows
            BY <1>3, <2>2, FiringType DEF FiringRecord, FiringOK, Idle
        <3>. QED  BY <3>1 DEF FiringOK
    <2>. QED  BY <2>1, <2>2
<1>8. (\A w \in Workflows : JobOK(w)') /\ (\A p \in registering' : RegisteringOK(p[1], p[2])')
    BY <1>1 DEF JobOK, StartJobs, Exists
<1>9. TypeOK'
    <2>1. TablesTypeOK'
        <3>1. others \subseteq Runs /\ \A r \in Runs : task[r] \in {"none", "starting", "graph", "over", "silent", "raised"}
            BY RunsAssumption DEF IInv, TypeOK, TablesTypeOK
        <3>. QED  BY <1>1, <3>1, BoundsAssumption DEF IInv, TypeOK, TablesTypeOK
    <2>2. SlackTypeOK'
        <3>1. \A d \in Deliveries : handler'[d] \in HandlerRecord
            BY ZenonT(60), <1>2, HandlerType DEF HandlerRecord, Places
        <3>2. handler' \in [Deliveries -> HandlerRecord]
            BY <3>1 DEF Restart, SlackRestart
        <3>. QED  BY <1>1, <3>2 DEF IInv, TypeOK, SlackTypeOK, HandlerRecord
    <2>3. SchedulerTypeOK'
        <3>1. \A f \in Firings : firing'[f] \in FiringRecord
            BY <1>3, FiringType DEF FiringRecord
        <3>2. firing' \in [Firings -> FiringRecord]
            BY <3>1 DEF Restart, SchedulerRestart
        <3>. QED  BY <1>1, <3>2, StartJobsType DEF IInv, TypeOK, SchedulerTypeOK, FiringRecord
    <2>. QED  BY <2>1, <2>2, <2>3 DEF TypeOK
<1>. QED  BY <1>4, <1>5, <1>6, <1>7, <1>8, <1>9 DEF IInv

-----------------------------------------------------------------------------
(* The theorems                                                            *)

LEMMA NextIInv == ASSUME IInv, [Next]_vars PROVE IInv'
<1>1. CASE TablesNext /\ UNCHANGED <<slackVars, schedulerVars>>
    BY <1>1, EditWorkflowIInv, DeleteSlackAgentIInv, AdvanceIInv, NeverBeginsIInv,
       RaiseIInv DEF TablesNext
<1>2. CASE SlackNext /\ UNCHANGED schedulerVars
    <2>1. PICK d \in Deliveries : Deliver(d) \/ Handle(d)
        BY <1>2 DEF SlackNext
    <2>2. SavesBetween("user", "found", "saved") /\ SavesBetween("assistant", "replying", "posting")
        BY DEF SavesBetween
    <2>. QED  BY <1>2, <2>1, <2>2, DeliverIInv, AckIInv, FindAgentIInv, SaveIInv, RouteIInv,
                 StartRunIInv, FinishRunIInv, RunDirectIInv, RememberIInv, PostIInv DEF Handle
<1>3. CASE SchedulerNext /\ UNCHANGED slackVars
    BY <1>3, InstantiateIInv, RegisterIInv, FireIInv, FindIInv, InsertIInv, PrepareIInv, FinishIInv
       DEF SchedulerNext, Trigger
<1>4. CASE Restart
    BY <1>4, RestartIInv
<1>5. CASE UNCHANGED vars
    <2>1. /\ UNCHANGED <<workflows, agent, status, of, task, changed, harmed, edits, faults>>
          /\ UNCHANGED slackVars /\ UNCHANGED <<jobs, firing, registering>>
        BY <1>5 DEF vars, tables, schedulerVars
    <2>2. TablesTypeOK' /\ SchedulerTypeOK'
        BY <2>1 DEF IInv, TypeOK, TablesTypeOK, SchedulerTypeOK
    <2>3. /\ \A w \in Workflows : JobOK(w)'
          /\ \A p \in registering' : RegisteringOK(p[1], p[2])'
        BY <2>1 DEF IInv, JobOK, RegisteringOK, Exists
    <2>. QED  BY <2>1, <2>2, <2>3, JobsStep
<1>. QED  BY <1>1, <1>2, <1>3, <1>4, <1>5 DEF Next

\* The inductive invariant holds in every state.
THEOREM Invariance == Spec => []IInv
<1>1. Init => IInv
    BY InitIInv
<1>2. IInv /\ [Next]_vars => IInv'
    BY NextIInv
<1>. QED  BY <1>1, <1>2, PTL DEF Spec

\* Every variable keeps its type: rows, runs, tasks, handlers, firings and jobs.
THEOREM TypeCorrect == Spec => []TypeOK
<1>1. IInv => TypeOK
    BY DEF IInv
<1>. QED  BY <1>1, Invariance, PTL

\* A job has the schedule of its row, unless the row was changed by an endpoint
\* since the start, or the registration is under way or has failed.
THEOREM JobsFollowRows == Spec => []JobsMatchRows
<1>1. IInv => JobsMatchRows
    BY DEF IInv, JobOK, JobsMatchRows
<1>. QED  BY <1>1, Invariance, PTL

\* What _handle_event tells the user is what became of the run.
THEOREM RepliesAreTrue == Spec => []RepliesTellOutcome
<1>1. IInv => RepliesTellOutcome
    <2>. SUFFICES ASSUME IInv, NEW d \in Deliveries
                  PROVE  LET h == handler[d] IN
                         /\ h.reply = "answer" /\ h.workflow # None /\ status[d] # "deleted"
                               => status[d] = "completed" /\ task[d] = "over"
                         /\ h.reply = "Workflow completed." =>
                               status[d] \in {"failed", "deleted"} \/ task[d] = "silent"
                         /\ h.reply = "sorry" /\ status[d] = "completed" => d \in harmed
                         /\ h.cut /\ h.pc = "done" => d \in facts \cup harmed \/ ~agent
        BY DEF RepliesTellOutcome
    <2>. QED  BY HandlerType DEF ReplyOK, RunOK
<1>. QED  BY <1>1, Invariance, PTL

\* If both deliveries of an event act, Slack missed the first's acknowledgement.
THEOREM EventsActTwiceOnlyUnacknowledged == Spec => []EventsActOnce
<1>1. IInv => EventsActOnce
    <2>. SUFFICES ASSUME IInv, NEW e \in Events, Acted(<<e, 1>>), Acted(<<e, 2>>)
                  PROVE  handler[<<e, 1>>].ack \in {"unseen", "late"}
        BY DEF EventsActOnce
    <2>1. <<e, 1>> \in Deliveries /\ <<e, 2>> \in Deliveries
        BY DEF Deliveries
    <2>2. AckOK(<<e, 1>>) /\ AckOK(<<e, 2>>) /\ SecondOK(e)
        BY <2>1, HandlerType DEF IInv
    <2>. QED  BY <2>2 DEF AckOK, SecondOK
<1>. QED  BY <1>1, Invariance, PTL

-----------------------------------------------------------------------------
(* The runs' rows                                                          *)

\* What a reader of the table may rely on: no operator resets a row here.
RunTable == INSTANCE RunStatus WITH FaultsHappen <- MaxFaults > 0, ResetsHappen <- FALSE

\* A step that leaves the rows alone, inserts the run that it is about, or moves it.
LEMMA RowsStep ==
    ASSUME TypeOK, status' \in [Runs -> RunTable!Statuses],
           NEW r \in Runs, RunTable!MayMove(status[r], status'[r]),
           \A x \in Runs \ {r} : status'[x] = status[x]
    PROVE  RunTable!Next
BY DEF RunTable!Next, RunTable!MayMove

LEMMA InsertIsStep ==
    ASSUME TypeOK, NEW r \in Runs, NEW w \in Workflows, InsertRun(r, w), NoRun(r)
    PROVE  RunTable!Next
<1>1. /\ status' \in [Runs -> RunTable!Statuses] /\ status'[r] = "pending"
      /\ \A x \in Runs \ {r} : status'[x] = status[x]
    BY InsertType DEF RunTable!Statuses, RunTable!Live, RunTable!Terminal
<1>2. RunTable!MayMove(status[r], status'[r])
    BY <1>1 DEF NoRun, RunTable!MayMove, RunTable!Edges
<1>. QED  BY <1>1, <1>2, RowsStep

LEMMA EditIsStep ==
    ASSUME IInv, NEW w \in Workflows, status' = Deleted(w)
    PROVE  RunTable!Next
<1>. USE DEF RunTable!Live, RunTable!Terminal
<1>1. status' \in [Runs -> RunTable!Statuses]
    BY DEF IInv, TypeOK, TablesTypeOK, Deleted, RunTable!Statuses
<1>2. ASSUME NEW r \in Runs PROVE RunTable!MayMove(status[r], status'[r])
    <2>1. status[r] \in {"none", "pending", "running", "completed", "failed", "deleted"}
        BY DEF IInv, TypeOK, TablesTypeOK
    <2>2. status'[r] = IF of[r] = w THEN "deleted" ELSE status[r]
        BY DEF Deleted
    <2>3. of[r] = w => status[r] # "none"
        BY NoneAssumption DEF IInv, RunOK
    <2>. QED  BY <2>1, <2>2, <2>3 DEF RunTable!MayMove, RunTable!Edges
<1>. QED  BY <1>1, <1>2 DEF RunTable!Next

LEMMA AdvanceIsStep ==
    ASSUME IInv, NEW r \in Runs, Advance(r)
    PROVE  RunTable!Next
<1>. USE DEF RunTable!Live, RunTable!Terminal
<1>1. PICK t \in {<<"starting", "graph", "running">>, <<"graph", "over", "completed">>,
                  <<"graph", "silent", "completed">>, <<"graph", "over", "failed">>} :
          task[r] = t[1] /\ SetStatus(r, t[3])
    BY DEF Advance
<1>2. status \in [Runs -> RunTable!Statuses]
    BY DEF IInv, TypeOK, TablesTypeOK, RunTable!Statuses
<1>3. t[3] \in RunTable!Statuses
    BY DEF RunTable!Statuses
<1>4. /\ status' \in [Runs -> RunTable!Statuses]
      /\ \A x \in Runs \ {r} : status'[x] = status[x]
      /\ status'[r] = IF status[r] = "deleted" THEN "deleted" ELSE t[3]
    BY <1>1, <1>2, <1>3 DEF SetStatus
<1>5. \/ t[3] = "running" /\ status[r] \in {"pending", "deleted"}
      \/ t[3] \in {"completed", "failed"} /\ status[r] \in {"running", "deleted"}
    BY <1>1 DEF IInv, RunOK
<1>6. RunTable!MayMove(status[r], status'[r])
    BY <1>4, <1>5 DEF RunTable!MayMove, RunTable!Edges
<1>. QED  BY <1>4, <1>6, RowsStep DEF IInv

\* A fault of the task moves the row along an edge, of which one is for faults.
LEMMA FaultIsStep ==
    ASSUME IInv, NEW r \in Runs, NeverBegins(r) \/ Raise(r)
    PROVE  RunTable!Next \/ UNCHANGED status
<1>. USE DEF RunTable!Live, RunTable!Terminal
<1>1. CASE UNCHANGED status
    BY <1>1
<1>2. CASE ~UNCHANGED status
    <2>1. PICK s \in {"running", "completed", "failed"} :
              /\ SetStatus(r, s) /\ faults < MaxFaults
              /\ \/ task[r] = "starting" /\ s \in {"running", "failed"}
                 \/ task[r] = "graph" /\ s \in {"completed", "failed"}
        BY <1>2 DEF NeverBegins, Raise, Unacknowledged, Harm, Working
    <2>2. status \in [Runs -> RunTable!Statuses] /\ s \in RunTable!Statuses
        BY DEF IInv, TypeOK, TablesTypeOK, RunTable!Statuses
    <2>3. /\ status' \in [Runs -> RunTable!Statuses]
          /\ \A x \in Runs \ {r} : status'[x] = status[x]
          /\ status'[r] = IF status[r] = "deleted" THEN "deleted" ELSE s
        BY <2>1, <2>2 DEF SetStatus
    <2>4. MaxFaults > 0
        BY <2>1, BoundsAssumption DEF IInv, TypeOK, TablesTypeOK
    <2>5. /\ task[r] = "starting" => status[r] \in {"pending", "deleted"}
          /\ task[r] = "graph" => status[r] \in {"running", "deleted"}
        BY DEF IInv, RunOK
    <2>6. RunTable!MayMove(status[r], status'[r])
        BY <2>1, <2>3, <2>4, <2>5 DEF RunTable!MayMove, RunTable!Edges, RunTable!FaultEdges
    <2>. QED  BY <2>3, <2>6, RowsStep DEF IInv
<1>. QED  BY <1>1, <1>2

LEMMA NextIsStep ==
    ASSUME IInv, [Next]_vars
    PROVE  RunTable!Next \/ UNCHANGED status
<1>1. ASSUME TablesNext PROVE RunTable!Next \/ UNCHANGED status
    <2>1. ASSUME NEW w \in Workflows, EditWorkflow(w) PROVE RunTable!Next \/ UNCHANGED status
        BY <2>1, EditIsStep DEF EditWorkflow
    <2>2. ASSUME NEW r \in Runs, Advance(r) PROVE RunTable!Next
        BY <2>2, AdvanceIsStep
    <2>3. ASSUME NEW r \in Runs, NeverBegins(r) \/ Raise(r)
          PROVE  RunTable!Next \/ UNCHANGED status
        BY <2>3, FaultIsStep
    <2>. QED  BY <1>1, <2>1, <2>2, <2>3 DEF TablesNext, DeleteSlackAgent
<1>2. ASSUME NEW d \in Deliveries, Deliver(d) \/ Handle(d)
      PROVE  RunTable!Next \/ UNCHANGED status
    <2>1. CASE StartRun(d)
        <3>1. /\ handler[d].workflow \in Workflows /\ d \in Runs /\ NoRun(d)
            BY <2>1, HandlerType DEF StartRun, PlaceOK
        <3>2. InsertRun(d, handler[d].workflow) \/ UNCHANGED status
            BY <2>1 DEF StartRun
        <3>. QED  BY <3>1, <3>2, InsertIsStep DEF IInv
    <2>2. CASE Deliver(d)
        BY <2>2 DEF Deliver, tables
    <2>. QED  BY <1>2, <2>1, <2>2
              DEF Handle, Ack, FindAgent, Save, Route, FinishRun, RunDirect, Remember, Post, tables
<1>3. ASSUME SchedulerNext PROVE RunTable!Next \/ UNCHANGED status
    <2>1. ASSUME NEW f \in Firings, Insert(f) PROVE RunTable!Next \/ UNCHANGED status
        <3>1. firing[f].workflow \in Workflows /\ f \in Runs /\ NoRun(f)
            BY <2>1, FiringType DEF Insert, FiringOK
        <3>2. InsertRun(f, firing[f].workflow) \/ UNCHANGED status
            BY <2>1 DEF Insert
        <3>. QED  BY <3>1, <3>2, InsertIsStep DEF IInv
    <2>. QED  BY <1>3, <2>1
              DEF SchedulerNext, Trigger, Instantiate, Register, Fire, Find, Prepare, Finish, tables
<1>4. ASSUME Restart PROVE UNCHANGED status
    BY <1>4 DEF Restart, TablesRestart
<1>. QED  BY <1>1, <1>2, <1>3, <1>4 DEF Next, SlackNext, vars, tables

\* A run that the bot or the scheduler started walks along the edges of RunStatus
\* from pending to completed or failed, and with a fault from pending to failed
\* at once, whatever interleaves: a commit that is not acknowledged included;
\* a deleted row stays deleted.
THEOREM RunsWalkAlongEdges == Spec => RunTable!Spec
<1>1. Init => RunTable!Init
    BY DEF Init, TablesInit, RunTable!Init
<1>2. IInv /\ [Next]_vars => [RunTable!Next]_status
    BY NextIsStep
<1>. QED  BY <1>1, <1>2, Invariance, PTL DEF Spec, RunTable!Spec
===============================================================================
