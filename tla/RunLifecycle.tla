---------------------------- MODULE RunLifecycle ----------------------------
(***************************************************************************)
(* The life of workflow runs: the POST /run handler that inserts the row  *)
(* and starts the background task (routers/workflow_runs.py), the task    *)
(* run_workflow and its human_review nodes (workflow_runner.py), the      *)
(* in-memory registry of paused runs (hitl.py), the POST /resume handler, *)
(* the deletion of the workflow, and the restart of the process.          *)
(*                                                                         *)
(* Everything runs on one asyncio loop: a step is the code between two    *)
(* awaits.  A database transaction is one step that takes effect at its   *)
(* COMMIT.  The other nodes of a graph are abstracted to what the run can *)
(* see of them: they continue, they raise, or the graph ends.             *)
(***************************************************************************)
EXTENDS Naturals, Sequences, FiniteSets

CONSTANTS
    Runs,        \* runs, each of a workflow of its own
    Callers,     \* resume requests; a caller is also the human input it sends
    MaxReviews,  \* bound: human_review nodes a run goes through
    MaxFaults,   \* bound: failed transactions on a run's row
    MaxCrashes,  \* bound: restarts of the process
    MaxResets    \* bound: operator resets (the UPDATE in hitl.py's docstring)

ASSUME BoundsAssumption ==
    /\ MaxReviews \in Nat
    /\ MaxFaults \in Nat
    /\ MaxCrashes \in Nat
    /\ MaxResets \in Nat

VARIABLES
    row,       \* row[r]: workflow_runs.status, "none" before the INSERT
    pc,        \* pc[r]: where the handler, then the background task, stands
    pending,   \* hitl._pending: an entry per registered run
    review,    \* review[r]: number of human_review nodes entered so far
    messages,  \* messages[r]: the human inputs appended to the graph's state
    req,       \* req[c]: the progress of a resume request
    sent,      \* sent[r]: the terminal events broadcast to the run's sockets
    faults, crashes, resets   \* disturbances so far

vars == <<row, pc, pending, review, messages, req, sent,
          faults, crashes, resets>>

Terminal == {"completed", "failed"}
Statuses == {"none", "pending", "running", "awaiting_review", "deleted"}
            \cup Terminal

Blank == "blank"   \* the "" of `holder[0] if holder else ""`
NoRun == "no run"
ASSUME NamesAssumption == /\ Blank \notin Callers
                          /\ NoRun \notin Runs

\* Where a paused node stands, from its commit of awaiting_review (line 609)
\* to its commit of running (line 639).
Paused   == {"marked", "announced", "waiting", "timer_fired", "resumed"}
\* The task exists: create_task has run and the coroutine has not returned.
\* In the except clause it is "failing", or "broken" when an _update_run has
\* left the session of run_workflow unusable.
TaskPcs  == {"spawned", "graph", "review", "finishing", "completing",
             "failing", "broken", "erroring"} \cup Paused
\* The handler or the task is gone: it returned, raised out of the failure
\* handler, never started, or died with the process.
Ended    == {"done", "raised", "refused", "lost"}
Pcs      == {"idle", "accepted"} \cup TaskPcs \cup Ended

NoEntry  == [event |-> FALSE, holder |-> <<>>, registered |-> FALSE]
NewEntry == [event |-> FALSE, holder |-> <<>>, registered |-> TRUE]

IdleRequest == [at |-> "idle", run |-> NoRun, seen |-> 0]
RequestStates == {"idle", "checked", "200", "400", "404", "409", "lost"}

Init ==
    /\ row = [r \in Runs |-> "none"]
    /\ pc = [r \in Runs |-> "idle"]
    /\ pending = [r \in Runs |-> NoEntry]
    /\ review = [r \in Runs |-> 0]
    /\ messages = [r \in Runs |-> <<>>]
    /\ req = [c \in Callers |-> IdleRequest]
    /\ sent = [r \in Runs |-> {}]
    /\ faults = 0 /\ crashes = 0 /\ resets = 0

-----------------------------------------------------------------------------
(* Helpers                                                                 *)

Goto(r, from, to) == pc[r] = from /\ pc' = [pc EXCEPT ![r] = to]

\* A mistake (see below): the upsert, a deleted row is written back.
RowSetToUpserts(r, s) == [row EXCEPT ![r] = s]

\* `if run_obj:` -- the row's new status, unless the row is gone.
RowSetTo(r, s) ==
    IF row[r] = "deleted" THEN row ELSE [row EXCEPT ![r] = s]

\* SELECT the row, set its status, COMMIT.  Either it succeeds, or it raises:
\* the database failed (and the COMMIT may have taken effect all the same),
\* or the workflow was deleted between the SELECT and the UPDATE.
UpdateRun(r, s, from, to, onRaise) ==
    \/ /\ Goto(r, from, to)
       /\ row' = RowSetTo(r, s)
       /\ UNCHANGED faults
    \/ /\ Goto(r, from, onRaise)
       /\ faults < MaxFaults
       /\ faults' = faults + 1
       /\ row' \in {row, RowSetTo(r, s)}
    \/ /\ Goto(r, from, onRaise)
       /\ row[r] # "deleted"
       /\ row' = [row EXCEPT ![r] = "deleted"]
       /\ UNCHANGED faults

\* _update_run: the same on the one session of run_workflow, which nothing
\* rolls back.  Only an error before the SELECT has begun a transaction, no
\* connection to be had, leaves that session usable for the except clause;
\* after any other it raises at the next use.
UpdateRunShared(r, s, from, to) ==
    \/ UpdateRun(r, s, from, to, "broken")
    \/ /\ Goto(r, from, "failing")
       /\ faults < MaxFaults
       /\ faults' = faults + 1
       /\ UNCHANGED row

-----------------------------------------------------------------------------
(* Plausible mistakes, each a wrong version of the definition it is named  *)
(* after; no specification uses them.  The properties must reject them.    *)

\* An exception of a node ends the task silently.
NodeRaisesSwallowed(r) ==
    /\ Goto(r, "graph", "done")
    /\ UNCHANGED <<row, pending, review, messages, req, sent,
                   faults, crashes, resets>>

\* run_complete is broadcast before the row is committed.
CommitCompletedEventFirst(r) ==
    /\ UpdateRunShared(r, "completed", "finishing", "completing")
    /\ sent' = [sent EXCEPT ![r] = @ \cup {"run_complete"}]
    /\ UNCHANGED <<pending, review, messages, req, crashes, resets>>

\* The except clause rolls the session back and writes failed, without asking
\* whether the COMMIT that raised took effect.
RecordingAfterRollback(r) ==
    /\ UpdateRun(r, "failed", "broken", "erroring", "raised")
    /\ UNCHANGED <<pending, review, messages, req, sent, crashes, resets>>

\* Any wake-up of wait_for is taken for an answer.
WakeUnanswered(r) ==
    /\ Goto(r, "waiting", "resumed")
    /\ pending' = [pending EXCEPT ![r] = NoEntry]
    /\ LET holder == pending[r].holder
           human_input == IF holder # <<>> THEN Head(holder) ELSE Blank
       IN  messages' = [messages EXCEPT ![r] = Append(@, human_input)]
    /\ UNCHANGED <<row, review, req, sent, faults, crashes, resets>>

\* `await event.wait()` without a timeout.
TimerFiresNever(r) == pc[r] = "waiting" /\ FALSE /\ UNCHANGED vars

\* The timeout branch forgets the cleanup.
TimeoutWakeNoCleanup(r) ==
    /\ Goto(r, "timer_fired", "failing")
    /\ sent' = [sent EXCEPT ![r] = @ \cup {"run_error"}]
    /\ UNCHANGED <<row, pending, review, messages, req, faults, crashes, resets>>

\* The timeout branch returns instead of raising, and the task ends there.
TimeoutWakeReturns(r) ==
    /\ Goto(r, "timer_fired", "done")
    /\ pending' = [pending EXCEPT ![r] = NoEntry]
    /\ sent' = [sent EXCEPT ![r] = @ \cup {"run_error"}]
    /\ UNCHANGED <<row, review, messages, req, faults, crashes, resets>>

\* The node forgets to commit running.
ResumeRowForgotten(r) ==
    /\ Goto(r, "resumed", "graph")
    /\ UNCHANGED <<row, pending, review, messages, req, sent,
                   faults, crashes, resets>>

-----------------------------------------------------------------------------
(* POST /workflows/{id}/run                                                *)

\* The run's row is inserted as pending and committed.
StartRun(r) ==
    /\ Goto(r, "idle", "accepted")
    /\ row' = [row EXCEPT ![r] = "pending"]
    /\ UNCHANGED <<pending, review, messages, req, sent,
                   faults, crashes, resets>>

\* The agents are loaded and the background task is created.
SpawnTask(r) ==
    /\ Goto(r, "accepted", "spawned")
    /\ UNCHANGED <<row, pending, review, messages, req, sent,
                   faults, crashes, resets>>

\* The refresh or the SELECT of the agents raises (an agent_id that is not a
\* UUID, a lost connection): the handler answers 500, the row stays.
StartFails(r) ==
    /\ Goto(r, "accepted", "refused")
    /\ UNCHANGED <<row, pending, review, messages, req, sent,
                   faults, crashes, resets>>

-----------------------------------------------------------------------------
(* run_workflow                                                            *)

\* _update_run(status="running"), inside the try.
BeginRun(r) ==
    /\ UpdateRunShared(r, "running", "spawned", "graph")
    /\ UNCHANGED <<pending, review, messages, req, sent, crashes, resets>>

\* compile, or a node other than human_review, raises into the except clause.
NodeRaises(r) ==
    /\ Goto(r, "graph", "failing")
    /\ UNCHANGED <<row, pending, review, messages, req, sent,
                   faults, crashes, resets>>

\* ainvoke returns the final state.
GraphEnds(r) ==
    /\ Goto(r, "graph", "finishing")
    /\ UNCHANGED <<row, pending, review, messages, req, sent,
                   faults, crashes, resets>>

\* _update_run(status="completed"); if it raises, the except clause follows
\* on the same session.
CommitCompleted(r) ==
    /\ UpdateRunShared(r, "completed", "finishing", "completing")
    /\ UNCHANGED <<pending, review, messages, req, sent, crashes, resets>>

BroadcastComplete(r) ==
    /\ Goto(r, "completing", "done")
    /\ sent' = [sent EXCEPT ![r] = @ \cup {"run_complete"}]
    /\ UNCHANGED <<row, pending, review, messages, req,
                   faults, crashes, resets>>

\* except Exception: _update_run(status="failed"), after the graph or a node
\* raised.  Nothing catches what this raises: the task ends without the
\* run_error event.
CommitFailed(r) ==
    /\ UpdateRun(r, "failed", "failing", "erroring", "raised")
    /\ UNCHANGED <<pending, review, messages, req, sent, crashes, resets>>

\* The same clause on a session that is broken: the SELECT of _update_run
\* raises, nothing is written or broadcast and the task ends.
RecordingRaises(r) ==
    /\ Goto(r, "broken", "raised")
    /\ UNCHANGED <<row, pending, review, messages, req, sent,
                   faults, crashes, resets>>

BroadcastError(r) ==
    /\ Goto(r, "erroring", "done")
    /\ sent' = [sent EXCEPT ![r] = @ \cup {"run_error"}]
    /\ UNCHANGED <<row, pending, review, messages, req,
                   faults, crashes, resets>>

-----------------------------------------------------------------------------
(* human_review_node                                                       *)

EnterReview(r) ==
    /\ review[r] < MaxReviews
    /\ Goto(r, "graph", "review")
    /\ review' = [review EXCEPT ![r] = @ + 1]
    /\ UNCHANGED <<row, pending, messages, req, sent,
                   faults, crashes, resets>>

MarkAwaiting(r) ==
    /\ UpdateRun(r, "awaiting_review", "review", "marked", "failing")
    /\ UNCHANGED <<pending, review, messages, req, sent, crashes, resets>>

\* The human_review_required event reaches the sockets.
Announce(r) ==
    /\ Goto(r, "marked", "announced")
    /\ UNCHANGED <<row, pending, review, messages, req, sent,
                   faults, crashes, resets>>

\* hitl.register; wait_for starts in the same step.
Register(r) ==
    /\ Goto(r, "announced", "waiting")
    /\ pending' = [pending EXCEPT ![r] = NewEntry]
    /\ UNCHANGED <<row, review, messages, req, sent,
                   faults, crashes, resets>>

\* wait_for returns: the finally clause pops the entry, the first input is
\* taken from the holder.
Wake(r) ==
    /\ pending[r].event
    /\ Goto(r, "waiting", "resumed")
    /\ pending' = [pending EXCEPT ![r] = NoEntry]
    /\ LET holder == pending[r].holder
           human_input == IF holder # <<>> THEN Head(holder) ELSE Blank
       IN  messages' = [messages EXCEPT ![r] = Append(@, human_input)]
    /\ UNCHANGED <<row, review, req, sent, faults, crashes, resets>>

\* After 24 hours the timer releases wait_for, which loses to an event that
\* is already set and wins over one that is set later.
TimerFires(r) ==
    /\ ~pending[r].event
    /\ Goto(r, "waiting", "timer_fired")
    /\ UNCHANGED <<row, pending, review, messages, req, sent,
                   faults, crashes, resets>>

\* except TimeoutError: cleanup, broadcast run_error, raise.
TimeoutWake(r) ==
    /\ Goto(r, "timer_fired", "failing")
    /\ pending' = [pending EXCEPT ![r] = NoEntry]
    /\ sent' = [sent EXCEPT ![r] = @ \cup {"run_error"}]
    /\ UNCHANGED <<row, review, messages, req, faults, crashes, resets>>

\* The node commits running, whatever the row says by now, and the graph
\* goes on.
ResumeRow(r) ==
    /\ UpdateRun(r, "running", "resumed", "graph", "failing")
    /\ UNCHANGED <<pending, review, messages, req, sent, crashes, resets>>

-----------------------------------------------------------------------------
(* POST /workflows/{id}/runs/{run_id}/resume                               *)

\* The request after its answer, the rest of it unchanged.
Answered(q, answer) == [at |-> answer, run |-> q.run, seen |-> q.seen]

\* The handler reads the run's status from the database.
ReadStatus(c, r) ==
    /\ req[c].at = "idle"
    /\ row[r] # "none"
    /\ req' = [req EXCEPT ![c] =
                 [at   |-> CASE row[r] = "deleted" -> "404"
                             [] row[r] = "awaiting_review" -> "checked"
                             [] OTHER -> "400",
                  run  |-> r,
                  seen |-> review[r]]]
    /\ UNCHANGED <<row, pc, pending, review, messages, sent,
                   faults, crashes, resets>>

\* Later it calls hitl.resume, and answers 200, or 409 without an entry.
Deliver(c) ==
    /\ req[c].at = "checked"
    /\ LET r == req[c].run IN
         \/ /\ ~pending[r].registered
            /\ req' = [req EXCEPT ![c] = Answered(@, "409")]
            /\ UNCHANGED pending
         \/ /\ pending[r].registered
            /\ pending' = [pending EXCEPT ![r] =
                             [event |-> TRUE, holder |-> Append(@.holder, c),
                              registered |-> TRUE]]
            /\ req' = [req EXCEPT ![c] = Answered(@, "200")]
    /\ UNCHANGED <<row, pc, review, messages, sent,
                   faults, crashes, resets>>

-----------------------------------------------------------------------------
(* The rest of the world                                                   *)

\* DELETE /workflows/{id}: the foreign key's CASCADE removes the row.
DeleteWorkflow(r) ==
    /\ row[r] \notin {"none", "deleted"}
    /\ row' = [row EXCEPT ![r] = "deleted"]
    /\ UNCHANGED <<pc, pending, review, messages, req, sent,
                   faults, crashes, resets>>

\* The process restarts: tasks, requests and _pending are lost, rows stay.
\* Nothing looks at the rows when it comes up again.
Crash ==
    /\ crashes < MaxCrashes
    /\ crashes' = crashes + 1
    /\ pc' = [r \in Runs |->
                IF pc[r] \in TaskPcs \cup {"accepted"} THEN "lost" ELSE pc[r]]
    /\ pending' = [r \in Runs |-> NoEntry]
    /\ req' = [c \in Callers |->
                IF req[c].at = "checked" THEN Answered(req[c], "lost")
                                         ELSE req[c]]
    /\ UNCHANGED <<row, review, messages, sent, faults, resets>>

\* After a restart that left a run stuck, an operator runs
\*   UPDATE workflow_runs SET status='failed' WHERE status='awaiting_review'
\* which also hits the runs that are paused and alive.
OperatorReset ==
    /\ resets < MaxResets
    /\ resets' = resets + 1
    /\ \E r \in Runs : row[r] = "awaiting_review" /\ pc[r] \in Ended
    /\ row' = [r \in Runs |->
                 IF row[r] = "awaiting_review" THEN "failed" ELSE row[r]]
    /\ UNCHANGED <<pc, pending, review, messages, req, sent,
                   faults, crashes>>

-----------------------------------------------------------------------------
Handler(r) == SpawnTask(r) \/ StartFails(r)

Task(r) ==
    \/ BeginRun(r) \/ NodeRaises(r) \/ GraphEnds(r)
    \/ CommitCompleted(r) \/ BroadcastComplete(r)
    \/ CommitFailed(r) \/ RecordingRaises(r) \/ BroadcastError(r)
    \/ EnterReview(r) \/ MarkAwaiting(r) \/ Announce(r) \/ Register(r)
    \/ Wake(r) \/ TimerFires(r) \/ TimeoutWake(r) \/ ResumeRow(r)

Request(c) == Deliver(c) \/ \E r \in Runs : ReadStatus(c, r)

Next ==
    \/ \E r \in Runs : StartRun(r) \/ Handler(r) \/ Task(r)
                       \/ DeleteWorkflow(r)
    \/ \E c \in Callers : Request(c)
    \/ Crash
    \/ OperatorReset

Spec == Init /\ [][Next]_vars

\* The event loop runs every ready task, every await of a node returns or
\* raises, and the 24-hour timer expires: a task that can step does.  Nobody
\* promises that a human answers, that a run is started or deleted.
Fairness == /\ \A r \in Runs : WF_vars(Handler(r)) /\ WF_vars(Task(r))
            /\ \A c \in Callers : WF_vars(Deliver(c))

FairSpec == Spec /\ Fairness

-----------------------------------------------------------------------------
(* Properties                                                              *)

Settled(r) == row[r] \in Terminal \cup {"deleted"}

Answers(r) == {messages[r][i] : i \in DOMAIN messages[r]}

\* The type invariant.
TypeOK ==
    /\ row \in [Runs -> Statuses]
    /\ pc \in [Runs -> Pcs]
    /\ pending \in [Runs -> [event : BOOLEAN, holder : Seq(Callers),
                             registered : BOOLEAN]]
    /\ review \in [Runs -> Nat]
    /\ messages \in [Runs -> Seq(Callers \cup {Blank})]
    /\ req \in [Callers -> [at : RequestStates, run : Runs \cup {NoRun},
                            seen : Nat]]
    /\ \A c \in Callers : req[c].at # "idle" => req[c].run \in Runs
    /\ sent \in [Runs -> SUBSET {"run_complete", "run_error"}]
    /\ faults \in Nat /\ crashes \in Nat /\ resets \in Nat

\* hitl._pending holds an entry exactly for the runs whose node is inside
\* wait_for: no path out of the node leaves an entry behind, none loses the
\* entry of a node that waits, and a set event has an input in its holder.
PendingIffWaiting ==
    \A r \in Runs :
        /\ pending[r].registered <=> pc[r] \in {"waiting", "timer_fired"}
        /\ pending[r].event <=> pending[r].holder # <<>>

\* What a reader of the status column may conclude about the task.  Only a
\* deletion, an operator's reset of a paused run, a failed commit or a
\* restart separates the row from the task.
RowFits(r) ==
    /\ pc[r] = "idle" <=> row[r] = "none"
    /\ row[r] = "deleted" \/
       /\ pc[r] \in {"accepted", "spawned", "refused"} => row[r] = "pending"
       /\ pc[r] \in {"graph", "review", "finishing"} => row[r] = "running"
       /\ pc[r] \in Paused => \/ row[r] = "awaiting_review"
                              \/ row[r] = "failed" /\ resets > 0
       /\ pc[r] = "completing" => row[r] = "completed"
       /\ pc[r] = "erroring" => row[r] = "failed"
       /\ pc[r] = "done" => row[r] \in Terminal
       /\ pc[r] = "failing" => \/ row[r] \in {"running", "awaiting_review"}
                               \/ row[r] = "failed" /\ resets > 0
                               \/ row[r] = "pending" /\ faults > 0
       /\ pc[r] = "broken" => /\ row[r] \in {"pending", "running", "completed"}
                              /\ faults > 0
       /\ pc[r] = "raised" => faults > 0
       /\ pc[r] = "lost" => crashes > 0

StatusTracksTask == \A r \in Runs : RowFits(r)

\* No run gets past a human_review node without a human: a run that is
\* beyond its k-th review has k different inputs in its messages, each of
\* them a resume request for this run that was answered 200; the "" that
\* the node falls back to never appears.
ReviewsAreAnswered ==
    \A r \in Runs :
        /\ pc[r] \in {"resumed", "graph", "finishing", "completing"}
              => Len(messages[r]) = review[r]
        /\ \A i \in DOMAIN messages[r] :
              /\ messages[r][i] \in Callers
              /\ req[messages[r][i]].at = "200"
              /\ req[messages[r][i]].run = r
              /\ \A j \in DOMAIN messages[r] :
                    messages[r][i] = messages[r][j] => i = j

\* run_complete is a task's last word, broadcast only for a row that is
\* committed as completed and stays so; run_error only for a run that never
\* completes, even when the timeout branch broadcasts it before the row is
\* failed.
EventsTellTheOutcome ==
    \A r \in Runs :
        /\ "run_complete" \in sent[r] =>
             /\ row[r] \in {"completed", "deleted"}
             /\ pc[r] = "done"
             /\ "run_error" \notin sent[r]
        /\ "run_error" \in sent[r] =>
             \/ pc[r] \in Ended /\ row[r] \in {"failed", "deleted"}
             \/ /\ pc[r] \in {"failing", "erroring", "raised", "lost"}
                /\ row[r] \in {"awaiting_review", "failed", "deleted"}

\* A terminal row is never written again: not by the except clause after the
\* acknowledgement of the commit of completed was lost (its session can write
\* no more), not by a late resume, not by a node that outlives its row.  One
\* exception is left: a paused run that an operator reset comes back to
\* running.
TerminalRowFinal ==
    [][\A r \in Runs :
         row[r] \in Terminal /\ row'[r] # row[r] =>
            \/ row'[r] = "deleted"
            \/ /\ row[r] = "failed" /\ row'[r] = "running"
               /\ resets > 0 /\ pc[r] = "resumed"]_vars

\* A task that ends leaves a settled row; what remains unsettled for ever
\* is a run whose handler failed before create_task, one of whose status
\* transactions failed so that the failure could not be recorded either, or
\* that was cut by a restart.
StuckNeedsCause ==
    \A r \in Runs :
        pc[r] \in Ended /\ ~Settled(r) =>
            \/ pc[r] = "refused"
            \/ pc[r] = "raised" /\ faults > 0
            \/ pc[r] = "lost" /\ crashes > 0

\* The detailed life of the rows implements the abstract status machine.
Status == INSTANCE RunStatus WITH status <- row,
                                  FaultsHappen <- MaxFaults > 0,
                                  ResetsHappen <- MaxResets > 0
ImplementsRunStatus == Status!Spec

\* Every task settles its row and announces the outcome, however long the
\* human takes; only a restart, or a status transaction of its session that
\* failed or lost its row to a deletion, prevents it.
EveryRunSettles ==
    \A r \in Runs :
        pc[r] = "spawned" ~> \/ Settled(r) /\ sent[r] # {}
                            \/ /\ pc[r] = "raised"
                               /\ faults > 0 \/ row[r] = "deleted"
                            \/ pc[r] = "lost"

\* A human input that was accepted releases the run: it stops waiting and
\* its row leaves awaiting_review.
AcceptedInputReleases ==
    \A r \in Runs :
        pending[r].event ~> \/ row[r] # "awaiting_review"
                            \/ pc[r] \in {"raised", "lost"}

-----------------------------------------------------------------------------
(* What hitl.py and the resume handler say, and the code does not do       *)

\* "When a workflow hits a human_review node it registers an asyncio.Event
\* here"; /resume answers 409 when the review "may have timed out".  So a
\* request that read awaiting_review gets a 409 only when that review ended.
ConflictMeansReviewOver ==
    \A c \in Callers :
        req[c].at = "409" =>
            LET r == req[c].run IN
            ~ (review[r] = req[c].seen /\ pc[r] \in {"marked", "announced", "waiting"})

\* "Inject human_input and unblock the waiting node.  Returns True if a
\* pending review existed": an input that was accepted is the one the node
\* is about to take, or one it has taken.
AcceptedInputIsInjected ==
    \A c \in Callers :
        req[c].at = "200" =>
            LET r == req[c].run IN
            \/ c \in Answers(r)
            \/ pending[r].registered /\ Head(pending[r].holder) = c
=============================================================================
