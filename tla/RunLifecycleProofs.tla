------------------------- MODULE RunLifecycleProofs -------------------------
(***************************************************************************)
(* Theorems about RunLifecycle, for any set of runs and of callers and    *)
(* any values of the bounds.                                              *)
(***************************************************************************)
EXTENDS RunLifecycle, TLAPS

\* The actions that only move one program counter.
Moves(r) == SpawnTask(r) \/ StartFails(r) \/ NodeRaises(r) \/ GraphEnds(r)
            \/ Announce(r) \/ TimerFires(r) \/ RecordingRaises(r)
\* The actions that write the row through _update_run.
Writes(r) == BeginRun(r) \/ CommitCompleted(r) \/ CommitFailed(r)
             \/ MarkAwaiting(r) \/ ResumeRow(r)

-----------------------------------------------------------------------------
(* Types                                                                   *)

\* What a transaction may do to the row and to the program counter.
LEMMA UpdateRunTypes ==
    ASSUME TypeOK, NEW r \in Runs, NEW s \in Statuses,
           NEW from, NEW to \in Pcs, NEW onRaise \in Pcs,
           UpdateRun(r, s, from, to, onRaise)
    PROVE  /\ row' \in [Runs -> Statuses]
           /\ pc' \in [Runs -> Pcs]
           /\ faults' \in Nat
<1>1. "deleted" \in Statuses
  BY DEF Statuses
<1>2. RowSetTo(r, s) \in [Runs -> Statuses]
  BY DEF RowSetTo, TypeOK
<1>3. row' \in [Runs -> Statuses]
  BY <1>1, <1>2 DEF UpdateRun, TypeOK
<1>4. pc' \in [Runs -> Pcs]
  BY DEF UpdateRun, Goto, TypeOK
<1>5. faults' \in Nat
  BY DEF UpdateRun, TypeOK
<1> QED
  BY <1>3, <1>4, <1>5

LEMMA UpdateRunSharedTypes ==
    ASSUME TypeOK, NEW r \in Runs, NEW s \in Statuses,
           NEW from, NEW to \in Pcs, UpdateRunShared(r, s, from, to)
    PROVE  /\ row' \in [Runs -> Statuses]
           /\ pc' \in [Runs -> Pcs]
           /\ faults' \in Nat
<1>1. "broken" \in Pcs /\ "failing" \in Pcs
  BY DEF Pcs, TaskPcs
<1>2. CASE UpdateRun(r, s, from, to, "broken")
  BY <1>1, <1>2, UpdateRunTypes
<1>3. CASE Goto(r, from, "failing") /\ faults' = faults + 1 /\ UNCHANGED row
  BY <1>1, <1>3 DEF Goto, TypeOK
<1> QED
  BY <1>2, <1>3 DEF UpdateRunShared

LEMMA MovesTypes ==
    ASSUME TypeOK, NEW r \in Runs, Moves(r)
    PROVE  TypeOK'
<1>1. \A p \in {"spawned", "refused", "failing", "finishing", "announced", "timer_fired",
                    "raised"} :
          p \in Pcs
  BY DEF Pcs, TaskPcs, Paused, Ended
<1>2. pc' \in [Runs -> Pcs]
  BY <1>1 DEF Moves, TypeOK, Goto, SpawnTask, StartFails, NodeRaises, GraphEnds,
              Announce, TimerFires, RecordingRaises
<1>3. UNCHANGED <<row, pending, review, messages, req, sent, faults, crashes, resets>>
  BY DEF Moves, SpawnTask, StartFails, NodeRaises, GraphEnds, Announce, TimerFires,
         RecordingRaises
<1> QED
  BY <1>2, <1>3 DEF TypeOK

LEMMA WritesTypes ==
    ASSUME TypeOK, NEW r \in Runs, Writes(r)
    PROVE  TypeOK'
<1>1. \A p \in {"graph", "failing", "completing", "erroring", "raised", "marked"} : p \in Pcs
  BY DEF Pcs, TaskPcs, Paused, Ended
<1>2. \A s \in {"running", "completed", "failed", "awaiting_review"} : s \in Statuses
  BY DEF Statuses, Terminal
<1>3. UNCHANGED <<pending, review, messages, req, sent, crashes, resets>>
  BY DEF Writes, BeginRun, CommitCompleted, CommitFailed, MarkAwaiting, ResumeRow
<1>4. /\ row' \in [Runs -> Statuses]
      /\ pc' \in [Runs -> Pcs]
      /\ faults' \in Nat
  <2>1. CASE BeginRun(r)
    BY <2>1, <1>1, <1>2, UpdateRunSharedTypes DEF BeginRun
  <2>2. CASE CommitCompleted(r)
    BY <2>2, <1>1, <1>2, UpdateRunSharedTypes DEF CommitCompleted
  <2>3. CASE CommitFailed(r)
    BY <2>3, <1>1, <1>2, UpdateRunTypes DEF CommitFailed
  <2>4. CASE MarkAwaiting(r)
    BY <2>4, <1>1, <1>2, UpdateRunTypes DEF MarkAwaiting
  <2>5. CASE ResumeRow(r)
    BY <2>5, <1>1, <1>2, UpdateRunTypes DEF ResumeRow
  <2> QED
    BY <2>1, <2>2, <2>3, <2>4, <2>5 DEF Writes
<1> QED
  BY <1>3, <1>4 DEF TypeOK

LEMMA TypesInductive == TypeOK /\ [Next]_vars => TypeOK'
<1> SUFFICES ASSUME TypeOK, [Next]_vars PROVE TypeOK'
  OBVIOUS
<1>1. ASSUME NEW r \in Runs, StartRun(r) PROVE TypeOK'
  <2>1. "accepted" \in Pcs /\ "pending" \in Statuses
    BY DEF Pcs, Statuses
  <2> QED
    BY <1>1, <2>1 DEF StartRun, Goto, TypeOK
<1>2. ASSUME NEW r \in Runs, Moves(r) PROVE TypeOK'
  BY <1>2, MovesTypes
<1>3. ASSUME NEW r \in Runs, Writes(r) PROVE TypeOK'
  BY <1>3, WritesTypes
<1>4. ASSUME NEW r \in Runs, BroadcastComplete(r) \/ BroadcastError(r) PROVE TypeOK'
  <2>1. "done" \in Pcs
    BY DEF Pcs, Ended
  <2>2. PICK e \in {"run_complete", "run_error"} : sent' = [sent EXCEPT ![r] = @ \cup {e}]
    BY <1>4 DEF BroadcastComplete, BroadcastError
  <2>3. sent' \in [Runs -> SUBSET {"run_complete", "run_error"}]
    BY <2>2 DEF TypeOK
  <2>4. pc' \in [Runs -> Pcs]
    BY <1>4, <2>1 DEF BroadcastComplete, BroadcastError, Goto, TypeOK
  <2>5. UNCHANGED <<row, pending, review, messages, req, faults, crashes, resets>>
    BY <1>4 DEF BroadcastComplete, BroadcastError
  <2> QED
    BY <2>3, <2>4, <2>5 DEF TypeOK
<1>5. ASSUME NEW r \in Runs, EnterReview(r) PROVE TypeOK'
  <2>1. "review" \in Pcs
    BY DEF Pcs, TaskPcs
  <2> QED
    BY <1>5, <2>1 DEF EnterReview, Goto, TypeOK
<1>6. ASSUME NEW r \in Runs, Register(r) PROVE TypeOK'
  <2>1. "waiting" \in Pcs
    BY DEF Pcs, TaskPcs, Paused
  <2> QED
    BY <1>6, <2>1 DEF Register, Goto, TypeOK, NewEntry
<1>7. ASSUME NEW r \in Runs, Wake(r) PROVE TypeOK'
  <2>1. "resumed" \in Pcs
    BY DEF Pcs, TaskPcs, Paused
  <2>2. pending[r].holder \in Seq(Callers)
    BY DEF TypeOK
  <2>3. messages' \in [Runs -> Seq(Callers \cup {Blank})]
    <3> DEFINE h == IF pending[r].holder # <<>> THEN Head(pending[r].holder) ELSE Blank
    <3>1. h \in Callers \cup {Blank}
      BY <2>2
    <3>2. messages' = [messages EXCEPT ![r] = Append(@, h)]
      BY <1>7 DEF Wake
    <3> HIDE DEF h
    <3> QED
      BY <3>1, <3>2 DEF TypeOK
  <2> QED
    BY <1>7, <2>1, <2>3 DEF Wake, Goto, TypeOK, NoEntry
<1>8. ASSUME NEW r \in Runs, TimeoutWake(r) PROVE TypeOK'
  <2>1. "failing" \in Pcs
    BY DEF Pcs, TaskPcs
  <2> QED
    BY <1>8, <2>1 DEF TimeoutWake, Goto, TypeOK, NoEntry
<1>9. ASSUME NEW r \in Runs, DeleteWorkflow(r) PROVE TypeOK'
  BY <1>9 DEF DeleteWorkflow, TypeOK, Statuses
<1>10. ASSUME NEW c \in Callers, NEW r \in Runs, ReadStatus(c, r) PROVE TypeOK'
  <2>1. req' \in [Callers -> [at : RequestStates, run : Runs \cup {NoRun}, seen : Nat]]
    <3> DEFINE a == CASE row[r] = "deleted" -> "404"
                      [] row[r] = "awaiting_review" -> "checked"
                      [] OTHER -> "400"
    <3>1. a \in RequestStates
      BY DEF RequestStates
    <3>2. req' = [req EXCEPT ![c] = [at |-> a, run |-> r, seen |-> review[r]]]
      BY <1>10 DEF ReadStatus
    <3> HIDE DEF a
    <3> QED
      BY <3>1, <3>2 DEF TypeOK
  <2> QED
    BY <1>10, <2>1 DEF ReadStatus, TypeOK
<1>11. ASSUME NEW c \in Callers, Deliver(c) PROVE TypeOK'
  <2> DEFINE r == req[c].run
             e == pending[r]
  <2>1. req' \in [Callers -> [at : RequestStates, run : Runs \cup {NoRun}, seen : Nat]]
    <3>1. PICK a \in {"409", "200"} : req' = [req EXCEPT ![c] = Answered(@, a)]
      BY <1>11 DEF Deliver
    <3>2. a \in RequestStates
      BY DEF RequestStates
    <3> QED
      BY <3>1, <3>2 DEF TypeOK, Answered
  <2>0. r \in Runs
    BY <1>11 DEF Deliver, TypeOK
  <2>4. \A d \in Callers : req'[d].at # "idle" => req'[d].run \in Runs
    <3>1. PICK a \in {"409", "200"} : req' = [req EXCEPT ![c] = Answered(@, a)]
      BY <1>11 DEF Deliver
    <3> QED
      BY <2>0, <3>1 DEF TypeOK, Answered
  <2>5. UNCHANGED <<row, pc, review, messages, sent, faults, crashes, resets>>
    BY <1>11 DEF Deliver
  <2>2. CASE UNCHANGED pending
    BY <2>1, <2>2, <2>4, <2>5 DEF TypeOK
  <2>3. CASE pending' = [pending EXCEPT ![r] =
               [event |-> TRUE, holder |-> Append(@.holder, c), registered |-> TRUE]]
    <3>2. e.holder \in Seq(Callers)
      BY <2>0 DEF TypeOK
    <3>3. pending' \in [Runs -> [event : BOOLEAN, holder : Seq(Callers), registered : BOOLEAN]]
      BY <2>0, <2>3, <3>2 DEF TypeOK
    <3> QED
      BY <2>1, <2>4, <2>5, <3>3 DEF TypeOK
  <2> QED
    BY <1>11, <2>2, <2>3 DEF Deliver
<1>12. ASSUME Crash PROVE TypeOK'
  <2>1. pc' \in [Runs -> Pcs]
    BY <1>12 DEF Crash, TypeOK, Pcs, Ended
  <2>2. /\ req' \in [Callers -> [at : RequestStates, run : Runs \cup {NoRun}, seen : Nat]]
        /\ \A c \in Callers : req'[c].at # "idle" => req'[c].run \in Runs
    <3>1. "lost" \in RequestStates
      BY DEF RequestStates
    <3>2. req' = [c \in Callers |-> IF req[c].at = "checked" THEN Answered(req[c], "lost")
                                                            ELSE req[c]]
      BY <1>12 DEF Crash
    <3> QED
      BY <3>1, <3>2 DEF TypeOK, Answered
  <2>3. pending' \in [Runs -> [event : BOOLEAN, holder : Seq(Callers), registered : BOOLEAN]]
    BY <1>12 DEF Crash, NoEntry
  <2> QED
    BY <1>12, <2>1, <2>2, <2>3 DEF Crash, TypeOK
<1>13. ASSUME OperatorReset PROVE TypeOK'
  BY <1>13 DEF OperatorReset, TypeOK, Statuses, Terminal
<1>14. ASSUME UNCHANGED vars PROVE TypeOK'
  BY <1>14 DEF vars, TypeOK
<1> QED
  BY <1>1, <1>2, <1>3, <1>4, <1>5, <1>6, <1>7, <1>8, <1>9, <1>10, <1>11, <1>12,
     <1>13, <1>14
  DEF Next, Handler, Task, Request, Moves, Writes

\* Every variable keeps its type, for any number of runs, callers, reviews,
\* faults, restarts and resets.
THEOREM TypeCorrect == Spec => []TypeOK
<1>1. Init => TypeOK
  BY DEF Init, TypeOK, Statuses, Pcs, NoEntry, IdleRequest, RequestStates
<1> QED
  BY <1>1, TypesInductive, PTL DEF Spec

-----------------------------------------------------------------------------
(* The row tracks the task                                                 *)

\* The counters of disturbances stay within their bounds.
WithinBounds == faults <= MaxFaults /\ resets <= MaxResets

LEMMA BoundsInductive == TypeOK /\ WithinBounds /\ [Next]_vars => WithinBounds'
<1> SUFFICES ASSUME TypeOK, WithinBounds, [Next]_vars PROVE WithinBounds'
  OBVIOUS
<1> USE BoundsAssumption DEF TypeOK, WithinBounds
<1>1. ASSUME NEW r \in Runs, Writes(r) PROVE WithinBounds'
  BY <1>1 DEF Writes, UpdateRun, UpdateRunShared, BeginRun, CommitCompleted, CommitFailed,
              MarkAwaiting, ResumeRow
<1>2. ASSUME NEW r \in Runs, Moves(r) PROVE WithinBounds'
  BY <1>2 DEF Moves, SpawnTask, StartFails, NodeRaises, GraphEnds, Announce, TimerFires,
              RecordingRaises
<1>3. ASSUME NEW r \in Runs,
             \/ StartRun(r) \/ BroadcastComplete(r) \/ BroadcastError(r) \/ EnterReview(r)
             \/ Register(r) \/ Wake(r) \/ TimeoutWake(r) \/ DeleteWorkflow(r)
      PROVE  WithinBounds'
  BY <1>3 DEF StartRun, BroadcastComplete, BroadcastError, EnterReview, Register, Wake,
              TimeoutWake, DeleteWorkflow
<1>4. ASSUME NEW c \in Callers, Request(c) PROVE WithinBounds'
  BY <1>4 DEF Request, Deliver, ReadStatus
<1>5. CASE Crash
  BY <1>5 DEF Crash
<1>6. CASE OperatorReset
  BY <1>6 DEF OperatorReset
<1>7. CASE UNCHANGED vars
  BY <1>7 DEF vars
<1> QED
  BY <1>1, <1>2, <1>3, <1>4, <1>5, <1>6, <1>7
  DEF Next, Handler, Task, Moves, Writes

\* The outcomes of a transaction, seen from run r; no other run is touched.
Outcome(r, s, from, to, onRaise) ==
    /\ pc[r] = from
    /\ \A q \in Runs : q # r => row'[q] = row[q] /\ pc'[q] = pc[q]
    /\ row[r] = "deleted" => row'[r] = "deleted"
    /\ \/ /\ pc'[r] = to /\ faults' = faults
          /\ row'[r] = s \/ (row[r] = "deleted" /\ row'[r] = "deleted")
       \/ /\ pc'[r] = onRaise /\ faults' = faults + 1
          /\ row'[r] = s \/ row'[r] = row[r]
       \/ pc'[r] = onRaise /\ faults' = faults /\ row'[r] = "deleted"

LEMMA UpdateRunOutcome ==
    ASSUME TypeOK, NEW r \in Runs, NEW s, NEW from, NEW to, NEW onRaise,
           UpdateRun(r, s, from, to, onRaise)
    PROVE  Outcome(r, s, from, to, onRaise)
<1> USE DEF Outcome
<1>1. /\ row[r] = "deleted" => RowSetTo(r, s)[r] = "deleted"
      /\ RowSetTo(r, s)[r] = s \/ (row[r] = "deleted" /\ RowSetTo(r, s)[r] = "deleted")
      /\ \A q \in Runs : q # r => RowSetTo(r, s)[q] = row[q]
  BY DEF RowSetTo, TypeOK
<1>2. CASE Goto(r, from, to) /\ row' = RowSetTo(r, s) /\ UNCHANGED faults
  BY <1>1, <1>2 DEF Goto, TypeOK
<1>3. CASE /\ Goto(r, from, onRaise) /\ faults' = faults + 1
           /\ row' \in {row, RowSetTo(r, s)}
  <2>1. CASE row' = row
    BY <1>3, <2>1 DEF Goto, TypeOK
  <2>2. CASE row' = RowSetTo(r, s)
    BY <1>1, <1>3, <2>2 DEF Goto, TypeOK
  <2> QED
    BY <1>3, <2>1, <2>2
<1>4. CASE /\ Goto(r, from, onRaise) /\ row' = [row EXCEPT ![r] = "deleted"]
           /\ UNCHANGED faults
  BY <1>4 DEF Goto, TypeOK
<1> QED
  BY <1>2, <1>3, <1>4 DEF UpdateRun

\* No connection for an _update_run: the task is in the except clause, the row
\* and the session of run_workflow as they were.
NoConnection(r, from) ==
    /\ pc[r] = from /\ pc'[r] = "failing"
    /\ faults' = faults + 1
    /\ \A q \in Runs : row'[q] = row[q] /\ (q # r => pc'[q] = pc[q])

LEMMA UpdateRunSharedOutcome ==
    ASSUME TypeOK, NEW r \in Runs, NEW s, NEW from, NEW to,
           UpdateRunShared(r, s, from, to)
    PROVE  Outcome(r, s, from, to, "broken") \/ NoConnection(r, from)
<1>1. CASE UpdateRun(r, s, from, to, "broken")
  BY <1>1, UpdateRunOutcome
<1>2. CASE Goto(r, from, "failing") /\ faults' = faults + 1 /\ UNCHANGED row
  BY <1>2 DEF Goto, TypeOK, NoConnection
<1> QED
  BY <1>1, <1>2 DEF UpdateRunShared

LEMMA WritesOutcome ==
    ASSUME TypeOK, NEW r \in Runs, Writes(r)
    PROVE  \/ Outcome(r, "running", "spawned", "graph", "broken")
           \/ Outcome(r, "completed", "finishing", "completing", "broken")
           \/ NoConnection(r, "spawned") \/ NoConnection(r, "finishing")
           \/ Outcome(r, "failed", "failing", "erroring", "raised")
           \/ Outcome(r, "awaiting_review", "review", "marked", "failing")
           \/ Outcome(r, "running", "resumed", "graph", "failing")
<1>1. CASE BeginRun(r)
  BY <1>1, UpdateRunSharedOutcome DEF BeginRun
<1>2. CASE CommitCompleted(r)
  BY <1>2, UpdateRunSharedOutcome DEF CommitCompleted
<1>3. CASE CommitFailed(r)
  BY <1>3, UpdateRunOutcome DEF CommitFailed
<1>4. CASE MarkAwaiting(r)
  BY <1>4, UpdateRunOutcome DEF MarkAwaiting
<1>5. CASE ResumeRow(r)
  BY <1>5, UpdateRunOutcome DEF ResumeRow
<1> QED
  BY <1>1, <1>2, <1>3, <1>4, <1>5 DEF Writes

\* Of the steps that only move the program counter of run r.
LEMMA MovesOutcome ==
    ASSUME TypeOK, NEW r \in Runs, Moves(r)
    PROVE  /\ \A q \in Runs : q # r => pc'[q] = pc[q]
           /\ \/ pc[r] = "accepted" /\ pc'[r] \in {"spawned", "refused"}
              \/ pc[r] = "graph" /\ pc'[r] \in {"failing", "finishing"}
              \/ pc[r] = "marked" /\ pc'[r] = "announced"
              \/ pc[r] = "waiting" /\ pc'[r] = "timer_fired"
              \/ pc[r] = "broken" /\ pc'[r] = "raised"
           /\ UNCHANGED <<row, pending, review, messages, req, sent, faults, crashes, resets>>
<1> USE DEF TypeOK, Goto
<1>1. CASE SpawnTask(r) \/ StartFails(r)
  BY <1>1 DEF SpawnTask, StartFails
<1>2. CASE NodeRaises(r) \/ GraphEnds(r)
  BY <1>2 DEF NodeRaises, GraphEnds
<1>3. CASE Announce(r)
  BY <1>3 DEF Announce
<1>4. CASE TimerFires(r)
  BY <1>4 DEF TimerFires
<1>5. CASE RecordingRaises(r)
  BY <1>5 DEF RecordingRaises
<1> QED
  BY <1>1, <1>2, <1>3, <1>4, <1>5 DEF Moves

LEMMA WritesStatus ==
    ASSUME TypeOK, StatusTracksTask, NEW r \in Runs, Writes(r)
    PROVE  StatusTracksTask'
<1>1. UNCHANGED <<crashes, resets>>
  BY DEF Writes, BeginRun, CommitCompleted, CommitFailed, MarkAwaiting, ResumeRow
<1>2. faults \in Nat /\ crashes \in Nat /\ resets \in Nat
  BY DEF TypeOK
<1>3. ASSUME NEW q \in Runs PROVE RowFits(q)'
  <2>1. RowFits(q)
    BY DEF StatusTracksTask
  <2>2. CASE q = r
    BY <1>1, <1>2, <2>1, <2>2, WritesOutcome DEF NoConnection, Outcome, RowFits, Paused, Terminal
  <2>3. CASE q # r
    <3>1. row'[q] = row[q] /\ pc'[q] = pc[q] /\ (faults > 0 => faults' > 0)
      BY <1>2, <2>3, WritesOutcome DEF NoConnection, Outcome
    <3> QED
      BY <1>1, <2>1, <3>1 DEF RowFits
  <2> QED
    BY <2>2, <2>3
<1> QED
  BY <1>3 DEF StatusTracksTask

LEMMA StatusInductive ==
    TypeOK /\ StatusTracksTask /\ [Next]_vars => StatusTracksTask'
<1> SUFFICES ASSUME TypeOK, StatusTracksTask, [Next]_vars PROVE StatusTracksTask'
  OBVIOUS
<1> USE DEF TypeOK, StatusTracksTask, RowFits, Goto, Paused, Terminal, Statuses
<1>1. ASSUME NEW r \in Runs, StartRun(r) PROVE StatusTracksTask'
  BY <1>1 DEF StartRun
<1>2. ASSUME NEW r \in Runs, Moves(r) PROVE StatusTracksTask'
  BY <1>2 DEF Moves, SpawnTask, StartFails, NodeRaises, GraphEnds, Announce, TimerFires,
              RecordingRaises
<1>3. ASSUME NEW r \in Runs, Writes(r) PROVE StatusTracksTask'
  BY <1>3, WritesStatus
<1>4. ASSUME NEW r \in Runs,
             \/ BroadcastComplete(r) \/ BroadcastError(r) \/ EnterReview(r)
             \/ Register(r) \/ Wake(r) \/ TimeoutWake(r)
      PROVE  StatusTracksTask'
  <2>1. CASE BroadcastComplete(r) \/ BroadcastError(r) \/ EnterReview(r)
    BY <2>1 DEF BroadcastComplete, BroadcastError, EnterReview
  <2>2. CASE Register(r) \/ Wake(r) \/ TimeoutWake(r)
    BY <2>2 DEF Register, Wake, TimeoutWake
  <2> QED BY <1>4, <2>1, <2>2
<1>5. ASSUME NEW r \in Runs, DeleteWorkflow(r) PROVE StatusTracksTask'
  BY <1>5 DEF DeleteWorkflow
<1>6. ASSUME NEW c \in Callers, Request(c) PROVE StatusTracksTask'
  BY <1>6 DEF Request, Deliver, ReadStatus
<1>7. CASE Crash
  BY <1>7 DEF Crash, TaskPcs
<1>8. CASE OperatorReset
  BY <1>8 DEF OperatorReset
<1>9. CASE UNCHANGED vars
  BY <1>9 DEF vars
<1> QED
  BY <1>1, <1>2, <1>3, <1>4, <1>5, <1>6, <1>7, <1>8, <1>9
  DEF Next, Handler, Task, Moves, Writes

\* The row tracks the task; the two other conjuncts make it inductive.
StatusInv == TypeOK /\ WithinBounds /\ StatusTracksTask

LEMMA StatusInvariant == Spec => []StatusInv
<1>1. Init => StatusInv
  BY BoundsAssumption
  DEF Init, StatusInv, WithinBounds, StatusTracksTask, RowFits, Paused, TypeOK, Statuses,
      Pcs, NoEntry, IdleRequest, RequestStates
<1>2. StatusInv /\ [Next]_vars => StatusInv'
  BY TypesInductive, BoundsInductive, StatusInductive DEF StatusInv
<1> QED
  BY <1>1, <1>2, PTL DEF Spec

\* The status column tells where the task stands, up to the disturbances that
\* StatusTracksTask names.
THEOREM StatusTracked == Spec => []StatusTracksTask
<1>1. StatusInv => StatusTracksTask
  BY DEF StatusInv
<1> QED
  BY <1>1, StatusInvariant, PTL

\* A row that stays unsettled after its task has gone was refused, lost a
\* status transaction to the database, or was cut by a restart.
THEOREM StuckHasCause == Spec => []StuckNeedsCause
<1>1. StatusInv => StuckNeedsCause
  BY DEF StatusInv, StatusTracksTask, RowFits, StuckNeedsCause, Settled, Ended, Terminal
<1> QED
  BY <1>1, StatusInvariant, PTL

-----------------------------------------------------------------------------
(* How a row may move                                                      *)

\* Every way a step may change the row of q, with the circumstances.
RowStep(q) ==
    \/ row'[q] = row[q]
    \/ row'[q] = "deleted" /\ row[q] # "none"
    \/ row[q] = "none" /\ row'[q] = "pending"
    \/ row[q] = "pending" /\ row'[q] = "running"
    \/ row[q] = "running" /\ row'[q] \in {"awaiting_review", "completed", "failed"}
    \/ row[q] = "awaiting_review" /\ row'[q] \in {"running", "failed"}
    \/ /\ row[q] = "failed" /\ row'[q] = "running"
       /\ pc[q] = "resumed" /\ resets > 0
    \/ /\ row[q] = "pending" /\ row'[q] = "failed"
       /\ pc[q] = "failing" /\ faults > 0

LEMMA WritesRowStep ==
    ASSUME StatusInv, NEW r \in Runs, Writes(r), NEW q \in Runs
    PROVE  RowStep(q)
<1>1. TypeOK /\ RowFits(r) /\ row[r] \in Statuses
  BY DEF StatusInv, StatusTracksTask, TypeOK
<1>2. CASE q = r
  BY <1>1, <1>2, WritesOutcome
  DEF Outcome, NoConnection, RowStep, RowFits, Paused, Statuses, Terminal
<1>3. CASE q # r
  BY <1>1, <1>3, WritesOutcome DEF NoConnection, Outcome, RowStep
<1> QED
  BY <1>2, <1>3

LEMMA StepsRowStep ==
    ASSUME StatusInv, [Next]_vars, NEW q \in Runs
    PROVE  RowStep(q)
<1>a. row \in [Runs -> Statuses]
  BY DEF StatusInv, TypeOK
<1>1. ASSUME NEW r \in Runs, StartRun(r) PROVE RowStep(q)
  <2>1. row[r] = "none"
    BY <1>1 DEF StatusInv, StatusTracksTask, RowFits, StartRun, Goto
  <2> QED
    BY <1>a, <1>1, <2>1 DEF StartRun, RowStep
<1>2. ASSUME NEW r \in Runs, Writes(r) PROVE RowStep(q)
  BY <1>2, WritesRowStep
<1>3. ASSUME NEW r \in Runs,
             \/ Moves(r) \/ BroadcastComplete(r) \/ BroadcastError(r) \/ EnterReview(r)
             \/ Register(r) \/ Wake(r) \/ TimeoutWake(r)
      PROVE  RowStep(q)
  BY <1>3 DEF RowStep, Moves, SpawnTask, StartFails, NodeRaises, GraphEnds, Announce,
              TimerFires, RecordingRaises, BroadcastComplete, BroadcastError,
              EnterReview, Register, Wake, TimeoutWake
<1>4. ASSUME NEW r \in Runs, DeleteWorkflow(r) PROVE RowStep(q)
  BY <1>a, <1>4 DEF DeleteWorkflow, RowStep
<1>5. ASSUME NEW c \in Callers, Request(c) PROVE RowStep(q)
  BY <1>5 DEF Request, Deliver, ReadStatus, RowStep
<1>6. CASE Crash
  BY <1>6 DEF Crash, RowStep
<1>7. CASE OperatorReset
  BY <1>a, <1>7 DEF OperatorReset, RowStep
<1>8. CASE UNCHANGED vars
  BY <1>8 DEF vars, RowStep
<1> QED
  BY <1>1, <1>2, <1>3, <1>4, <1>5, <1>6, <1>7, <1>8
  DEF Next, Handler, Task, Moves, Writes

\* A completed row is never written again, nor is a failed one, but by a reset
\* run that was alive.
THEOREM TerminalIsFinal == Spec => TerminalRowFinal
<1> DEFINE Final == \A r \in Runs :
             row[r] \in Terminal /\ row'[r] # row[r] =>
                \/ row'[r] = "deleted"
                \/ /\ row[r] = "failed" /\ row'[r] = "running"
                   /\ resets > 0 /\ pc[r] = "resumed"
<1>1. StatusInv /\ [Next]_vars => [Final]_vars
  BY StepsRowStep DEF RowStep, Terminal
<1>2. Spec => [][Final]_vars
  BY <1>1, StatusInvariant, PTL DEF Spec
<1> QED
  BY <1>2 DEF TerminalRowFinal

\* Whatever the interleaving of tasks, requests, deletions, restarts and
\* resets, the rows only move along the edges RunStatus promises.
THEOREM Refinement == Spec => ImplementsRunStatus
<1>1. Init => Status!Init
  BY DEF Init, Status!Init
<1>2. ASSUME StatusInv, StatusInv', [Next]_vars PROVE [Status!Next]_row
  <2>1. row' \in [Runs -> Status!Statuses]
    BY <1>2 DEF StatusInv, TypeOK, Statuses, Terminal, Status!Statuses, Status!Live,
                Status!Terminal
  <2>2. ASSUME NEW q \in Runs PROVE Status!MayMove(row[q], row'[q])
    <3>1. RowStep(q)
      BY <1>2, StepsRowStep
    <3>2. /\ row[q] \in Statuses
          /\ faults > 0 => MaxFaults > 0
          /\ resets > 0 => MaxResets > 0
      BY <1>2, BoundsAssumption DEF StatusInv, TypeOK, WithinBounds
    <3> QED
      BY <3>1, <3>2
      DEF RowStep, Status!MayMove, Status!Edges, Status!FaultEdges, Status!ResetEdges,
          Status!Live, Status!Terminal, Statuses, Terminal
  <2> QED
    BY <2>1, <2>2 DEF Status!Next
<1> QED
  BY <1>1, <1>2, StatusInvariant, PTL DEF Spec, ImplementsRunStatus, Status!Spec

-----------------------------------------------------------------------------
(* Terminal events                                                         *)

LEMMA EventsInductive ==
    StatusInv /\ EventsTellTheOutcome /\ [Next]_vars => EventsTellTheOutcome'
<1> SUFFICES ASSUME StatusInv, EventsTellTheOutcome, [Next]_vars
             PROVE  EventsTellTheOutcome'
  OBVIOUS
<1>a. TypeOK /\ StatusTracksTask
  BY DEF StatusInv
<1> USE DEF EventsTellTheOutcome, Ended
<1>1. ASSUME NEW r \in Runs, StartRun(r) PROVE EventsTellTheOutcome'
  BY <1>a, <1>1 DEF StartRun, Goto, TypeOK
<1>2. ASSUME NEW r \in Runs, Moves(r) PROVE EventsTellTheOutcome'
  BY <1>a, <1>2, MovesOutcome
<1>3. ASSUME NEW r \in Runs, Writes(r) PROVE EventsTellTheOutcome'
  <2>1. UNCHANGED sent
    BY <1>3 DEF Writes, BeginRun, CommitCompleted, CommitFailed, MarkAwaiting, ResumeRow
  <2> QED
    BY <1>a, <1>3, <2>1, WritesOutcome DEF NoConnection, Outcome
<1>4. ASSUME NEW r \in Runs, BroadcastComplete(r) PROVE EventsTellTheOutcome'
  BY <1>a, <1>4 DEF BroadcastComplete, Goto, TypeOK, StatusTracksTask, RowFits
<1>5. ASSUME NEW r \in Runs, BroadcastError(r) \/ TimeoutWake(r)
      PROVE  EventsTellTheOutcome'
  <2>1. RowFits(r)
    BY <1>a DEF StatusTracksTask
  <2>2. CASE BroadcastError(r)
    BY <1>a, <2>1, <2>2 DEF BroadcastError, Goto, TypeOK, RowFits
  <2>3. CASE TimeoutWake(r)
    <3>1. row[r] \in {"awaiting_review", "failed", "deleted"}
      BY <2>1, <2>3 DEF TimeoutWake, Goto, RowFits, Paused
    <3> QED
      BY <1>a, <2>3, <3>1 DEF TimeoutWake, Goto, TypeOK
  <2> QED
    BY <1>5, <2>2, <2>3
<1>6. ASSUME NEW r \in Runs, EnterReview(r) \/ Register(r) \/ Wake(r)
      PROVE  EventsTellTheOutcome'
  BY <1>a, <1>6 DEF EnterReview, Register, Wake, Goto, TypeOK
<1>7. ASSUME NEW r \in Runs, DeleteWorkflow(r) PROVE EventsTellTheOutcome'
  BY <1>a, <1>7 DEF DeleteWorkflow, TypeOK
<1>8. ASSUME NEW c \in Callers, Request(c) PROVE EventsTellTheOutcome'
  BY <1>8 DEF Request, Deliver, ReadStatus
<1>9. CASE Crash
  BY <1>a, <1>9 DEF Crash, TypeOK, TaskPcs, Paused
<1>10. CASE OperatorReset
  BY <1>a, <1>10 DEF OperatorReset, TypeOK
<1>11. CASE UNCHANGED vars
  BY <1>11 DEF vars
<1> QED
  BY <1>1, <1>2, <1>3, <1>4, <1>5, <1>6, <1>7, <1>8, <1>9, <1>10, <1>11
  DEF Next, Handler, Task, Moves, Writes

\* The terminal events a run broadcasts agree with its row, for ever.
THEOREM EventsAreTruthful == Spec => []EventsTellTheOutcome
<1>1. Init => EventsTellTheOutcome
  BY DEF Init, EventsTellTheOutcome
<1> QED
  BY <1>1, EventsInductive, StatusInvariant, PTL DEF Spec

-----------------------------------------------------------------------------
(* The registry of paused runs                                             *)

LEMMA RegistryInductive ==
    TypeOK /\ PendingIffWaiting /\ [Next]_vars => PendingIffWaiting'
<1> SUFFICES ASSUME TypeOK, PendingIffWaiting, [Next]_vars PROVE PendingIffWaiting'
  OBVIOUS
<1> USE DEF PendingIffWaiting
<1>0. ASSUME NEW r \in Runs, Moves(r) PROVE PendingIffWaiting'
  BY <1>0, MovesOutcome
<1>1. ASSUME NEW r \in Runs,
             StartRun(r) \/ EnterReview(r) \/ BroadcastComplete(r) \/ BroadcastError(r)
      PROVE  PendingIffWaiting'
  <2>1. /\ UNCHANGED pending
        /\ pc[r] \notin {"waiting", "timer_fired"}
        /\ \E to \in {"accepted", "review", "done"} : pc' = [pc EXCEPT ![r] = to]
    BY <1>1 DEF Goto, StartRun, EnterReview, BroadcastComplete, BroadcastError
  <2> QED
    BY <2>1 DEF TypeOK
<1>2. ASSUME NEW r \in Runs, Writes(r) PROVE PendingIffWaiting'
  <2>1. UNCHANGED pending
    BY <1>2 DEF Writes, BeginRun, CommitCompleted, CommitFailed, MarkAwaiting, ResumeRow
  <2> QED
    BY <1>2, <2>1, WritesOutcome DEF NoConnection, Outcome
<1>3. ASSUME NEW r \in Runs, Register(r) \/ Wake(r) \/ TimeoutWake(r)
      PROVE  PendingIffWaiting'
  <2>1. CASE Register(r)
    BY <2>1 DEF Register, Goto, TypeOK, NewEntry
  <2>2. CASE Wake(r)
    BY <2>2 DEF Wake, Goto, TypeOK, NoEntry
  <2>3. CASE TimeoutWake(r)
    BY <2>3 DEF TimeoutWake, Goto, TypeOK, NoEntry
  <2> QED
    BY <1>3, <2>1, <2>2, <2>3
<1>4. ASSUME NEW r \in Runs, DeleteWorkflow(r) PROVE PendingIffWaiting'
  BY <1>4 DEF DeleteWorkflow
<1>5. ASSUME NEW c \in Callers, NEW r \in Runs, ReadStatus(c, r) PROVE PendingIffWaiting'
  BY <1>5 DEF ReadStatus
<1>6. ASSUME NEW c \in Callers, Deliver(c) PROVE PendingIffWaiting'
  <2> DEFINE r == req[c].run
  <2>1. CASE UNCHANGED pending
    BY <1>6, <2>1 DEF Deliver
  <2>2. CASE ~UNCHANGED pending
    <3>1. r \in Runs /\ pending[r].holder \in Seq(Callers)
      BY <1>6 DEF Deliver, TypeOK
    <3>2. /\ pending[r].registered
          /\ pending' = [pending EXCEPT ![r] =
                [event |-> TRUE, holder |-> Append(pending[r].holder, c), registered |-> TRUE]]
          /\ UNCHANGED pc
      BY <1>6, <2>2 DEF Deliver
    <3>3. Append(pending[r].holder, c) # <<>>
      BY <3>1
    <3> QED
      BY <3>1, <3>2, <3>3 DEF TypeOK
  <2> QED
    BY <2>1, <2>2
<1>7. CASE Crash
  BY <1>7 DEF Crash, TypeOK, NoEntry, TaskPcs, Paused
<1>8. CASE OperatorReset
  BY <1>8 DEF OperatorReset
<1>9. CASE UNCHANGED vars
  BY <1>9 DEF vars
<1> QED
  BY <1>0, <1>1, <1>2, <1>3, <1>4, <1>5, <1>6, <1>7, <1>8, <1>9
  DEF Next, Handler, Task, Request, Moves, Writes

\* hitl._pending has an entry for exactly the runs whose node is in wait_for.
THEOREM RegistryMatchesWaiters == Spec => []PendingIffWaiting
<1>1. Init => PendingIffWaiting
  BY DEF Init, PendingIffWaiting, NoEntry
<1> QED
  BY <1>1, RegistryInductive, TypeCorrect, PTL DEF Spec

-----------------------------------------------------------------------------
(* Every review is answered by a human                                     *)

\* Appending x to a sequence adds x and changes nothing else.
LEMMA AppendElements ==
    ASSUME NEW S, NEW m \in Seq(S), NEW x \in S
    PROVE  /\ \A i \in DOMAIN m : i \in DOMAIN Append(m, x) /\ Append(m, x)[i] = m[i]
           /\ \A i \in DOMAIN Append(m, x) :
                \/ i \in DOMAIN m /\ Append(m, x)[i] = m[i]
                \/ i = Len(m) + 1 /\ i \notin DOMAIN m /\ Append(m, x)[i] = x
  OBVIOUS

\* Appending a new element keeps a sequence free of repetitions.
LEMMA AppendKeepsDistinct ==
    ASSUME NEW S, NEW m \in Seq(S), NEW x \in S,
           \A i, j \in DOMAIN m : m[i] = m[j] => i = j,
           \A i \in DOMAIN m : m[i] # x
    PROVE  \A i, j \in DOMAIN Append(m, x) : Append(m, x)[i] = Append(m, x)[j] => i = j
<1> SUFFICES ASSUME NEW i \in DOMAIN Append(m, x), NEW j \in DOMAIN Append(m, x),
                    Append(m, x)[i] = Append(m, x)[j]
             PROVE  i = j
  OBVIOUS
<1>1. \/ i \in DOMAIN m /\ Append(m, x)[i] = m[i]
      \/ i = Len(m) + 1 /\ Append(m, x)[i] = x
  BY AppendElements
<1>2. \/ j \in DOMAIN m /\ Append(m, x)[j] = m[j]
      \/ j = Len(m) + 1 /\ Append(m, x)[j] = x
  BY AppendElements
<1> QED
  BY <1>1, <1>2

\* The resume request c was answered 200 for run r.
Accepted(c, r) == c \in Callers /\ req[c].at = "200" /\ req[c].run = r

\* One message per review passed, none yet for the one in progress.
MessagesCountReviews ==
    \A r \in Runs :
        /\ pc[r] \in {"idle", "accepted", "spawned", "resumed", "graph", "finishing",
                      "completing"}
              => Len(messages[r]) = review[r]
        /\ pc[r] \in {"review", "marked", "announced", "waiting", "timer_fired"}
              => Len(messages[r]) + 1 = review[r]

\* Inputs in the graph's state and in the holder are accepted requests; those
\* in the state are all different, and different from those in the holder.
InputsFit(r) ==
    LET m == messages[r]
        h == pending[r].holder
    IN  /\ \A i \in DOMAIN h : Accepted(h[i], r)
        /\ \A i \in DOMAIN m : Accepted(m[i], r)
        /\ \A i, j \in DOMAIN m : m[i] = m[j] => i = j
        /\ \A i \in DOMAIN m, j \in DOMAIN h : m[i] # h[j]

InputsAreAccepted == \A r \in Runs : InputsFit(r)

LEMMA CountInductive ==
    TypeOK /\ MessagesCountReviews /\ [Next]_vars => MessagesCountReviews'
<1> SUFFICES ASSUME TypeOK, MessagesCountReviews, [Next]_vars
             PROVE  MessagesCountReviews'
  OBVIOUS
<1> USE DEF MessagesCountReviews
<1>0. \A r \in Runs : Len(messages[r]) \in Nat /\ review[r] \in Nat
  BY DEF TypeOK
<1>1. ASSUME NEW r \in Runs, Moves(r) PROVE MessagesCountReviews'
  BY <1>1, MovesOutcome
<1>2. ASSUME NEW r \in Runs, Writes(r) PROVE MessagesCountReviews'
  <2>1. UNCHANGED <<messages, review>>
    BY <1>2 DEF Writes, BeginRun, CommitCompleted, CommitFailed, MarkAwaiting, ResumeRow
  <2> QED
    BY <1>2, <2>1, WritesOutcome DEF NoConnection, Outcome
<1>3. ASSUME NEW r \in Runs,
             StartRun(r) \/ BroadcastComplete(r) \/ BroadcastError(r) \/ Register(r)
             \/ TimeoutWake(r)
      PROVE  MessagesCountReviews'
  <2>1. /\ UNCHANGED <<messages, review>>
        /\ \/ pc[r] = "idle" /\ pc' = [pc EXCEPT ![r] = "accepted"]
           \/ pc' = [pc EXCEPT ![r] = "done"]
           \/ pc[r] = "announced" /\ pc' = [pc EXCEPT ![r] = "waiting"]
           \/ pc' = [pc EXCEPT ![r] = "failing"]
    BY <1>3 DEF StartRun, BroadcastComplete, BroadcastError, Register, TimeoutWake, Goto
  <2> QED
    BY <2>1 DEF TypeOK
<1>4. ASSUME NEW r \in Runs, EnterReview(r) PROVE MessagesCountReviews'
  BY <1>0, <1>4 DEF EnterReview, Goto, TypeOK
<1>5. ASSUME NEW r \in Runs, Wake(r) PROVE MessagesCountReviews'
  <2>1. PICK h : messages' = [messages EXCEPT ![r] = Append(@, h)]
    BY <1>5 DEF Wake
  <2>2. Len(messages'[r]) = Len(messages[r]) + 1
    BY <2>1 DEF TypeOK
  <2>3. \A q \in Runs : q # r => messages'[q] = messages[q]
    BY <2>1 DEF TypeOK
  <2> QED
    BY <1>0, <1>5, <2>2, <2>3 DEF Wake, Goto, TypeOK
<1>6. ASSUME NEW r \in Runs, DeleteWorkflow(r) PROVE MessagesCountReviews'
  BY <1>6 DEF DeleteWorkflow
<1>7. ASSUME NEW c \in Callers, Request(c) PROVE MessagesCountReviews'
  BY <1>7 DEF Request, Deliver, ReadStatus
<1>8. CASE Crash
  BY <1>8 DEF Crash, TypeOK
<1>9. CASE OperatorReset \/ UNCHANGED vars
  BY <1>9 DEF OperatorReset, vars
<1> QED
  BY <1>1, <1>2, <1>3, <1>4, <1>5, <1>6, <1>7, <1>8, <1>9
  DEF Next, Handler, Task, Moves, Writes

LEMMA InputsInductive ==
    TypeOK /\ PendingIffWaiting /\ InputsAreAccepted /\ [Next]_vars => InputsAreAccepted'
<1> SUFFICES ASSUME TypeOK, PendingIffWaiting, InputsAreAccepted, [Next]_vars
             PROVE  InputsAreAccepted'
  OBVIOUS
<1> USE DEF InputsAreAccepted
<1>1. CASE UNCHANGED <<pending, messages, req>>
  BY <1>1 DEF InputsFit, Accepted
<1>2. ASSUME NEW r \in Runs, Register(r) \/ TimeoutWake(r) PROVE InputsAreAccepted'
  <2>1. \E e \in {NewEntry, NoEntry} : pending' = [pending EXCEPT ![r] = e]
    BY <1>2 DEF Register, TimeoutWake
  <2>2. UNCHANGED <<messages, req>>
    BY <1>2 DEF Register, TimeoutWake
  <2> QED
    BY <2>1, <2>2 DEF TypeOK, NewEntry, NoEntry, InputsFit, Accepted
<1>3. ASSUME NEW r \in Runs, Wake(r) PROVE InputsAreAccepted'
  <2> DEFINE h == pending[r].holder
             m == messages[r]
             x == h[1]
  <2>1. h \in Seq(Callers) /\ h # <<>> /\ m \in Seq(Callers \cup {Blank})
    BY <1>3 DEF TypeOK, PendingIffWaiting, Wake
  <2>2. 1 \in DOMAIN h /\ Head(h) = x /\ x \in Callers \cup {Blank}
    BY <2>1
  <2>3. /\ messages' = [messages EXCEPT ![r] = Append(m, x)]
        /\ pending' = [pending EXCEPT ![r] = NoEntry]
        /\ UNCHANGED req
    BY <1>3, <2>1, <2>2 DEF Wake
  <2>4. /\ messages'[r] = Append(m, x)
        /\ pending'[r].holder = <<>>
        /\ \A q \in Runs : q # r => messages'[q] = messages[q] /\ pending'[q] = pending[q]
    BY <2>3 DEF TypeOK, NoEntry
  <2>5. InputsFit(r)
    OBVIOUS
  <2>6. \A i, j \in DOMAIN Append(m, x) : Append(m, x)[i] = Append(m, x)[j] => i = j
    <3>1. /\ \A i, j \in DOMAIN m : m[i] = m[j] => i = j
          /\ \A i \in DOMAIN m : m[i] # x
      BY <2>2, <2>5 DEF InputsFit
    <3> HIDE DEF m, x
    <3> QED
      BY <2>1, <2>2, <3>1, AppendKeepsDistinct
  <2>7. \A i \in DOMAIN Append(m, x) : Accepted(Append(m, x)[i], r)
    <3> SUFFICES ASSUME NEW i \in DOMAIN Append(m, x) PROVE Accepted(Append(m, x)[i], r)
      OBVIOUS
    <3>1. \/ i \in DOMAIN m /\ Append(m, x)[i] = m[i]
          \/ Append(m, x)[i] = x
      BY <2>1, <2>2, AppendElements
    <3>2. Accepted(x, r) /\ \A k \in DOMAIN m : Accepted(m[k], r)
      BY <2>2, <2>5 DEF InputsFit
    <3> QED
      BY <3>1, <3>2
  <2>8. InputsFit(r)'
    BY <2>3, <2>4, <2>6, <2>7 DEF InputsFit, Accepted
  <2>9. ASSUME NEW q \in Runs, q # r PROVE InputsFit(q)'
    <3>1. InputsFit(q)
      OBVIOUS
    <3> QED
      BY <2>3, <2>4, <2>9, <3>1 DEF InputsFit, Accepted
  <2> QED
    BY <2>8, <2>9
<1>4. ASSUME NEW c \in Callers, NEW r \in Runs, ReadStatus(c, r) PROVE InputsAreAccepted'
  <2>1. req[c].at = "idle" /\ UNCHANGED <<pending, messages>>
    BY <1>4 DEF ReadStatus
  <2>2. \A d \in Callers : d # c => req'[d] = req[d]
    BY <1>4 DEF ReadStatus, TypeOK
  <2> QED
    BY <2>1, <2>2 DEF InputsFit, Accepted
<1>5. ASSUME NEW c \in Callers, Deliver(c) PROVE InputsAreAccepted'
  <2>a. PICK r \in Runs : r = req[c].run
    BY <1>5 DEF Deliver, TypeOK
  <2>b. PICK h \in Seq(Callers) : h = pending[r].holder
    BY DEF TypeOK
  <2>1. req[c].at = "checked" /\ UNCHANGED messages
    BY <1>5 DEF Deliver
  <2>2. \A d \in Callers : d # c => req'[d] = req[d]
    BY <1>5 DEF Deliver, TypeOK
  <2>3. \A q \in Runs : \A d : Accepted(d, q) => d # c /\ Accepted(d, q)'
    BY <2>1, <2>2 DEF Accepted
  <2>4. CASE UNCHANGED pending
    <3> SUFFICES ASSUME NEW q \in Runs PROVE InputsFit(q)'
      OBVIOUS
    <3>1. InputsFit(q)
      OBVIOUS
    <3> QED
      BY <2>1, <2>3, <2>4, <3>1 DEF InputsFit
  <2>5. CASE ~UNCHANGED pending
    <3>1. /\ pending' = [pending EXCEPT ![r] =
                [event |-> TRUE, holder |-> Append(h, c), registered |-> TRUE]]
          /\ req' = [req EXCEPT ![c] = Answered(@, "200")]
      BY <1>5, <2>5, <2>a, <2>b DEF Deliver
    <3>2. /\ pending'[r].holder = Append(h, c)
          /\ \A q \in Runs : q # r => pending'[q] = pending[q]
      BY <3>1 DEF TypeOK
    <3>3. Accepted(c, r)'
      BY <2>1, <2>a, <3>1 DEF TypeOK, Answered, Accepted
    <3>4. \A i \in DOMAIN Append(h, c) :
              \/ i \in DOMAIN h /\ Append(h, c)[i] = h[i]
              \/ Append(h, c)[i] = c
      BY AppendElements
    <3>5. ASSUME NEW q \in Runs, q # r PROVE InputsFit(q)'
      <4>1. InputsFit(q)
        OBVIOUS
      <4> QED
        BY <2>1, <2>3, <3>2, <3>5, <4>1 DEF InputsFit
    <3>6. InputsFit(r)'
      <4>1. /\ \A i \in DOMAIN h : Accepted(h[i], r)
            /\ \A i \in DOMAIN messages[r] : Accepted(messages[r][i], r)
            /\ \A i, j \in DOMAIN messages[r] : messages[r][i] = messages[r][j] => i = j
            /\ \A i \in DOMAIN messages[r], j \in DOMAIN h : messages[r][i] # h[j]
        BY <2>b DEF InputsFit
      <4>2. \A i \in DOMAIN Append(h, c) : Accepted(Append(h, c)[i], r)'
        BY <2>1, <2>3, <3>3, <3>4, <4>1
      <4>3. \A i \in DOMAIN messages[r] : Accepted(messages[r][i], r)'
        BY <2>1, <2>3, <4>1
      <4>4. \A i \in DOMAIN messages[r], j \in DOMAIN Append(h, c) :
                messages[r][i] # Append(h, c)[j]
        BY <2>1, <2>3, <3>4, <4>1
      <4> QED
        BY <2>1, <3>2, <4>1, <4>2, <4>3, <4>4 DEF InputsFit
    <3> QED
      BY <3>5, <3>6
  <2> QED
    BY <2>4, <2>5
<1>6. CASE Crash
  <2>1. /\ \A r \in Runs : pending'[r].holder = <<>>
        /\ \A c \in Callers : req[c].at = "200" => req'[c] = req[c]
        /\ UNCHANGED messages
    BY <1>6 DEF Crash, NoEntry
  <2> QED
    BY <2>1 DEF InputsFit, Accepted
<1>7. ASSUME NEW r \in Runs, Moves(r) \/ Writes(r)
      PROVE  UNCHANGED <<pending, messages, req>>
  <2>1. CASE Moves(r)
    BY <2>1 DEF Moves, SpawnTask, StartFails, NodeRaises, GraphEnds, Announce, TimerFires,
                RecordingRaises
  <2>2. CASE Writes(r)
    BY <2>2 DEF Writes, BeginRun, CommitCompleted, CommitFailed, MarkAwaiting, ResumeRow
  <2> QED
    BY <1>7, <2>1, <2>2
<1>8. ASSUME NEW r \in Runs, StartRun(r) \/ EnterReview(r) \/ BroadcastComplete(r)
             \/ BroadcastError(r) \/ DeleteWorkflow(r)
      PROVE  UNCHANGED <<pending, messages, req>>
  BY <1>8 DEF StartRun, EnterReview, BroadcastComplete, BroadcastError, DeleteWorkflow
<1>9. ASSUME OperatorReset \/ UNCHANGED vars PROVE UNCHANGED <<pending, messages, req>>
  BY <1>9 DEF OperatorReset, vars
<1> QED
  BY <1>1, <1>2, <1>3, <1>4, <1>5, <1>6, <1>7, <1>8, <1>9
  DEF Next, Handler, Task, Request, Moves, Writes

\* No run passes a human_review node without an accepted human input of its
\* own, whatever duplicates, timeouts, deletions and restarts interleave.
THEOREM EveryReviewIsAnswered == Spec => []ReviewsAreAnswered
<1>1. Init => MessagesCountReviews /\ InputsAreAccepted
  BY DEF Init, MessagesCountReviews, InputsAreAccepted, InputsFit, NoEntry
<1>2. Spec => [](MessagesCountReviews /\ InputsAreAccepted)
  BY <1>1, CountInductive, InputsInductive, TypeCorrect, RegistryMatchesWaiters, PTL DEF Spec
<1>3. MessagesCountReviews /\ InputsAreAccepted => ReviewsAreAnswered
  BY DEF MessagesCountReviews, InputsAreAccepted, InputsFit, Accepted, ReviewsAreAnswered
<1> QED
  BY <1>2, <1>3, PTL
=============================================================================
