# Verification of the Symphony back end

The Symphony back end is one Python process: FastAPI on a single asyncio loop,
a Postgres database, workflows executed by LangGraph, a Slack bot, a cron
scheduler and an MCP server. This directory holds TLA+ modules that model it,
the TLC configurations that check them on small instances, and proofs for
TLAPS. Paths are relative to the repository's root; `workflow_runner.py` is
`app/workflow_runner.py`.

Everything runs on one loop, so a *step* of a model is the code between two
awaits. What interleaves is tasks at their awaits, and what fails is commits,
sends, model calls, tools, clients and the process.

## 1. Inventory

| Component | State | Operations | What makes it correct | Modelled |
|---|---|---|---|---|
| Run lifecycle: `workflow_runner.py` `run_workflow`, `routers/workflow_runs.py`, `routers/workflows.py` delete | rows of `workflow_runs` (status, output, error); one background task per run | `start_run`, the task's `_update_run` calls, outcome events, delete (cascade), restart, the operator's SQL of `hitl.py` | the status agrees with the task; terminal rows stay; every task settles its row and announces the outcome truthfully; a stuck row has a cause | yes |
| Human review: `hitl.py`, `human_review_node`, `resume_run` | `_pending`: run id -> (event, holder), in memory | `register`, `resume`, `cleanup`; the 24-hour timer | an entry exactly while a node waits; no run passes a review without an accepted answer; an accepted answer releases the run | one review at a time |
| Graph: `WorkflowRunner.compile`, the node functions, LangGraph | the graph's state dict: messages, `loop_count`, `condition_result` | compile, nodes, routing, the recursion limit | loops end by the loop guard; the budget counts each agent execution; every execution ends | yes |
| Agent nodes: `_make_agent_node`, `_run_react_agent`, `tool_context.py` | the agents a run loaded, `usage`, rows of `messages` | guards, model calls and tool turns, `node_complete`, saving the transcript | the model is called only behind the guards; usage adds up; the transcript tells what the run did | control, not prompts |
| Rate limiter: `_check_rate_limit` | `_rate_limit_windows`: agent id -> deque of call times | check before a model call | never more than `limit` calls a minute; no refusal without cause | yes |
| Event stream: `ws_manager.py`, `ws_run_events` | `_connections`: run id -> sockets, under a lock | `connect`, `disconnect`, `broadcast` | a registered client misses nothing for what others do; gone clients leave; broadcasts end | yes |
| Slack bot: `slack_bot.py` | none of its own; messages, runs | acknowledge, save, route to a workflow or an agent, save, reply | every message is saved and answered, once; the reply tells the outcome | yes |
| Scheduler: `scheduler.py`, instantiation of templates | APScheduler's jobs | load at start, register, trigger | the jobs are those of the workflows that have a schedule; a created run is executed | yes |
| MCP server: `mcp_server.py` | `agent_memory`, `knowledge_base`, `mcp_audit_log` | memory and knowledge tools; audit by a detached task | calls are atomic; each call ends and is audited | what writes |
| Agent memory: `tools/memory_tools.py`, `routers/agents.py` | `agent_memory`, unique by agent and key | remember, forget, REST, deletion of the agent | a linearizable map, with several writers | yes |
| Ingestion: `csv_scanner`, `data_quality`, `db_ingestor`, `data_profiler` | files in input/output/processed; tables | scan, check, ingest, move, profile | each file is ingested once, into its own table, or is kept | files as four kinds |
| Knowledge base: `embeddings.py`, `routers/knowledge.py`, `retriever.py` | `knowledge_base` with vectors | chunk, embed, insert, delete, search | no text is lost between chunks; sizes are bounded; a document is stored whole | all but the search |
| Portfolio tools: `portfolio_impact_analyzer`, `product_universe_filter`, `market_signal_fetcher`, `rm_alert_publisher` | catalogue and holdings files; what was posted | analyze, filter, write, publish in pieces | no fund outside the universe is drafted, no exposed investor dropped; an alert is whole and its messages fit | logic, not text |
| Templates: `templates/`, `routers/templates.py` | rows | instantiate | as the scheduler and the pipelines | instantiation, shapes |
| CRUD routers, `main.py` | rows | one transaction each; what the lifespan starts | the row's own constraints | where they reach others |
| Reports: `job_stats_collector`, `report_publisher`; stub senders; schemas, migrations | none | counts, one post, strings | | no |

How they interact. `start_run`, the scheduler and the Slack bot create a row and
call `run_workflow`; the first in a background task, the others in their own.
`run_workflow` compiles the graph and awaits LangGraph; nodes call tools, models
and the rate limiter, write logs (failures swallowed) and broadcast events
through the `ConnectionManager`. A review node commits `awaiting_review`,
broadcasts, registers in `hitl._pending` and waits; `resume_run` reads the row
and fires the entry. Deleting a workflow cascades to its runs while they
execute, deleting an agent to its memory and messages. The agents' tools, the
MCP server and the REST endpoints write the same tables. Nothing in memory
survives a restart, and nothing looks at the rows of runs when the process comes
up again; only the jobs are registered anew.

What is hard here: the window between the commit of `awaiting_review` and
`register`; answers that are late, early or double; commits that fail or whose
acknowledgement is lost, in the code that handles failures; rows that go away
under a task; restarts, also between the commit of a file's rows and its move;
files that are read and moved by path while others upload and ingest; parallel
branches of a graph; clients that come and go during a broadcast; events that
Slack delivers again; jobs that no longer match their rows; the boundary of the
rate window. `PROJECT.json` lists each as a hazard with its line and the
properties that cover it.

## 2. Modules

| Module | Models | State and actions |
|---|---|---|
| `RunStatus` | abstract: what every reader of `workflow_runs.status` may rely on | `status`; one step moves rows along `Edges`. Two flags add the edges of disturbances |
| `RunLifecycle` | run lifecycle and human review | `row` the column, `pc` the place of the handler or task, `pending` the registry, `review` and `messages` the node's progress, `req` the resume requests, `sent` the terminal events. One action per code segment between awaits; `UpdateRun` is a transaction with its outcomes, `UpdateRunShared` one on `run_workflow`'s own session |
| `GraphExecution` | compile, nodes and LangGraph's supersteps | `graph`, `input` the run's arguments, `state` the dict reduced to the last message's author, `loop_count` and `condition_result`, `active`/`returned`/`supersteps` the execution; history: `times` of each node, `executed` nodes and agents in all |
| `RateLimiter` | the sliding window | `window` the deques, `now` the clock; `Check` is `_check_rate_limit` |
| `AgentNodes` | the nodes of several runs, agents' above all, on `RateLimiter` | `plan` the nodes in the order of execution, `loaded` is `agents_map`, `said` the state's messages with the node that spoke, `turns` model calls, `usage`, `events` and `untold` the tokens, `messages` the session: for each commit, its rows that are left. An agent: `Admit` (with the limiter's `Check`), `Call`, `Announce`, `Save`; other nodes: `Pass`, `Profile` (`data_profiler`); `Fails`, `DeleteAgent` |
| `WsManager` | the event stream | `connections` the dictionary, `handler` and `link` each client, `task` each broadcast in progress; `Snapshot`, `Send`, `Finish` are `broadcast`, `Accept`, `Join`, `Leave` the endpoint with `connect` and `disconnect` |
| `Ingestion` | the ingestion pipeline | `input`, `staging` the directories, `table` the batches committed, `state` what a run carries from tool to tool. `Scan`, `Quality`/`CheckTool`, `Ingest`/`IngestTool`, `Move`, `Profile`: the first names are graph nodes, the second an agent's tools |
| `MemoryMap` | abstract: memory as an atomic map | `map`; each call takes effect once between its start and its end, or fails |
| `Stores` | `agent_memory`, `knowledge_base`, the audit | `memory` with row ids, `knowledge`, `inserted` the open transactions, `call` each call's place; an action per SQL statement |
| `WorkflowTables` | the rows the triggers share | `workflows`, `agent` (that serves Slack), `status`, `of` and `task` of each run; the endpoints, and `run_workflow` along `RunStatus`'s edges (`Advance`, `NeverBegins`), or raising out of it (`Raise`) |
| `SlackBot` | `slack_bot.py`, over `WorkflowTables` | `handler` the task of each delivery, `saved`, `posted`, `facts` what it left behind; one action per await of `_handle_event` |
| `Scheduler` | `scheduler.py` and `instantiate_template`, over `WorkflowTables` | `jobs`, `firing` the task of each firing, `registering` the endpoint between its commit and `register_workflow` |
| `Triggers` | `SlackBot` and `Scheduler` in one process | their actions, `Restart` of both (`main.py`'s lifespan), fairness |
| `TextChunks` | `chunk_text` | `text` as sentence lengths, `chunks` as ranges of sentences; a step is a turn of the loop |
| `AlertPublisher` | `rm_alert_publisher` | `blocks` where the text's paragraphs end, `messages` to post, as ranges of paragraphs, `posted` those of each attempt; `Publish`, `Post` |
| `PortfolioReco` | the portfolio workflow, over `AlertPublisher` | `stage` the node, `impact` and `validated` the reports, `catalogue` the file |
| `MC...` | small instances for TLC | definitions for the constants; `MCTools` puts `TextChunks` and `PortfolioReco` side by side (a run is one or the other), `MCAgentNodes` likewise the runs and the limiter alone |
| `RunLifecycleProofs`, `GraphExecutionProofs`, `AgentNodesProofs`, `WsManagerProofs`, `IngestionProofs`, `StoresProofs`, `TriggersProofs`, `ToolsProofs` | theorems | proofs only, each about the module it is named after; `AgentNodesProofs` also about `RateLimiter`, `ToolsProofs` about `TextChunks`, `AlertPublisher` and `PortfolioReco` |

Composition. `RunLifecycle` implements `RunStatus` (`INSTANCE RunStatus WITH
status <- row`) and `Stores` implements `MemoryMap`. `Triggers` composes the
Slack bot and the scheduler over one set of tables, in which a run walks along
the edges of `RunStatus` (`RunsWalkAlongEdges`), as the real one does in `RunLifecycle`. `AgentNodes`
composes with `RateLimiter`, and is what an agent of `GraphExecution` does
inside. What `RunLifecycle` takes for a choice (`NodeRaises`, `GraphEnds`,
`EnterReview`) is what `GraphExecution` computes, and the events it adds to
`sent` are broadcast as in `WsManager`.

Each module has a section "Plausible mistakes" with wrong versions of some
definitions. No specification uses them; they document which mistake each
property is there to catch.

### Correspondence worth knowing

* **Transactions** take effect at their COMMIT. Each has three outcomes: success;
  an exception from the database, the COMMIT having taken effect or not
  (`MaxFaults` bounds these); and what a row that has gone makes of it. An UPDATE
  of a deleted row has no effect (`if run_obj:`) or raises SQLAlchemy's
  stale-data error; an INSERT raises on the foreign key; a DELETE by id of a row
  that is gone is only worth a warning to SQLAlchemy, and the call reports
  success; `refresh` raises.
* **The session of `run_workflow`.** All its `_update_run` calls use one session
  that nothing rolls back (876-885). Once a statement, a flush or a COMMIT on it has
  raised, also for a row that was deleted, the SELECT of the next call raises too: the
  except clause (946) can record nothing, sends no event, and the task ends with
  the row as it was (`UpdateRunShared`, the place "broken", `RecordingRaises`). Only
  if no connection was to be had for the first statement does the clause
  work on (to "failing"). The sessions of `human_review_node` are its own (603, 633): a
  failure there is recorded like any node's.
* **Timer against answer.** `asyncio.wait_for` keeps the entry until its task
  runs again. `TimerFires` and `TimeoutWake` are therefore two steps, with room
  for an answer between them, and `Deliver` finds the entry in both.
* **Event order.** The docstring of `human_review_node` (581-586) names the
  broadcast before the status change; the code commits the status first (609),
  then broadcasts (611), then registers (620). The model follows the code.
* **LangGraph** is external: a superstep runs all active nodes on one state;
  `StateGraph(dict)` has one channel that takes one value per superstep;
  the recursion limit is an error. A router's answer that is not a node is
  ignored. Where versions differ (a graph that needs exactly the limit)
  both outcomes are allowed.
* **The lock** of the `ConnectionManager` is never held across an await, so it
  is always free when it is asked for, and a critical section is part of one
  step. Sends are not under the lock.
* **A send** to a lost connection raises or silently loses the bytes; on a
  working one it delivers. The handler of a lost connection notices at some
  time; until then the socket stays registered unless a failed send removed it.
* **The clock** of the limiter counts ticks; `Span` ticks are the 60 seconds.
* **An agent node.** The guards have no await of their own between the limiter
  and the topics, so they are one step. Topics are a Boolean of each text, a
  model call costs one token; `ChatAnthropic` tells the usage of each answer. The rows of a node are one commit, and a set:
  `created_at` is the time of the transaction, so nothing orders them.
* **The nodes between agents** matter to an agent by what they leave in the messages:
  its input is `history[-1]` (207), whoever said it. A tool, a review (649) and a
  retrieval (714) append one text, a condition and some tools' refusals none, and any
  text may name a restricted topic. `data_profiler` besides calls the model, behind no
  guard, and adds the tokens to the usage; the `node_complete` of a tool node tells
  none (540-545), so the model keeps them in `untold`.
* **Files.** A version is one upload; a path leads to the newest version of its
  name. Uploads are atomic, nobody deletes from input/, and the names in
  processed/ are taken to differ (two moves of one name within one second would
  replace one another). Contents are of four kinds: a row or more to ingest, none
  left after the quality check, a row that the database rejects, no CSV.
* **Slack** delivers an event again when it has not seen the acknowledgement in
  time; twice in the model. **APScheduler** starts no job that is still running
  (`max_instances=1`). Model calls may always raise.
* **Reviews in `Triggers`** are left out: a run goes from pending to running to
  its outcome. A completed run is "silent" if no node of its path appended a message:
  `slack_bot.py:264` asks for `if msgs`.

## 3. Runs

| Run | Instance | Checks |
|---|---|---|
| `lifecycle` | 1 run of 2 reviews, 3 requests; 1 failed transaction, 1 restart, 1 reset, deletion; with fairness | `StatusTracksTask`, `EventsTellTheOutcome`, `StuckNeedsCause`, `PendingIffWaiting`, `ReviewsAreAnswered`, `TerminalRowFinal`, that `RunLifecycle` implements `RunStatus`, `EveryRunSettles`, `AcceptedInputReleases` |
| `lifecycle_conflict` | 1 run, 1 request | `ConflictMeansReviewOver` fails (finding 1) |
| `lifecycle_duplicate` | 1 run, 2 requests | `AcceptedInputIsInjected` fails (finding 2) |
| `graph` | every graph start/agent/middle/condition/end over the edges of `MCGraphs`, three kinds of middle node, `max_loops` 2; six special graphs; with fairness | `TypeOK`, `GuardedLoopsExit`, `LoopCountCountsAgents`, `CompletedRunsAreSequential`, `ExecutionEnds` |
| `graph_loops` | a polling loop without an agent | `LoopsRepeatAtMostMaxLoops` fails (finding 3) |
| `graph_input` | start, agent, end | `FirstAgentGetsTheInput` fails (finding 4) |
| `agent_nodes` | two runs that share an agent, one with a tool between its agents as in `portfolio_reco`; or a Slack run that loops over an agent with `data_profiler` between, or begins with a retrieval; rate limits, topics, tools and log levels differ; 1 failed commit, deletions; or the limiter alone: limits 1 to 3, span 2, 6 ticks, 5 calls | `NeverTooMany`, `RefusedWithCause`, `GuardsPrecedeCalls`, `UsageAddsUp`, `TranscriptFollowsRun` |
| `ws` | 3 clients, one of another run; 2 branches with 1 event each; with fairness | `RegistryMatchesHandlers`, `NoGaps`, `BroadcastsEnd`, `ClosedClientsLeave` |
| `ingestion` | 2 uploads under 2 names, 2 agents and a graph that loops once, 1 fault, 2 seconds | `TypeOK`, `BatchesHaveCause`, `TakenWasAttempted`, `LeftBehindNeedsCause` |
| `stores` | 3 calls of any kind on 1 entry and documents of 1 and 2 chunks, 1 fault; with fairness | `TypeOK`, `AddIsAllOrNothing`, that `Stores` implements `MemoryMap`, `CallsEndAudited` |
| `triggers` | 1 workflow of any kind, 1 event and its redelivery, 1 firing, 2 triggers in all, 1 edit, 1 fault; with fairness | `JobsMatchRows`, `RepliesTellOutcome`, `EventsActOnce`, `EventsAreAnswered`, `RunsAreExecuted` |
| `tools` | texts of up to 4 sentences, chunks of 6, overlap 2; or 2 investors, 4 funds, 3 catalogues, alerts of up to 2 paragraphs in 2 attempts | `ChunksKeepText`, `ChunksFit`, `AlertIsWhole`, `ValidatedIsSafe` |

Why the bounds are enough. The safety properties of every passing run are also
theorems for all values of the constants (section 5); there the runs show that the
cases arise and that the mutated code is caught. It is for liveness that the bounds matter.

* `lifecycle`: runs interact only through a restart and the operator's UPDATE,
  which treat each for itself; three requests race for one review and let a late
  answer to the first meet the second; one fault at each possible transaction, before it, in it or after its COMMIT, is
  every single failure.
* `graph`: the shapes include self-loops through the condition, fan-outs, dead
  ends, missing branches and loops with and without an agent; `Special` holds the
  longest guarded loop (ten nodes), for which the recursion limit is tightest.
* `agent_nodes`: a limit of 3 against 5 calls fills, drains and refills the deque
  across every boundary of a span of 2 ticks; the runs meet the shared limiter in
  every order, within a window and just beyond it.
* `ws`: two broadcasts of one run overlap with clients that come, go and fail in
  any order, and a client of another run shows that nothing leaks. A branch's
  second event differs from a second branch's only in its number, which the order
  of `NoGaps` needs: the theorem covers it for any `MaxEvents`.
* `ingestion`: two versions are what it takes to replace, repeat or mix up a
  file; three runs of both kinds may hold one file at a time; the fault is a
  failed or lost commit, a failed move or a restart. Names, seconds and agents are
  interchangeable and no liveness is checked, so the run uses symmetry.
* `stores`: three calls are two that race and one that looks at, or spoils, what
  they do. Entries share nothing but the agent, whose deletion clears them.
* `triggers`: an event, its redelivery and a firing, of which any two happen;
  the edit, the fault and the restart come at any point between their steps.
* `tools`: sentences shorter and longer than a chunk, at and beside its
  boundary; sectors of which one's name is a part of the other's, exposures at,
  above and just below the threshold, roundings.

The runs whose systems stop (every task has ended, the clock stands still) say
`CHECK_DEADLOCK FALSE`.

## 4. Fairness

* `RunLifecycle!FairSpec`: weak fairness of each handler, of each task's steps
  and of a resume request that has read the status. The loop runs ready tasks,
  every await of a node returns or raises, and the review timer expires. No
  human is bound to answer, nobody to start or delete a run. Without the timer
  (`TimerFiresNever`) `EveryRunSettles` fails.
* `GraphExecution!FairSpec`: weak fairness of `Progress`, which leaves out that a
  review returns: only its timer is promised. The execution of the others is
  promised because model and tool calls have time limits or raise.
* `WsManager!FairSpec`: handlers run, and a send returns or raises. The code has
  no limit of its own on a send: the server closes a connection whose pings are
  not answered. How long a slow client holds up a run is not modelled.
* `Stores!FairSpec`: each statement of a call that has begun returns or raises,
  and the loop runs the audit task. Nobody need call, and no commit need succeed
  but for the bound on faults.
* `Triggers!FairSpec`: the tasks of a delivery and of a firing go on, and a run
  that executes ends (`EveryRunSettles` of `RunLifecycle`). No event need come and
  no job fire.
* `Ingestion`, `AgentNodes`, `PortfolioReco` and `TextChunks` have no fairness: no
  liveness is claimed of them beyond what the graph's `ExecutionEnds` says.

## 5. Proofs

TLAPS checks, for every value of the constants:

**`RunLifecycleProofs`** (any runs, callers and bounds)

| Theorem | Statement |
|---|---|
| `TypeCorrect` | `Spec => []TypeOK` |
| `StatusTracked` | `Spec => []StatusTracksTask` |
| `StuckHasCause` | `Spec => []StuckNeedsCause` |
| `TerminalIsFinal` | `Spec => TerminalRowFinal` |
| `Refinement` | `Spec => ImplementsRunStatus` |
| `EventsAreTruthful` | `Spec => []EventsTellTheOutcome` |
| `RegistryMatchesWaiters` | `Spec => []PendingIffWaiting` |
| `EveryReviewIsAnswered` | `Spec => []ReviewsAreAnswered` |

The status properties rest on `RowFits`: for each place of the task, the
statuses its row may have, with the disturbance that excuses each exception.
It is nearly inductive; the deletion is the disjunct that makes it so. The
refinement follows from it, because `RowFits` says from which status each write
starts. `EventsTellTheOutcome` needs the places at which an event can already
have been sent, since the timeout branch sends `run_error` before the failure
handler runs. `TerminalRowFinal` excepts nothing but an operator's reset: a lost
acknowledgement of "completed" cannot be overwritten by "failed", because the task is
"broken" then. The mutant, which rolls the session back and writes, breaks
it. `ReviewsAreAnswered` needs more than `PendingIffWaiting`: inputs in
a holder are answered requests of that run, different from each other and from
those already in the messages, and a node with a set event has one.

**`GraphExecutionProofs`** (any graphs of finitely many nodes and edges, any inputs)

| Theorem | Statement |
|---|---|
| `TypeCorrect` | `Spec => []TypeOK` |
| `BudgetChargesAgents` | `Spec => []LoopCountCountsAgents` |
| `CompletionIsSequential` | `Spec => []CompletedRunsAreSequential` |
| `LoopGuardEndsLoops` | `Spec => []GuardedLoopsExit` |

The first two rest on `SequentialOK`: with at most one active node, the
executions are the supersteps and the agents' are `loop_count`; the superstep of
two active nodes can only fail. The loop guard needs a
measure that the state does not hold, so the invariant says that there are sets of
nodes (`Trail`): those executed so far (`all`), those since the last agent while
the budget lasts (`since`), and those since it was used up (`out`). Each is a path
to the active node. If the next node were in `since`, the path would close to a
loop without an agent, which a guarded graph has not; so `since` grows at each
superstep and has at most ten nodes. The same holds of `out`, on which
`condition_result` forces every branch to its exit. Hence at most ten supersteps
for each unit of the budget and ten more, below the limit of
`max_loops * 10 + 20`, and at most `max_loops + 1` executions of each node.

**`AgentNodesProofs`** (any agents, limits, span, number of calls; any runs, plans, settings)

| Theorem | Statement |
|---|---|
| `TypeCorrect` | `Spec => []TypeOK`, of the limiter |
| `RateIsBounded` | `Spec => []NeverTooMany` |
| `RefusalsAreJustified` | `Spec => []RefusedWithCause` |
| `NodesUseLimiter` | `NodesSpec => Spec`: the runs are users of the limiter |
| `NoCallUnguarded` | `NodesSpec => []GuardsPrecedeCalls` |
| `UsageIsTold` | `NodesSpec => []UsageAddsUp` |
| `SessionsAreTranscripts` | `NodesSpec => []TranscriptFollowsRun` |

`Spec` is the limiter alone. Its invariant is that the deque is the tail of the
history of accepted calls that the last pruning left, everything before it having
expired, and that the history is in the order of time (`AgentOK`). Then
`len(window) < limit` says that the call `limit` places back has expired, whatever
the limits of the calls between. The pruning loop is the largest prefix of expired
calls; that one exists is the least-number principle (`LeastNat`, from the
library's well-founded induction).

`NodesSpec` is the agent nodes of the runs. Every step of theirs is a step of the
limiter or leaves it alone, so what the limiter promises holds of their calls. Their
invariant `NodesInv` says of each run that only nodes that are over have spoken and
that each has told one event (`Placed`); that each node that is over counted right,
told or untold, what its calls cost, that those to come have counted nothing, and
that the usage is the sum (`Counted`, with `CountOK` for one node); that an agent's node which
calls, or is about to, found no restricted topic in the last text before it
(`Guarded`); that the commits of the session are those of agent nodes that are over, in
their order, with rows from the right sources, and that what is missing are
failed commits (`Ordered`, `Transcribed`). "The last text before node k"
(`LastBefore`) is read off the messages as they are now; that it was the input of
node k then, and stays what it is while later nodes speak, are the lemmas `InputIsLast`
and `LastBeforeKept`. Across runs, the nodes that the limiter
let through for an agent, counted before they call the model, are no more than
the limiter accepted (`ChargeOK`): `GuardsPrecedeCalls` itself is not inductive, for
a node is accepted in one step and calls in another.

**`WsManagerProofs`** (any clients, branches, runs, number of events)

| Theorem | Statement |
|---|---|
| `TypeCorrect` | `Spec => []TypeOK` |
| `RegistryCorrect` | `Spec => []RegistryMatchesHandlers` |
| `DeliveryHasNoGaps` | `Spec => []NoGaps` |

`NoGaps` is not inductive: a step needs to know that the sockets a broadcast has
still to serve belong to its run, have been registered before its event began
(`joined < sent`), and that those it takes for dead have lost their connection,
so that removing them takes no live client along (`TaskOK`). Nothing is received
before the registration (`ClientOK`).

**`IngestionProofs`** (any names, contents, graphs, agents, bounds)

| Theorem | Statement |
|---|---|
| `TypeCorrect` | `Spec => []TypeOK` |
| `RowsGoInOnce` | `Spec => []BatchesHaveCause` |
| `TakenFilesWereRead` | `Spec => []TakenWasAttempted` |
| `NothingIngestedStays` | `Spec => []LeftBehindNeedsCause` |

That rows go in once is a matter of who else has them. The invariant says of a
version whose rows are committed and that has no cause on record (`CommittedOK`):
nobody has read it and is yet to put it to the database, and it is no longer
where a scan would find it, or the run that committed it is about to move it.
So whoever comes upon it meets that run, and the meeting is recorded. Of each run
it says where the rows it holds come from (`Source`: the file of its path, or,
on record, one before) and what became of the file it chose as long as that is in
its place (`ChosenOK`). Names and versions must fit (`FilesOK`): what is under a
name was uploaded under it and is the latest of it.

**`StoresProofs`** (any calls, agents, keys, values, documents, bounds)

| Theorem | Statement |
|---|---|
| `TypeCorrect` | `Spec => []TypeOK`, with the schema's unique ids and foreign key |
| `DocumentsWhole` | `Spec => []AddIsAllOrNothing` |
| `MemoryRefinesMap` | `Spec => ImplementsMemoryMap` |

The refinement maps the rows to the values they hold and each call to whether it
has taken effect. Each statement is a step of the map or a stutter. A
deletion by id whose row is gone, or was set anew under a new id, changes
nothing, and reports success all the same; it took effect when that row was
removed (`Removers`), between its start and its end. `CallOK` is what a call knows between its SELECT and its DELETE;
`DocOK`, that only a commit stores rows of a call, and all of them.

**`TriggersProofs`** (any workflows, rows, events, firings, bounds)

| Theorem | Statement |
|---|---|
| `TypeCorrect` | `Spec => []TypeOK`, of the bot, the scheduler and their tables |
| `JobsFollowRows` | `Spec => []JobsMatchRows` |
| `RepliesAreTrue` | `Spec => []RepliesTellOutcome` |
| `EventsActTwiceOnlyUnacknowledged` | `Spec => []EventsActOnce` |
| `RunsWalkAlongEdges` | `Spec => RunTable!Spec`: the rows implement `RunStatus` |

The invariant relates a run's status to its task (`RunOK`), a handler's place to
what it has done (`PlaceOK`, `ReplyOK`, `AckOK`), a second delivery to the first
one's acknowledgement (`SecondOK`), and a job to its row or to the registration
that is on its way, which must carry the row as it is (`JobOK`). `RunsWalkAlongEdges` follows
from `RunOK`: a run is inserted where there was none, and its task finds it in the
status it left it in, or deleted. A fault leaves the row as it is, or as the
COMMIT made it whose acknowledgement was lost, or fails a run that could not begin: so
the edges are those without disturbances and the one of a fault, pending to
failed. No run checks this one as a property; TLC agreed on the
instance of `triggers`.

**`ToolsProofs`** (any texts, chunk size and overlap up to it; any funds, investors,
sectors, targets, threshold, catalogues and notes, `TopN` at least 1)

| Theorem | Statement |
|---|---|
| `TextIsKept` | `TextSpec => []ChunksKeepText` |
| `SizesAreBounded` | `TextSpec => []ChunksFit` |
| `AlertsAreWhole` | `RecoSpec => []AlertIsWhole` |
| `ReportsAreSafe` | `RecoSpec => []ValidatedIsSafe` |

For the first two, the invariant says of the chunk being filled what the properties say of the
complete ones (`CurrentOK`), and that it is empty only before the first
sentence: every other chunk begins with a tail, which is why the branch of a
sentence on its own is taken only once.

An alert's pieces are those of `_chunk_message`, a loop over paragraphs: after each
turn they cover the text so far, in order (`ChunkedOK`, over the turns by the least
number for which it fails). While an attempt posts, the pieces it still holds go on
where the posted ones end, and reach the end of the text (`AlertInv`). The report of
the filter rests on what the drafts promise until the catalogue changes again
(`DraftsOK`): the exposed investors, funds of the universe, and one at least for an
investor whom some fund suits (`DraftsSuit`: the first that does is among the first
`TopN`).

The type invariants of `RunLifecycle`, `RateLimiter`, `AgentNodes`, `WsManager`, `Triggers`
and `TextChunks` are
proved and not checked by a run.

Assumptions: the named ASSUMEs of the modules and nothing else. Bounds are
natural numbers, limits positive, names distinct; a graph's nodes and edges are
sequences, as JSON arrays are, and its node types those `compile` knows; an edge of a
plan that leads to an agent leads to the plan's next node; paragraph ends are natural numbers and a
catalogue lists known funds; a value that
is set is a text (the endpoints require one); a run is started by an event or a
firing, not both. TLC evaluates them in each run.

Each inductive invariant was first checked by TLC on the instance of its run. The
provers have no induction over data; what recursion computes is proved by the least
number for which it would fail. Where a plainer form says the same the model uses
it: what was a sum over nodes of the graph is a counter of history (`executed`), and
"once" in `BatchesHaveCause` says that one table has the rows, one time.

Model-checked only, and why:

* liveness under fairness, out of the provers' reach: `EveryRunSettles`,
  `AcceptedInputReleases`, `ExecutionEnds`, `BroadcastsEnd`, `ClosedClientsLeave`,
  `CallsEndAudited`, `EventsAreAnswered`, `RunsAreExecuted`;
* the findings, which are counterexamples.

## 6. Findings

1. **An answer can be refused while its review is starting**
   (`lifecycle_conflict`). `awaiting_review` is committed and announced before
   `hitl.register`; a reviewer who reacts to the event may be told 409, "it may
   have timed out".
2. **Accepted answers can be dropped** (`lifecycle_duplicate`). `resume` returns
   True for every call that finds the entry; the node takes only the first
   input, and none after its timer fired.
3. **Loops without an agent are not limited by `max_loops`** (`graph_loops`). They
   run into LangGraph's recursion limit and fail the run.
4. **A triggering message never reaches the first agent** (`graph_input`).
   `run_workflow` builds the state without `input`; the agent reads "Begin.".

Other places where the words and the code differ, seen while modelling. The
models follow the code; no run is spent on them.

* `tools/db_ingestor.py:157` moves a file "regardless of ingest outcome"; lines 189-190
  return before that when nothing is left to ingest. That file is the newest one
  the next scan finds, so the pipeline is stuck on it until somebody takes it
  away (`LeftBehindNeedsCause` names the case).
* `templates/data_ingestion.py:18-20` profiles, as its last step, the original
  path, which the step before has moved away.
* `mcp_server.py:11`, "Every tool call is persisted": calls that raise or are
  refused are not (`CallsEndAudited` says which are).
* `slack_bot.py:266` tells the user "Workflow completed." for a run that failed or
  whose workflow was deleted, as for one that completed without any node appending
  a message (264); the reply does not tell which (`RepliesTellOutcome`). Without an agent
  nothing is persisted (135-136).
* `workflow_runner.py:946`: the failure of an `_update_run` is recorded on the
  same session, which raises again: the row stays pending or running, and no
  `run_error` is sent (`StuckNeedsCause` and `EveryRunSettles` name the case).
* `scheduler.py:4-6` and 112: only an instantiated "cron" template registers a
  job, while a start registers every row that has a schedule; editing a workflow
  changes no job (`JobsMatchRows`).
* `tools/rm_alert_publisher.py:32`: a paragraph longer than the limit, and the
  header, are not counted (`AlertIsWhole`).
* `tools/portfolio_impact_analyzer.py` says "> 5 %" in its summary and tests
  `>=`; a neutral sentiment counts as positive. Sectors match if one's name is
  part of the other's.
* `doc/portfolio-reco-design.md:90` has the filter after the model; the template
  (`templates/portfolio_reco.py:178`) runs it before the agent that writes.
* `tools/job_stats_collector.py:23-25`: a run that awaits review is in the total
  and in no bucket.
* `workflow_runner.py:395`: of a ReAct agent only the last turn's usage counts
  (`UsageAddsUp` says which nodes may count less than they cost). One accepted call
  covers up to `max_turns` model calls (385).
* `workflow_runner.py:540`: the tokens of `data_profiler` are in the run's usage and
  in no `node_complete` event, so a client that adds the events up gets less than
  `run_complete` tells (`UsageAddsUp`).
* `slack_bot.py:236`: a run from Slack loads the Slack agent only; the other
  agents of its graph run without their prompts and guards.
  `tool_config` reaches runs of `start_run` only (`scheduler.py:71`,
  `slack_bot.py:247`).

## 7. Plan

Done: all modules of section 2. Left, in this order:

1. Proofs: the safety that the liveness properties rest on (an answered call's audit
   task is there, a started run is somebody's task).
2. Two review nodes of one run at a time, whose entries overwrite each other in
   `_pending`. `CompletedRunsAreSequential` already shows that such a run cannot
   complete, so nothing but its way of failing is left to say.
3. A restart inside `AgentNodes` (the windows are lost) and reviews in `Triggers`.

## 8. Not modelled, and why

* Prompt assembly, guardrail texts, model output, embeddings, vector search,
  feeds and Slack's own behaviour are data or external services; their failures
  appear as a node or call that raises.
* Logging swallows its own errors and changes nothing the properties see.
* CRUD endpoints that touch one row nothing else relates to; listings, pages of
  messages and searches, which change nothing; the stub of authentication.
* The row checks of `data_quality` and the statistics of `data_profiler` are data:
  a file's content is one of four kinds. Error files are written and never read.
* `job_stats_collector` and `report_publisher`: one SELECT with sums, one post.
* The windows of the rate limiter start empty in a new process: for a minute an
  agent may make up to twice its calls. The limiter is documented as in-memory.
* Prices: a cost is a product of counted tokens with a table.
