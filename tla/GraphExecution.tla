---------------------------- MODULE GraphExecution ----------------------------
(***************************************************************************)
(* How one workflow graph is compiled and executed: WorkflowRunner.compile *)
(* translates graph_definition into LangGraph nodes and edges, run_workflow *)
(* invokes the result, and the node functions transform the run's state    *)
(* (workflow_runner.py).  RunLifecycle sees all of this as "the graph".    *)
(*                                                                         *)
(* LangGraph is external.  It executes supersteps: every active node gets  *)
(* the same state; when all have returned, the state becomes what the one  *)
(* node returned.  StateGraph(dict) has a single channel that takes a      *)
(* single value per superstep: two active nodes are an error.  More than   *)
(* recursion_limit supersteps are an error too.                            *)
(***************************************************************************)
EXTENDS Integers, Sequences, FiniteSets, FiniteSetsExt, SequencesExt

CONSTANTS
    Graphs,  \* the values of graph_definition a run may be started with:
             \* [nodes |-> sequence of [id, type, tool],
             \*  edges |-> sequence of [from, to, branch],
             \*  max_loops |-> a natural number]
    Inputs   \* the values of input_data: [text |-> has it an "input",
             \*  condition_result |-> a Boolean]

NodeTypes == {"start", "end", "agent", "tool", "condition",
              "human_review", "rag"}

ASSUME GraphsAssumption ==
    \A g \in Graphs :
        /\ g.max_loops \in Nat
        /\ g.nodes \in Seq(Range(g.nodes)) /\ g.edges \in Seq(Range(g.edges))
        /\ \A i \in DOMAIN g.nodes : g.nodes[i].type \in NodeTypes

ASSUME InputsAssumption ==
    Inputs \subseteq [text : BOOLEAN, condition_result : BOOLEAN]

VARIABLES
    graph,      \* graph_definition
    input,      \* input_data
    phase,      \* of run_workflow: compiling, running, completed, failed
    error,      \* why it failed: "none", "compile", "node", "writers", "recursion"
    active,     \* the nodes of the current superstep
    returned,   \* the states returned by those of them that have finished
    supersteps, \* the number of supersteps done
    state,      \* the state of the graph
    times,      \* history: how often each node has been executed,
    executed,   \* and how often any node, and any agent, has
    prompt      \* history: what the last agent got as user_input

history == <<times, executed, prompt>>
vars == <<graph, input, phase, error, active, returned, supersteps, state, history>>

NoNode == "no node"   \* nothing, and LangGraph's END
Begin  == "Begin."

-----------------------------------------------------------------------------
(* graph_definition as compile reads it                                    *)

Ids(g) == {g.nodes[i].id : i \in DOMAIN g.nodes}

NodeOf(g, n) == g.nodes[CHOOSE i \in DOMAIN g.nodes : g.nodes[i].id = n]
TypeOf(g, n) == NodeOf(g, n).type

OutEdges(g, n) == SelectSeq(g.edges, LAMBDA e : e.from = n)

\* next((n["id"] for n in nodes if n["type"] == "start"), None)
Entry(g) ==
    LET i == SelectInSeq(g.nodes, LAMBDA n : n.type = "start")
    IN  IF i = 0 THEN NoNode ELSE g.nodes[i].id

\* The target of the first edge with that branch; END without one.
BranchTarget(g, n, branch) ==
    LET out == OutEdges(g, n)
        i   == SelectInSeq(out, LAMBDA e : e.branch = branch)
    IN  IF i = 0 THEN NoNode ELSE out[i].to

\* The nodes that follow n when condition_result is cond.  An end node leads
\* to END whatever its edges say; every edge of another node is followed.
\* LangGraph ignores a router's answer that is not a node.
Successors(g, n, cond) ==
    LET targets == {OutEdges(g, n)[i].to : i \in DOMAIN OutEdges(g, n)}
    IN  IF TypeOf(g, n) = "end" \/ targets = {} THEN {}
        ELSE IF TypeOf(g, n) = "condition"
             THEN Ids(g) \cap {BranchTarget(g, n, IF cond THEN "true" ELSE "false")}
             ELSE targets

\* A plausible mistake: edges to nodes that do not exist are let through.
CompilesUnchecked(g) == Entry(g) # NoNode /\ Cardinality(Ids(g)) = Len(g.nodes)

\* compile raises without a start node; LangGraph refuses a second node of
\* the same name and an edge, other than a branch, to one that does not exist.
Compiles(g) ==
    /\ Entry(g) # NoNode
    /\ Cardinality(Ids(g)) = Len(g.nodes)
    /\ \A n \in Ids(g) : \A c \in BOOLEAN : Successors(g, n, c) \subseteq Ids(g)

RecursionLimit(g) == g.max_loops * 10 + 20

-----------------------------------------------------------------------------
(* Plausible mistakes, each a wrong version of the definition it is named  *)
(* after; no specification uses them.  The properties must reject them.    *)

\* The loop guard is off by one.
AgentReturnsOneMore(g, n, s) ==
    LET count == s.loop_count + 1
    IN  {[last |-> n, loop_count |-> count,
          condition_result |-> count > g.max_loops \/ s.condition_result]}

\* The review node returns a fresh dict without **state.
ReviewReturnsFresh(n, s) ==
    {[last |-> n, loop_count |-> 0, condition_result |-> FALSE]}

\* A review waits for its human without a timeout.
MayRaiseNoTimeout(g, n) == TypeOf(g, n) \in {"agent", "tool"}

\* The state channel takes any number of values; the last one wins.
TwoWritersLastWins ==
    /\ Cardinality(active) > 1
    /\ DOMAIN returned = active
    /\ \E n \in active :
          /\ state' = returned[n]
          /\ active' = UNION {Successors(graph, m, returned[n].condition_result) :
                               m \in active}
    /\ returned' = <<>>
    /\ supersteps' = supersteps + 1
    /\ UNCHANGED <<graph, input, phase, error, history>>

-----------------------------------------------------------------------------
(* The node functions: the states a node may return                        *)

\* `last` stands for messages[-1]: the node that appended it.
InitialState(i) ==
    [last |-> NoNode, loop_count |-> 0, condition_result |-> i.condition_result]

\* history[-1] if history else state.get("input", "Begin."), where the state
\* that run_workflow builds has no "input".
UserInput(s) == IF s.last # NoNode THEN s.last ELSE Begin

\* The model's reply is appended; the last permitted loop forces the result.
AgentReturns(g, n, s) ==
    LET count == s.loop_count + 1
    IN  {[last |-> n, loop_count |-> count,
          condition_result |-> count >= g.max_loops \/ s.condition_result]}

\* csv_scanner decides condition_result: a file, no file, or (no message) an
\* input directory that cannot be listed.  The others leave it alone.
ToolReturns(g, n, s) ==
    IF NodeOf(g, n).tool = "csv_scanner"
    THEN {[s EXCEPT !.last = n, !.condition_result = TRUE],
          [s EXCEPT !.last = n, !.condition_result = FALSE],
          [s EXCEPT !.condition_result = FALSE]}
    ELSE IF NodeOf(g, n).tool = "unknown" THEN {} ELSE {s, [s EXCEPT !.last = n]}

\* The human's answer, or the retrieved context (also of a failed retrieval),
\* is appended.
ReviewReturns(n, s) == {[s EXCEPT !.last = n]}
RagReturns(n, s)    == {[s EXCEPT !.last = n]}

Returns(g, n, s) ==
    CASE TypeOf(g, n) = "agent" -> AgentReturns(g, n, s)
      [] TypeOf(g, n) = "tool" -> ToolReturns(g, n, s)
      [] TypeOf(g, n) = "human_review" -> ReviewReturns(n, s)
      [] TypeOf(g, n) = "rag" -> RagReturns(n, s)
      [] OTHER -> {s}

\* A model error or the rate limit, a failing or unknown tool, a timed-out
\* review.  The other node functions have nothing that raises.
MayRaise(g, n) == TypeOf(g, n) \in {"agent", "tool", "human_review"}

-----------------------------------------------------------------------------
(* run_workflow                                                            *)

Init ==
    /\ graph \in Graphs
    /\ input \in Inputs
    /\ phase = "compiling" /\ error = "none"
    /\ active = {} /\ returned = <<>> /\ supersteps = 0
    /\ state = InitialState(input)
    /\ times = [n \in Ids(graph) |-> 0]
    /\ executed = [nodes |-> 0, agents |-> 0]
    /\ prompt = NoNode

Fail(reason) == phase' = "failed" /\ error' = reason

CompileFails ==
    /\ phase = "compiling"
    /\ ~Compiles(graph)
    /\ Fail("compile")
    /\ UNCHANGED <<graph, input, active, returned, supersteps, state, history>>

\* The graph is compiled and invoked: set_entry_point.
Invoke ==
    /\ phase = "compiling"
    /\ Compiles(graph)
    /\ phase' = "running"
    /\ active' = {Entry(graph)}
    /\ UNCHANGED <<graph, input, error, returned, supersteps, state, history>>

\* Node n is executing in this superstep.
Executing(n) ==
    /\ phase = "running"
    /\ supersteps < RecursionLimit(graph)
    /\ n \in active \ DOMAIN returned

\* What is noted when the function of node n has been executed.
Note(n) ==
    LET isAgent == TypeOf(graph, n) = "agent" IN
    /\ times' = [times EXCEPT ![n] = @ + 1]
    /\ executed' = [nodes |-> executed.nodes + 1,
                    agents |-> executed.agents + IF isAgent THEN 1 ELSE 0]
    /\ prompt' = IF isAgent THEN UserInput(state) ELSE prompt

\* It returns.
NodeReturns(n) ==
    /\ Executing(n)
    /\ \E s \in Returns(graph, n, state) :
          returned' = [m \in DOMAIN returned \cup {n} |-> IF m = n THEN s ELSE returned[m]]
    /\ Note(n)
    /\ UNCHANGED <<graph, input, phase, error, active, supersteps, state>>

\* It raises: the others are cancelled, ainvoke raises, the run has failed.
NodeRaises(n) ==
    /\ Executing(n)
    /\ MayRaise(graph, n)
    /\ Fail("node")
    /\ Note(n)
    /\ UNCHANGED <<graph, input, active, returned, supersteps, state>>

\* The one active node has returned: its state is the graph's, its successors
\* are next.
OneWriter ==
    /\ phase = "running"
    /\ \E n \in active :
          /\ active = {n} /\ n \in DOMAIN returned
          /\ state' = returned[n]
          /\ active' = Successors(graph, n, returned[n].condition_result)
    /\ returned' = <<>>
    /\ supersteps' = supersteps + 1
    /\ UNCHANGED <<graph, input, phase, error, history>>

\* "Can receive only one value per step."
TwoWriters ==
    /\ phase = "running"
    /\ Cardinality(active) > 1
    /\ DOMAIN returned = active
    /\ Fail("writers")
    /\ UNCHANGED <<graph, input, active, returned, supersteps, state, history>>

\* At the limit LangGraph raises; its versions differ on a graph that needs
\* exactly that many supersteps.
OutOfSupersteps ==
    /\ phase = "running"
    /\ supersteps = RecursionLimit(graph)
    /\ Fail("recursion")
    /\ UNCHANGED <<graph, input, active, returned, supersteps, state, history>>

\* Nothing is left to execute: ainvoke returns the final state.
Complete ==
    /\ phase = "running"
    /\ active = {}
    /\ phase' = "completed"
    /\ UNCHANGED <<graph, input, error, active, returned, supersteps, state, history>>

IsReview(n) == TypeOf(graph, n) = "human_review"

Next ==
    \/ CompileFails \/ Invoke
    \/ \E n \in active : NodeReturns(n) \/ NodeRaises(n)
    \/ OneWriter \/ TwoWriters \/ OutOfSupersteps \/ Complete

Spec == Init /\ [][Next]_vars

\* Every node function returns or raises at some time, and LangGraph goes on;
\* no human is bound to answer a review, but its timer expires.
Progress ==
    \/ CompileFails \/ Invoke
    \/ \E n \in active : \/ NodeRaises(n)
                         \/ ~IsReview(n) /\ NodeReturns(n)
    \/ OneWriter \/ TwoWriters \/ OutOfSupersteps \/ Complete

FairSpec == Spec /\ WF_vars(Progress)

-----------------------------------------------------------------------------
(* Properties                                                              *)

States == [last : Ids(graph) \cup {NoNode}, loop_count : Nat,
           condition_result : BOOLEAN]

\* The type invariant.
TypeOK ==
    /\ graph \in Graphs
    /\ input \in Inputs
    /\ phase \in {"compiling", "running", "completed", "failed"}
    /\ error \in {"none", "compile", "node", "writers", "recursion"}
    /\ active \subseteq Ids(graph)
    /\ DOMAIN returned \subseteq active
    /\ \A n \in DOMAIN returned : returned[n] \in States
    /\ supersteps \in Nat
    /\ state \in States
    /\ times \in [Ids(graph) -> Nat] /\ executed \in [nodes : Nat, agents : Nat]
    /\ prompt \in Ids(graph) \cup {NoNode, Begin}

\* The nodes that may follow n, whatever condition_result is.
Follows(g, n) == Successors(g, n, TRUE) \cup Successors(g, n, FALSE)

AgentsOf(g)   == {n \in Ids(g) : TypeOf(g, n) = "agent"}
ScannersOf(g) == {n \in Ids(g) : NodeOf(g, n).tool = "csv_scanner"}

\* The graphs the loop guard is made for: no cycle without an agent, none
\* that stays closed when conditions come out true, none behind which
\* csv_scanner decides condition_result, and at most ten nodes.  (A nonempty
\* set contains a cycle if each node in it has a successor in it.)
Guarded(g) ==
    /\ Compiles(g)
    /\ g.max_loops > 0
    /\ Cardinality(Ids(g)) <= 10
    /\ \A S \in SUBSET Ids(g) \ {{}} :
          /\ \E n \in S : Successors(g, n, TRUE) \cap S = {}
          /\ (\A n \in S : Follows(g, n) \cap S # {}) =>
                S \cap AgentsOf(g) # {} /\ S \cap ScannersOf(g) = {}

GuardedGraphs == {g \in Graphs : Guarded(g)}

\* In a guarded graph the loop guard, and never the recursion limit, ends
\* the loops: no node is executed more than max_loops times in loops and
\* once on the way out, and the run does not fail for its length.
GuardedLoopsExit ==
    graph \in GuardedGraphs =>
        /\ error # "recursion"
        /\ \A n \in Ids(graph) : times[n] <= graph.max_loops + 1

\* The loop budget of a run is charged for every agent execution, whatever
\* nodes come between and whatever they return: loop_count is the number of
\* agent executions, as long as no two nodes share a superstep.
LoopCountCountsAgents ==
    LET current == IF DOMAIN returned = {} THEN state
                   ELSE returned[CHOOSE n \in DOMAIN returned : TRUE]
    IN  phase # "failed" /\ Cardinality(active) <= 1 => current.loop_count = executed.agents

\* A run that completes was sequential: each superstep executed one node, so
\* no output was computed and thrown away.  A fan-out never completes.
CompletedRunsAreSequential ==
    phase = "completed" => executed.nodes = supersteps

\* Whatever the graph and whoever fails to answer, the execution ends.
ExecutionEnds == <>(phase \in {"completed", "failed"})

-----------------------------------------------------------------------------
(* What the comments and docs say, and the code does not do                *)

\* "max times a feedback loop may repeat before forcing exit": no node is
\* executed more often than once and max_loops repetitions.
LoopsRepeatAtMostMaxLoops ==
    \A n \in Ids(graph) : times[n] <= graph.max_loops + 1

\* A workflow is "triggered by a message": the first agent of a run that was
\* given an input text is prompted with it, not with "Begin.".
FirstAgentGetsTheInput == input.text => prompt # Begin
=============================================================================
