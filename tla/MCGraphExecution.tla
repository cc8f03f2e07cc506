--------------------------- MODULE MCGraphExecution ---------------------------
(* All graphs of a start node, an agent, a middle node, a condition and an *)
(* end node with the edges below, and some special ones, for TLC.         *)
EXTENDS GraphExecution

CONSTANTS
    MiddleTypes,  \* what the middle node is: <<type, tool>>
    MaxLoops      \* the values of max_loops

Node(id, type, tool) == [id |-> id, type |-> type, tool |-> tool]
Edge(from, to, branch) == [from |-> from, to |-> to, branch |-> branch]

\* The edges from `from` to each of a sequence of nodes.
Fan(from, tos) == [i \in DOMAIN tos |-> Edge(from, tos[i], "none")]

\* A branch that may be missing.
Branch(to, branch) == IF to = NoNode THEN <<>> ELSE <<Edge("cond", to, branch)>>

MCGraphs ==
    {[nodes |-> <<Node("start", "start", "none"), Node("agent", "agent", "none"),
                  Node("middle", m[1], m[2]), Node("cond", "condition", "none"),
                  Node("end", "end", "none")>>,
      edges |-> Fan("start", s) \o Fan("agent", a) \o Fan("middle", t)
                \o Branch(yes, "true") \o Branch(no, "false"),
      max_loops |-> k] :
        m \in MiddleTypes, k \in MaxLoops,
        s \in {<<"agent">>, <<"middle">>, <<"agent", "middle">>},
        a \in {<<"cond">>, <<"middle">>, <<"end">>},
        t \in {<<>>, <<"agent">>, <<"cond">>, <<"end", "agent">>},
        yes \in {"agent", "middle", "end", NoNode},
        no \in {"agent", "middle", "end", NoNode}}

Link == <<"1", "2", "3", "4", "5", "6", "7">>

\* Graphs that do not compile, a branch to no node, a tool that does not exist, and the longest
\* loop that Guarded admits.
Special ==
    {[nodes |-> <<Node("agent", "agent", "none"), Node("end", "end", "none")>>,
      edges |-> Fan("agent", <<"end">>), max_loops |-> 1],
     [nodes |-> <<Node("start", "start", "none"), Node("agent", "agent", "none")>>,
      edges |-> Fan("start", <<"ghost">>), max_loops |-> 1],
     [nodes |-> <<Node("start", "start", "none"), Node("agent", "agent", "none"),
                  Node("agent", "rag", "none")>>,
      edges |-> Fan("start", <<"agent">>), max_loops |-> 1],
     [nodes |-> <<Node("start", "start", "none"), Node("cond", "condition", "none")>>,
      edges |-> Fan("start", <<"cond">>) \o Branch("ghost", "true"), max_loops |-> 1],
     [nodes |-> <<Node("start", "start", "none"), Node("middle", "tool", "unknown")>>,
      edges |-> Fan("start", <<"middle">>), max_loops |-> 1],
     [nodes |-> <<Node("start", "start", "none"), Node("cond", "condition", "none"),
                  Node("a", "agent", "none")>>
                \o [i \in 1..7 |-> Node(Link[i], "rag", "none")],
      edges |-> Fan("start", <<"cond">>) \o Branch("a", "false") \o Fan("a", <<"1">>)
                \o [i \in 1..6 |-> Edge(Link[i], Link[i + 1], "none")]
                \o Fan("7", <<"cond">>),
      max_loops |-> 4]}

AllMiddleTypes ==
    {<<"tool", "csv_scanner">>, <<"tool", "data_quality">>, <<"human_review", "none">>}
\* Scan for a file until there is one, then let the agent work on it.
Polling ==
    {[nodes |-> <<Node("start", "start", "none"), Node("scan", "tool", "csv_scanner"),
                  Node("cond", "condition", "none"), Node("agent", "agent", "none"),
                  Node("end", "end", "none")>>,
      edges |-> Fan("start", <<"scan">>) \o Fan("scan", <<"cond">>)
                \o Branch("agent", "true") \o Branch("scan", "false")
                \o Fan("agent", <<"end">>),
      max_loops |-> 2]}

\* An agent between start and end: the shape of the data ingestion template.
OneAgent ==
    {[nodes |-> <<Node("start", "start", "none"), Node("agent", "agent", "none"),
                  Node("end", "end", "none")>>,
      edges |-> Fan("start", <<"agent">>) \o Fan("agent", <<"end">>),
      max_loops |-> 2]}

ReviewOnly  == {<<"human_review", "none">>}
AllGraphs   == MCGraphs \cup Special

BothResults == {[text |-> TRUE, condition_result |-> c] : c \in BOOLEAN}
=============================================================================
