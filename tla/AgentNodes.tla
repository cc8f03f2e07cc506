------------------------------ MODULE AgentNodes ------------------------------
(***************************************************************************)
(* The nodes of workflow_runner.py at work: runs that execute their nodes  *)
(* one after the other and share the rate limiter, the table of messages   *)
(* and the agents, which may be deleted meanwhile.  A run uses the agents  *)
(* as they were when it started.  Of the nodes between its agents - tools, *)
(* reviews, retrievals, conditions - the model keeps what they append to   *)
(* the messages, and the tokens that data_profiler spends.                 *)
(***************************************************************************)
EXTENDS RateLimiter, FiniteSets, SequencesExt

CONSTANTS
    Runs,      \* runs, and those of them
    BySlack,   \* that the Slack bot starts
    Plans,     \* run -> the nodes in the order of their execution
    Settings,  \* <<run, agent>> -> the agent's settings when the run starts
    Floor,     \* MESSAGE_LOG_LEVEL
    MaxTurns,  \* max_turns
    MaxFaults  \* bound: commits that fail

\* limit 0: no rate limit.  Levels are ranks: MINIMAL, STANDARD, VERBOSE.
ASSUME SettingsAssumption ==
    Settings \in [Runs \X Agents -> [limit : Limits \cup {0}, restricted : BOOLEAN,
                                    tools : BOOLEAN, level : 0..2]]
\* A node with an agent, and whether its edge leads to another agent node; or the
\* tool data_profiler; or any other node.
PlanNode == [kind : {"agent"}, agent : Agents, direct : BOOLEAN]
                \cup [kind : {"profiler", "other"}]

ASSUME PlansAssumption ==
    \A p \in Plans :
        /\ p \in [Runs -> Seq(PlanNode)]
        /\ \A r \in Runs : \A k \in DOMAIN p[r] :
              p[r][k].kind = "agent" /\ p[r][k].direct
                  => k < Len(p[r]) /\ p[r][k+1].kind = "agent"
ASSUME LevelAssumption == Floor \in 0..2 /\ MaxTurns \in Nat \ {0} /\ MaxFaults \in Nat

VARIABLES
    plan,      \* the runs' plans
    agents,    \* the rows of the table agents
    loaded,    \* agents_map of each run
    node,      \* the node each run executes
    step,      \* how far it is
    turns,     \* history: model calls of each node
    reply,     \* the node's reply: whether a restricted topic occurs, its tokens
    said,      \* state["messages"]: a text is its node, and whether a topic occurs
    usage,     \* state["usage"]["total_tokens"]
    events,    \* history: the usage of each node_complete event, 0 if it has none
    untold,    \* history: tokens each node added to the usage, its event told nothing
    messages,  \* each run's session: for every commit, its rows that are left
    faults

nodeVars == <<plan, agents, loaded, node, step, turns, reply, said, usage, events,
              untold, messages, faults>>

Nodes(r) == 1..Len(plan[r])
Visits   == UNION {{r} \X Nodes(r) : r \in Runs}
NoReply  == [topic |-> FALSE, tokens |-> 0]

NodesInit ==
    /\ plan \in Plans
    /\ agents = Agents
    /\ loaded = [r \in Runs |-> {}]
    /\ node = [r \in Runs |-> 1]
    /\ step = [r \in Runs |-> "new"]
    /\ turns = [r \in Runs |-> [k \in Nodes(r) |-> 0]]
    /\ reply = [r \in Runs |-> NoReply]
    /\ said = [r \in Runs |-> <<>>]
    /\ usage = [r \in Runs |-> 0]
    /\ events = [r \in Runs |-> <<>>]
    /\ untold = [r \in Runs |-> [k \in Nodes(r) |-> 0]]
    /\ messages = [r \in Runs |-> <<>>]
    /\ faults = 0

-----------------------------------------------------------------------------
(* Plausible mistakes, see the definitions they are named after.           *)

\* The guard looks at the first message of the state, not at the last.
InputFirst(r) == IF said[r] = <<>> THEN [by |-> 0, topic |-> FALSE] ELSE Head(said[r])

-----------------------------------------------------------------------------
(* An agent node                                                           *)

Kind(r)  == plan[r][node[r]].kind
Agent(r) == plan[r][node[r]].agent

\* Node k of r is one of agent a's.
Executes(r, k, a) == plan[r][k].kind = "agent" /\ plan[r][k].agent = a

\* agent_obj is None for an agent that was deleted before the run started, or
\* that the Slack bot left out.
Known(r) == Agent(r) \in loaded[r]
Set(r)   == Settings[<<r, Agent(r)>>]

\* history[-1] if history else "Begin."
Input(r) == IF said[r] = <<>> THEN [by |-> 0, topic |-> FALSE] ELSE Last(said[r])

\* _effective_log_level
Level(r) == IF Known(r) /\ Set(r).level > Floor THEN Set(r).level ELSE Floor

Limited(r)    == Known(r) /\ Set(r).limit > 0
Restricted(r) == Known(r) /\ Set(r).restricted
Tools(r)      == Known(r) /\ Set(r).tools

\* destination_ref of the role "agent".
Destination(r) ==
    IF plan[r][node[r]].direct THEN plan[r][node[r] + 1].agent ELSE "display"

Row(role, by, to) == [role |-> role, by |-> by, to |-> to]

\* A mistake: the row "user" is made of the messages with the reply.
RowsLate(r) == {Row("agent", node[r], Destination(r)), Row("user", node[r], "none")}

\* The node's text is written `node[r]`, the system prompt and the tools' outputs -1.
Rows(r) ==
    LET called == turns[r][node[r]] > 0
    IN  {Row("agent", node[r], Destination(r))}
        \cup (IF Level(r) >= 1 THEN {Row("user", Input(r).by, "none")} ELSE {})
        \cup (IF Level(r) = 2 THEN {Row("system", -1, "none")} ELSE {})
        \cup (IF Level(r) = 2 /\ called /\ ~Tools(r)
              THEN {Row("assistant", node[r], "agent")} ELSE {})
        \cup (IF Level(r) = 2 /\ turns[r][node[r]] > 1
              THEN {Row("tool", -1, "agent")} ELSE {})

Commit(k, rows) == [node |-> k, rows |-> rows]

Goto(r, s) == step' = [step EXCEPT ![r] = s]

\* start_run and the scheduler load the agents of the graph, the Slack bot gives
\* the run its own agent only.
Start(r) ==
    /\ step[r] = "new" /\ Goto(r, IF plan[r] = <<>> THEN "done" ELSE "ready")
    /\ \E known \in IF r \in BySlack THEN {{a} : a \in agents} ELSE {agents} :
          loaded' = [loaded EXCEPT ![r] = known]
    /\ UNCHANGED <<vars, plan, agents, node, turns, reply, said, usage, events,
                   untold, messages, faults>>

\* The guardrails, in one step: the rate limit, whose refusal raises, and then the
\* restricted topics, which are answered without the model.
Admit(r) ==
    /\ step[r] = "ready" /\ Kind(r) = "agent"
    /\ IF Limited(r) THEN Check(Agent(r), Set(r).limit) ELSE UNCHANGED vars
    /\ Goto(r, IF Limited(r) /\ accepted' = accepted THEN "failed"
               ELSE IF Restricted(r) /\ Input(r).topic THEN "replied" ELSE "calling")
    /\ reply' = [reply EXCEPT ![r] = NoReply]
    /\ UNCHANGED <<plan, agents, loaded, node, turns, said, usage, events, untold,
                   messages, faults>>

\* A call of the model costs one token.  With tools it is the first or the next turn
\* of the ReAct agent, which calls tools or ends; what is counted then is the usage
\* of the last message, and the one that says there is no turn left has none.
Call(r) ==
    /\ step[r] = "calling" /\ turns[r][node[r]] < MaxTurns
    /\ turns' = [turns EXCEPT ![r][node[r]] = @ + 1]
    /\ \/ Tools(r) /\ UNCHANGED <<step, reply>>
       \/ \E topic \in BOOLEAN, tokens \in IF Tools(r) THEN 0..1 ELSE {1} :
             /\ reply' = [reply EXCEPT ![r] = [topic |-> topic, tokens |-> tokens]]
             /\ Goto(r, "replied")
    /\ UNCHANGED <<vars, plan, agents, loaded, node, said, usage, events, untold,
                   messages, faults>>

\* The model, a tool or another node raises, a review times out, or an agent has no
\* turn left.
Fails(r) ==
    /\ step[r] = "calling" \/ (step[r] = "ready" /\ Kind(r) # "agent")
    /\ Goto(r, "failed")
    /\ UNCHANGED <<vars, plan, agents, loaded, node, turns, reply, said, usage, events,
                   untold, messages, faults>>

\* node_complete.
Announce(r) ==
    /\ step[r] = "replied" /\ Goto(r, "saving")
    /\ events' = [events EXCEPT ![r] = Append(@, reply[r].tokens)]
    /\ UNCHANGED <<vars, plan, agents, loaded, node, turns, reply, said, usage,
                   untold, messages, faults>>

Text(r, topic) == [by |-> node[r], topic |-> topic]

\* A mistake: the usage of the last node, not the sum.
ReturnLastUsage(r, texts, tokens) ==
    /\ said' = [said EXCEPT ![r] = texts]
    /\ usage' = [usage EXCEPT ![r] = tokens]
    /\ node' = [node EXCEPT ![r] = @ + 1]
    /\ Goto(r, IF node[r] = Len(plan[r]) THEN "done" ELSE "ready")

\* The new state of the run: its messages, and its usage, which grows by the tokens.
Return(r, texts, tokens) ==
    /\ said' = [said EXCEPT ![r] = texts]
    /\ usage' = [usage EXCEPT ![r] = @ + tokens]
    /\ node' = [node EXCEPT ![r] = @ + 1]
    /\ Goto(r, IF node[r] = Len(plan[r]) THEN "done" ELSE "ready")

\* The rows are written in one transaction.  One that fails, as it does for an agent
\* that is not there any more, is only logged.
Save(r) ==
    /\ step[r] = "saving"
    /\ \/ /\ Agent(r) \in agents
          /\ messages' = [messages EXCEPT ![r] = Append(@, Commit(node[r], Rows(r)))]
          /\ UNCHANGED faults
       \/ /\ Agent(r) \in agents /\ faults < MaxFaults /\ faults' = faults + 1
          /\ UNCHANGED messages
       \/ Agent(r) \notin agents /\ UNCHANGED <<messages, faults>>
    /\ Return(r, Append(said[r], Text(r, reply[r].topic)), reply[r].tokens)
    /\ UNCHANGED <<vars, plan, agents, loaded, turns, reply, events, untold>>

-----------------------------------------------------------------------------
(* The other nodes                                                         *)

\* What the messages may be after a node that is not an agent's: most tools, the
\* review and the retrieval append one text, a condition none.
Appended(r) == {said[r]} \cup {Append(said[r], Text(r, topic)) : topic \in BOOLEAN}

\* A tool, review, retrieval or condition, from start to end.
Pass(r) ==
    /\ step[r] = "ready" /\ Kind(r) = "other"
    /\ \E texts \in Appended(r) : Return(r, texts, 0)
    /\ events' = [events EXCEPT ![r] = Append(@, 0)]
    /\ UNCHANGED <<vars, plan, agents, loaded, turns, reply, untold, messages, faults>>

\* data_profiler leaves the state alone if no records were cleaned.  Otherwise it asks
\* the model, behind no guard, and adds the tokens to the usage, none if the call
\* failed; but the event of a tool node tells no usage.
Profile(r) ==
    /\ step[r] = "ready" /\ Kind(r) = "profiler"
    /\ \/ Return(r, said[r], 0) /\ UNCHANGED <<turns, untold>>
       \/ \E topic \in BOOLEAN, tokens \in 0..1 :
             /\ Return(r, Append(said[r], Text(r, topic)), tokens)
             /\ turns' = [turns EXCEPT ![r][node[r]] = 1]
             /\ untold' = [untold EXCEPT ![r][node[r]] = tokens]
    /\ events' = [events EXCEPT ![r] = Append(@, 0)]
    /\ UNCHANGED <<vars, plan, agents, loaded, reply, messages, faults>>

\* delete_agent; the agent's messages are deleted with it.
DeleteAgent(a) ==
    /\ a \in agents /\ agents' = agents \ {a}
    /\ messages' = [r \in Runs |-> [i \in DOMAIN messages[r] |->
                      LET m == messages[r][i]
                      IN  IF Executes(r, m.node, a) THEN Commit(m.node, {}) ELSE m]]
    /\ UNCHANGED <<vars, plan, loaded, node, step, turns, reply, said, usage, events,
                   untold, faults>>

NodesNext ==
    \/ \E r \in Runs :
          \/ Start(r)
          \/ Admit(r) \/ Call(r) \/ Announce(r) \/ Save(r)
          \/ Pass(r) \/ Profile(r)
          \/ Fails(r)
    \/ \E a \in Agents : DeleteAgent(a)

\* The runs, the clock, and other runs that call the same agents.
NodesSpec ==
    /\ Init /\ NodesInit
    /\ [][NodesNext \/ (Next /\ UNCHANGED nodeVars)]_<<vars, nodeVars>>

-----------------------------------------------------------------------------
(* Properties                                                              *)

\* The nodes that called the model for agent a under a rate limit.
Charged(a) ==
    {x \in Visits :
        LET r == x[1]
            k == x[2]
        IN  /\ turns[r][k] > 0 /\ Executes(r, k, a)
            /\ a \in loaded[r] /\ Settings[<<r, a>>].limit > 0}

\* The place of the last text that was said before node k, if there is one.
LastBefore(r, k) ==
    {i \in DOMAIN said[r] :
        /\ said[r][i].by < k
        /\ \A j \in DOMAIN said[r] : j > i => said[r][j].by >= k}

\* An agent calls the model only if the last text before it, whatever node said it,
\* has no restricted topic; and if the agent has a rate limit, no more of its nodes
\* call the model than the limiter accepted.
GuardsPrecedeCalls ==
    /\ \A r \in Runs : \A k \in Nodes(r), a \in loaded[r] :
          turns[r][k] > 0 /\ Executes(r, k, a) /\ Settings[<<r, a>>].restricted
              => \A i \in LastBefore(r, k) : ~said[r][i].topic
    /\ \A a \in Agents : Cardinality(Charged(a)) <= Len(accepted[a])

\* s[1] + ... + s[n].
Total(s, n) ==
    LET sum[i \in 0..n] == IF i = 0 THEN 0 ELSE sum[i-1] + s[i]
    IN  sum[n]

\* Node k of r is of an agent with tools.
HasTools(r, k) ==
    \E a \in loaded[r] : Executes(r, k, a) /\ Settings[<<r, a>>].tools

\* The usage of a run is what its node_complete events told, one per node, and what
\* data_profiler added without telling.  No node counts more than its model calls
\* cost.  An agent with tools may count less, for only its last turn is counted, and
\* a profiler whose call failed; every other agent counts all of them.
UsageAddsUp ==
    \A r \in Runs :
        LET over == node[r] - 1
        IN  /\ Len(events[r]) = IF step[r] = "saving" THEN node[r] ELSE over
            /\ usage[r] = Total(events[r], over) + Total(untold[r], over)
            /\ \A k \in 1..over :
                  /\ events[r][k] + untold[r][k] <= turns[r][k]
                  /\ plan[r][k].kind # "agent" => events[r][k] = 0
                  /\ plan[r][k].kind # "profiler" => untold[r][k] = 0
                  /\ plan[r][k].kind # "profiler" /\ ~HasTools(r, k)
                        => events[r][k] = turns[r][k]

\* Agent nodes of r that are over and have no row, though their agent is still there.
Missing(r) ==
    {k \in 1..node[r]-1 :
        /\ \E a \in agents : Executes(r, k, a)
        /\ \A i \in DOMAIN messages[r] : messages[r][i].node = k => messages[r][i].rows = {}}

\* Row `row` of node k has the right source: what its user said is the last text that
\* any node said before, and what its agent said is its own text.
Sourced(r, row, k) ==
    /\ row.role = "user" =>
         /\ LastBefore(r, k) = {} => row.by = 0
         /\ \A i \in LastBefore(r, k) : row.by = said[r][i].by
    /\ row.role \in {"agent", "assistant"} => row.by = k

\* The session of a run is its transcript: in the order of the nodes, each commit is
\* of another agent node that is over, and its rows have the right sources.  The
\* agent nodes that are missing have lost their agent or met a failed commit.
TranscriptFollowsRun ==
    \A r \in Runs :
        LET m == messages[r]
        IN  /\ \A i, j \in DOMAIN m : i < j => m[i].node < m[j].node
            /\ \A i \in DOMAIN m :
                  /\ m[i].node < node[r] /\ plan[r][m[i].node].kind = "agent"
                  /\ \A row \in m[i].rows : Sourced(r, row, m[i].node)
            /\ Cardinality(Missing(r)) <= faults
=============================================================================
