----------------------------- MODULE MCAgentNodes -----------------------------
(* Runs of two agents and nodes of other kinds, or the calls of any number *)
(* of runs on the limiter.                                                 *)
EXTENDS AgentNodes

CONSTANTS r1, r2, a1, a2

Node(a, direct) == [kind |-> "agent", agent |-> a, direct |-> direct]
Other    == [kind |-> "other"]
Profiler == [kind |-> "profiler"]

\* Two runs that share a1, one with a tool between its agents as in portfolio_reco;
\* a run that profiles and loops over a1; one that starts with a retrieval; none.
MCPlans ==
    {(r1 :> <<Node(a1, FALSE), Other, Node(a2, FALSE)>> @@ r2 :> <<Node(a1, FALSE)>>),
     (r1 :> <<>> @@ r2 :> <<Node(a1, FALSE), Profiler, Node(a1, FALSE)>>),
     (r1 :> <<>> @@ r2 :> <<Other, Node(a1, TRUE), Node(a2, FALSE)>>),
     (r1 :> <<>> @@ r2 :> <<>>)}

\* The limit of a1 was raised before r2 started, a2 was given one.
MCSettings ==
    (<<r1, a1>> :> [limit |-> 1, restricted |-> FALSE, tools |-> FALSE, level |-> 0]
  @@ <<r1, a2>> :> [limit |-> 0, restricted |-> TRUE, tools |-> FALSE, level |-> 2]
  @@ <<r2, a1>> :> [limit |-> 2, restricted |-> TRUE, tools |-> TRUE, level |-> 2]
  @@ <<r2, a2>> :> [limit |-> 1, restricted |-> TRUE, tools |-> FALSE, level |-> 0])

\* The clock of the runs goes just beyond a window.
MCTicks == 3

Unplanned == \A r \in Runs : plan[r] = <<>>

MCInit == Init /\ NodesInit

MCNext ==
    \/ Unplanned /\ (Tick \/ \E limit \in Limits : Check(a1, limit)) /\ UNCHANGED nodeVars
    \/ ~Unplanned /\ now < MCTicks /\ Tick /\ UNCHANGED nodeVars
    \/ ~Unplanned /\ NodesNext

MCSpec == MCInit /\ [][MCNext]_<<vars, nodeVars>>
=============================================================================
