------------------------- MODULE GraphExecutionProofs -------------------------
(***************************************************************************)
(* Proofs about GraphExecution, for any graphs and inputs: the type        *)
(* invariant, that the loop budget counts the agents' executions, that a   *)
(* run that completes was sequential, and that the loop guard ends the     *)
(* loops of a guarded graph.                                               *)
(***************************************************************************)
EXTENDS GraphExecution, FiniteSetTheorems, WellFoundedInduction, TLAPS

IsAgent(n) == TypeOf(graph, n) = "agent"

\* Whether n has been executed in this superstep.
Now(n) == IF n \in DOMAIN returned THEN 1 ELSE 0

\* What is true in each phase of run_workflow.
PhaseOK ==
    /\ phase \in {"running", "completed"} => Compiles(graph)
    /\ phase \in {"compiling", "completed"} => active = {}
    /\ phase = "compiling" =>
          /\ supersteps = 0 /\ state.loop_count = 0 /\ error = "none"
          /\ executed = [nodes |-> 0, agents |-> 0]
          /\ \A n \in Ids(graph) : times[n] = 0

\* With at most one active node, every execution has been counted: as a superstep,
\* and an agent's in loop_count.
SequentialOK ==
    /\ active = {} => executed.nodes = supersteps /\ executed.agents = state.loop_count
    /\ \A n : active = {n} =>
          /\ executed.nodes = supersteps + Now(n)
          /\ executed.agents = state.loop_count + IF IsAgent(n) THEN Now(n) ELSE 0

\* Each node of S has a successor in S, or is followed by the active nodes.
Path(S) == \A n \in S : Follows(graph, n) \cap S # {} \/ active \subseteq Follows(graph, n)

\* The same when condition_result is TRUE.
ForcedPath(S) ==
    \A n \in S : \/ Successors(graph, n, TRUE) \cap S # {}
                 \/ active \subseteq Successors(graph, n, TRUE)

In(n, S) == IF n \in S THEN 1 ELSE 0

\* all: nodes that have been executed; since: those since the last agent, as long
\* as loop_count is below max_loops; out: those since it has reached max_loops.
Trail(all, since, out) ==
    LET c == state.loop_count
        limit == graph.max_loops
    IN  /\ since \cap AgentsOf(graph) = {} /\ out \subseteq all
        /\ Path(all) /\ Path(since)
        /\ c < limit =>
              /\ supersteps <= 10 * c + Cardinality(since)
              /\ \A n \in Ids(graph) : times[n] <= c + In(n, since) + Now(n)
        /\ c >= limit =>
              /\ supersteps <= 10 * limit + Cardinality(out)
              /\ \A n \in Ids(graph) : times[n] <= limit + In(n, out) + Now(n)
              /\ all \cap ScannersOf(graph) = {} => ForcedPath(out) /\ state.condition_result

GuardOK ==
    Guarded(graph) =>
        /\ error # "recursion"
        /\ \A n \in Ids(graph) : times[n] <= graph.max_loops + 1
        /\ phase = "running" => \E all, since, out \in SUBSET Ids(graph) : Trail(all, since, out)

IInv ==
    /\ TypeOK
    /\ \A n \in DOMAIN returned : returned[n] \in Returns(graph, n, state)
    /\ PhaseOK
    /\ phase # "failed" => SequentialOK
    /\ GuardOK

-----------------------------------------------------------------------------
(* The graph                                                               *)

\* A nonempty set of natural numbers has a least element.
LEMMA LeastIsMember ==
    ASSUME NEW S \in SUBSET Nat, S # {}
    PROVE  Min(S) \in S
<1>. DEFINE R == OpToRel(<, Nat)
<1>1. \E x \in S : \A y \in S : ~ (<<y, x>> \in R)
    <2>1. IsWellFoundedOn(R, Nat)  BY NatLessThanWellFounded
    <2>. HIDE DEF R
    <2>. QED  BY <2>1, WFMin
<1>2. \A x, y \in S : y < x => <<y, x>> \in R
    BY DEF OpToRel
<1>. HIDE DEF R
<1>3. PICK x \in S : \A y \in S : ~ (<<y, x>> \in R)
    BY <1>1
<1>4. \A y \in S : ~(y < x)
    BY <1>2, <1>3
<1>5. \E z \in S : \A y \in S : z <= y
    BY <1>4
<1>. QED  BY <1>5 DEF Min

\* The entry of a graph that compiles is a node.
LEMMA EntryIsNode ==
    ASSUME NEW g \in Graphs, Compiles(g)
    PROVE  Entry(g) \in Ids(g)
<1>. DEFINE IsStart(n) == n.type = "start"
            I == {i \in 1..Len(g.nodes) : g.nodes[i].type = "start"}
            k == IF I # {} THEN Min(I) ELSE 0
<1>1. DOMAIN g.nodes = 1..Len(g.nodes) /\ Len(g.nodes) \in Nat
    BY GraphsAssumption
<1>2. Entry(g) = IF k = 0 THEN NoNode ELSE g.nodes[k].id
    BY DEF Entry, SelectInSeq
<1>3. k # 0 => k \in I
    <2>1. I \in SUBSET Nat
        OBVIOUS
    <2>. HIDE DEF I
    <2>. QED  BY <2>1, LeastIsMember
<1>. HIDE DEF k
<1>. QED  BY <1>1, <1>2, <1>3 DEF Compiles, Ids

LEMMA IdsFinite == ASSUME NEW g \in Graphs PROVE IsFiniteSet(Ids(g))
<1>. DEFINE f == [i \in 1..Len(g.nodes) |-> g.nodes[i].id]
<1>1. DOMAIN g.nodes = 1..Len(g.nodes) /\ Len(g.nodes) \in Nat
    BY GraphsAssumption
<1>2. IsFiniteSet(1..Len(g.nodes))
    BY <1>1, FS_Interval
<1>3. f \in Surjection(1..Len(g.nodes), Ids(g))
    BY <1>1 DEF Surjection, Ids
<1>. QED  BY <1>2, <1>3, FS_Surjection

\* What a node function does to loop_count and condition_result.
LEMMA ReturnsType ==
    ASSUME TypeOK, NEW n \in Ids(graph), NEW s \in States, NEW r \in Returns(graph, n, s)
    PROVE  /\ r \in States
           /\ r.loop_count = s.loop_count + IF IsAgent(n) THEN 1 ELSE 0
           /\ IsAgent(n) /\ r.loop_count >= graph.max_loops => r.condition_result
           /\ n \notin ScannersOf(graph) /\ s.condition_result => r.condition_result
<1>1. /\ graph.max_loops \in Nat
      /\ s.last \in Ids(graph) \cup {NoNode} /\ s.loop_count \in Nat /\ s.condition_result \in BOOLEAN
    BY GraphsAssumption DEF TypeOK, States
<1>2. CASE IsAgent(n)
    <2>. DEFINE b == s.loop_count + 1 >= graph.max_loops \/ s.condition_result
    <2>1. b \in BOOLEAN
        BY <1>1
    <2>2. r = [last |-> n, loop_count |-> s.loop_count + 1, condition_result |-> b]
        BY <1>2 DEF IsAgent, Returns, AgentReturns
    <2>3. s.loop_count + 1 >= graph.max_loops => b
        OBVIOUS
    <2>4. s.condition_result => b
        OBVIOUS
    <2>. HIDE DEF b
    <2>5. /\ r \in States /\ r.loop_count = s.loop_count + 1
          /\ r.condition_result = b
        BY <1>1, <2>1, <2>2 DEF States
    <2>. QED  BY <1>1, <1>2, <2>3, <2>4, <2>5
<1>3. CASE TypeOf(graph, n) = "tool"
    <2>1. PICK last \in {s.last, n}, b \in BOOLEAN :
              /\ r = [s EXCEPT !.last = last, !.condition_result = b]
              /\ b = s.condition_result \/ NodeOf(graph, n).tool = "csv_scanner"
        <3>1. r \in ToolReturns(graph, n, s)
            BY <1>3 DEF Returns
        <3>2. s = [s EXCEPT !.last = s.last, !.condition_result = s.condition_result]
            BY DEF States
        <3>3. /\ [s EXCEPT !.last = n] = [s EXCEPT !.last = n, !.condition_result = s.condition_result]
              /\ [s EXCEPT !.condition_result = FALSE]
                    = [s EXCEPT !.last = s.last, !.condition_result = FALSE]
            BY DEF States
        <3>. QED  BY <1>1, <3>1, <3>2, <3>3 DEF ToolReturns
    <2>2. r \in States /\ r.loop_count = s.loop_count /\ r.condition_result = b
        BY <1>1, <2>1 DEF States
    <2>. QED  BY <1>1, <1>3, <2>1, <2>2 DEF IsAgent, ScannersOf
<1>4. CASE TypeOf(graph, n) \in {"human_review", "rag"}
    BY <1>1, <1>4 DEF IsAgent, Returns, ReviewReturns, RagReturns, States
<1>5. CASE TypeOf(graph, n) \notin {"agent", "tool", "human_review", "rag"}
    BY <1>1, <1>5 DEF IsAgent, Returns, States
<1>. QED  BY <1>2, <1>3, <1>4, <1>5 DEF IsAgent

-----------------------------------------------------------------------------
(* The loop guard                                                          *)

\* A graph that is guarded has no cycle without an agent, none with a scanner, and
\* none that condition_result leaves closed.
LEMMA NoCycle ==
    ASSUME TypeOK, Guarded(graph), NEW S \in SUBSET Ids(graph), S # {}
    PROVE  /\ \E n \in S : Successors(graph, n, TRUE) \cap S = {}
           /\ (\A n \in S : Follows(graph, n) \cap S # {}) =>
                 S \cap AgentsOf(graph) # {} /\ S \cap ScannersOf(graph) = {}
BY DEF Guarded

\* An active node has not been executed since the last agent, nor, when loop_count
\* has reached max_loops, since then.
LEMMA ActiveIsFresh ==
    ASSUME TypeOK, Guarded(graph), NEW n \in active,
           NEW all \in SUBSET Ids(graph), NEW since \in SUBSET Ids(graph),
           NEW out \in SUBSET Ids(graph), Trail(all, since, out)
    PROVE  /\ n \notin since
           /\ state.loop_count >= graph.max_loops => n \notin out
<1>1. ASSUME NEW S, Path(S), n \in S
      PROVE  \A m \in S : Follows(graph, m) \cap S # {}
    BY <1>1 DEF Path
<1>2. n \notin since
    <2>. SUFFICES ASSUME n \in since PROVE FALSE
        OBVIOUS
    <2>1. \A m \in since : Follows(graph, m) \cap since # {}
        BY <1>1 DEF Trail
    <2>. QED  BY <2>1, NoCycle DEF Trail
<1>3. ASSUME state.loop_count >= graph.max_loops, n \in out
      PROVE  FALSE
    <2>1. n \in all /\ Path(all)
        BY <1>3 DEF Trail
    <2>2. all \cap ScannersOf(graph) = {}
        BY <1>1, <2>1, NoCycle
    <2>3. \A m \in out : Successors(graph, m, TRUE) \cap out # {}
        BY <1>3, <2>2 DEF Trail, ForcedPath
    <2>. QED  BY <1>3, <2>3, NoCycle
<1>. QED  BY <1>2, <1>3

\* So a node that is executed stays within its bound, and so does the number of
\* supersteps.
LEMMA TrailBounds ==
    ASSUME TypeOK, Guarded(graph),
           NEW all \in SUBSET Ids(graph), NEW since \in SUBSET Ids(graph),
           NEW out \in SUBSET Ids(graph), Trail(all, since, out)
    PROVE  /\ \A n \in active \ DOMAIN returned : times[n] + 1 <= graph.max_loops + 1
           /\ supersteps < RecursionLimit(graph)
<1>. DEFINE c == state.loop_count
            limit == graph.max_loops
<1>1. /\ c \in Nat /\ limit \in Nat /\ supersteps \in Nat /\ times \in [Ids(graph) -> Nat]
      /\ active \subseteq Ids(graph) /\ Cardinality(Ids(graph)) <= 10
    BY GraphsAssumption DEF TypeOK, States, Guarded
<1>2. \A S \in SUBSET Ids(graph) : Cardinality(S) \in Nat /\ Cardinality(S) <= 10
    BY <1>1, IdsFinite, FS_Subset, FS_CardinalityType DEF TypeOK
<1>3. ASSUME NEW n \in active \ DOMAIN returned
      PROVE  times[n] + 1 <= limit + 1
    <2>1. n \notin since /\ (c >= limit => n \notin out)
        BY ActiveIsFresh
    <2>. QED  BY <1>1, <2>1 DEF Trail, In, Now
<1>4. supersteps < limit * 10 + 20
    <2>1. Cardinality(since) <= 10 /\ Cardinality(out) <= 10
        BY <1>2
    <2>2. Cardinality(since) \in Nat /\ Cardinality(out) \in Nat
        BY <1>2
    <2>3. CASE c < limit
        BY <1>1, <2>1, <2>2, <2>3 DEF Trail
    <2>4. CASE c >= limit
        BY <1>1, <2>1, <2>2, <2>4 DEF Trail
    <2>. QED  BY <1>1, <2>3, <2>4
<1>. QED  BY <1>3, <1>4 DEF RecursionLimit

\* What a run that ends, or fails, leaves of GuardOK.
LEMMA GuardKept ==
    ASSUME GuardOK, phase' # "running", error' # "recursion", UNCHANGED <<graph, times>>
    PROVE  GuardOK'
BY DEF GuardOK

-----------------------------------------------------------------------------
(* The steps of run_workflow                                               *)

LEMMA InitIInv == ASSUME Init PROVE IInv
<1>. USE DEF Init
<1>1. TypeOK
    <2>1. state \in States
        BY InputsAssumption DEF InitialState, States
    <2>2. DOMAIN returned = {}
        OBVIOUS
    <2>3. executed \in [nodes : Nat, agents : Nat]
        OBVIOUS
    <2>4. times \in [Ids(graph) -> Nat]
        OBVIOUS
    <2>. QED  BY <2>1, <2>2, <2>3, <2>4 DEF TypeOK
<1>2. PhaseOK /\ SequentialOK
    BY DEF PhaseOK, SequentialOK, InitialState
<1>3. GuardOK
    BY GraphsAssumption DEF GuardOK
<1>. QED  BY <1>1, <1>2, <1>3 DEF IInv

LEMMA CompileFailsIInv == ASSUME IInv, CompileFails PROVE IInv'
<1>1. /\ phase' = "failed" /\ error' = "compile"
      /\ UNCHANGED <<graph, input, active, returned, supersteps, state, times, executed, prompt>>
    BY DEF CompileFails, Fail, history
<1>2. TypeOK'
    BY <1>1 DEF IInv, TypeOK, States
<1>3. GuardOK'
    BY <1>1, GuardKept DEF IInv
<1>. QED  BY <1>1, <1>2, <1>3 DEF IInv, PhaseOK

LEMMA InvokeIInv == ASSUME IInv, Invoke PROVE IInv'
<1>1. /\ phase = "compiling" /\ phase' = "running" /\ Compiles(graph)
      /\ active' = {Entry(graph)}
      /\ UNCHANGED <<graph, input, error, returned, supersteps, state, times, executed, prompt>>
    BY DEF Invoke, history
<1>2. /\ supersteps = 0 /\ state.loop_count = 0 /\ error = "none"
      /\ executed = [nodes |-> 0, agents |-> 0]
      /\ \A n \in Ids(graph) : times[n] = 0
      /\ DOMAIN returned = {}
    BY <1>1 DEF IInv, PhaseOK, TypeOK
<1>3. TypeOK'
    BY <1>1, <1>2, EntryIsNode DEF IInv, TypeOK, States
<1>4. PhaseOK' /\ SequentialOK'
    BY <1>1, <1>2 DEF PhaseOK, SequentialOK, Now
<1>5. GuardOK'
    <2>1. Guarded(graph) => graph.max_loops > 0 /\ graph.max_loops \in Nat
        BY GraphsAssumption DEF Guarded, IInv, TypeOK
    <2>2. Guarded(graph) => Trail({}, {}, {})'
        BY <1>1, <1>2, <2>1, FS_EmptySet DEF Trail, Path, ForcedPath, In, Now
    <2>. QED  BY <1>1, <1>2, <2>1, <2>2 DEF GuardOK
<1>. QED  BY <1>1, <1>2, <1>3, <1>4, <1>5 DEF IInv

\* What is noted keeps its type.
LEMMA NoteType ==
    ASSUME TypeOK, NEW n \in Ids(graph), Note(n)
    PROVE  /\ times' \in [Ids(graph) -> Nat] /\ executed' \in [nodes : Nat, agents : Nat]
           /\ prompt' \in Ids(graph) \cup {NoNode, Begin}
           /\ times'[n] = times[n] + 1
           /\ \A m \in Ids(graph) \ {n} : times'[m] = times[m]
           /\ executed'.nodes = executed.nodes + 1
           /\ executed'.agents = executed.agents + IF IsAgent(n) THEN 1 ELSE 0
<1>1. executed.nodes \in Nat /\ executed.agents \in Nat
    BY DEF TypeOK
<1>2. executed' = [nodes |-> executed.nodes + 1,
                   agents |-> executed.agents + IF IsAgent(n) THEN 1 ELSE 0]
    BY DEF Note, IsAgent
<1>3. /\ times' \in [Ids(graph) -> Nat] /\ times'[n] = times[n] + 1
      /\ \A m \in Ids(graph) \ {n} : times'[m] = times[m]
    BY DEF TypeOK, Note
<1>4. prompt' \in Ids(graph) \cup {NoNode, Begin}
    BY DEF TypeOK, States, Note, UserInput
<1>. QED  BY <1>1, <1>2, <1>3, <1>4

LEMMA NodeReturnsIInv == ASSUME IInv, NEW n \in active, NodeReturns(n) PROVE IInv'
<1>1. PICK s \in Returns(graph, n, state) :
          returned' = [m \in DOMAIN returned \cup {n} |-> IF m = n THEN s ELSE returned[m]]
    BY DEF NodeReturns
<1>2. /\ phase = "running" /\ n \notin DOMAIN returned /\ n \in Ids(graph) /\ Note(n)
      /\ UNCHANGED <<graph, input, phase, error, active, supersteps, state>>
    BY DEF NodeReturns, Executing, IInv, TypeOK
<1>3. /\ DOMAIN returned' = DOMAIN returned \cup {n} /\ returned'[n] = s
      /\ \A m \in DOMAIN returned : returned'[m] = returned[m]
    BY <1>1, <1>2
<1>4. TypeOK'
    BY <1>2, <1>3, NoteType, ReturnsType DEF IInv, TypeOK, States
<1>5. \A m \in DOMAIN returned' : returned'[m] \in Returns(graph', m, state')
    BY <1>2, <1>3 DEF IInv
<1>6. PhaseOK' /\ SequentialOK'
    <2>1. PhaseOK'
        BY <1>2 DEF IInv, PhaseOK
    <2>2. active' # {}
        BY <1>2
    <2>3. ASSUME NEW x, active' = {x}
          PROVE  /\ executed'.nodes = supersteps' + Now(x)'
                 /\ executed'.agents = state'.loop_count + IF IsAgent(x)' THEN Now(x)' ELSE 0
        <3>1. x = n /\ active = {n} /\ DOMAIN returned = {} /\ DOMAIN returned' = {n}
            BY <1>2, <1>3, <2>3 DEF IInv, TypeOK
        <3>2. state.loop_count \in Nat /\ supersteps \in Nat /\ Now(n) = 0 /\ Now(n)' = 1
            BY <3>1 DEF IInv, TypeOK, States, Now
        <3>3. /\ executed.nodes = supersteps + Now(n)
              /\ executed.agents = state.loop_count + IF IsAgent(n) THEN Now(n) ELSE 0
            BY <1>2, <3>1 DEF IInv, SequentialOK
        <3>4. executed.nodes = supersteps /\ executed.agents = state.loop_count
            BY <3>2, <3>3
        <3>. QED  BY <1>2, <3>1, <3>2, <3>4, NoteType DEF IInv, IsAgent
    <2>. QED  BY <2>1, <2>2, <2>3 DEF SequentialOK
<1>7. GuardOK'
    <2>. SUFFICES ASSUME Guarded(graph)
                  PROVE  /\ error' # "recursion"
                         /\ \A m \in Ids(graph) : times'[m] <= graph.max_loops + 1
                         /\ \E all, since, out \in SUBSET Ids(graph) : Trail(all, since, out)'
        BY <1>2 DEF GuardOK
    <2>1. PICK all, since, out \in SUBSET Ids(graph) : Trail(all, since, out)
        BY <1>2 DEF IInv, GuardOK
    <2>2. \A m \in Ids(graph) : times'[m] <= graph.max_loops + 1
        BY <1>2, <2>1, NoteType, TrailBounds DEF IInv, GuardOK
    <2>3. /\ Path(all)' <=> Path(all)
          /\ Path(since)' <=> Path(since)
          /\ ForcedPath(out)' <=> ForcedPath(out)
        BY <1>2 DEF Path, ForcedPath
    <2>4. ASSUME NEW m \in Ids(graph), NEW k \in Nat, times[m] <= k + Now(m)
          PROVE  times'[m] <= k + Now(m)'
        <3>1. times[m] \in Nat
            BY DEF IInv, TypeOK
        <3>. QED  BY <1>2, <1>3, <2>4, <3>1, NoteType DEF IInv, Now
    <2>5. /\ state.loop_count \in Nat /\ graph.max_loops \in Nat
          /\ \A m \in Ids(graph), S \in SUBSET Ids(graph) : In(m, S) \in Nat
        BY GraphsAssumption DEF IInv, TypeOK, States, In
    <2>6. Trail(all, since, out)'
        <3>1. state.loop_count < graph.max_loops =>
                  \A m \in Ids(graph) : times'[m] <= state.loop_count + In(m, since) + Now(m)'
            BY <2>1, <2>4, <2>5 DEF Trail
        <3>2. state.loop_count >= graph.max_loops =>
                  \A m \in Ids(graph) : times'[m] <= graph.max_loops + In(m, out) + Now(m)'
            BY <2>1, <2>4, <2>5 DEF Trail
        <3>. QED  BY <1>2, <2>1, <2>3, <3>1, <3>2 DEF Trail, In
    <2>. QED  BY <1>2, <2>2, <2>6 DEF IInv, GuardOK
<1>. QED  BY <1>2, <1>4, <1>5, <1>6, <1>7 DEF IInv

LEMMA NodeRaisesIInv == ASSUME IInv, NEW n \in active, NodeRaises(n) PROVE IInv'
<1>1. /\ phase = "running" /\ n \notin DOMAIN returned /\ n \in Ids(graph) /\ Note(n)
      /\ phase' = "failed" /\ error' = "node"
      /\ UNCHANGED <<graph, input, active, returned, supersteps, state>>
    BY DEF NodeRaises, Executing, Fail, IInv, TypeOK
<1>2. TypeOK'
    BY <1>1, NoteType DEF IInv, TypeOK, States
<1>3. GuardOK'
    <2>. SUFFICES ASSUME Guarded(graph)
                  PROVE  \A m \in Ids(graph) : times'[m] <= graph.max_loops + 1
        BY <1>1 DEF GuardOK
    <2>1. PICK all, since, out \in SUBSET Ids(graph) : Trail(all, since, out)
        BY <1>1 DEF IInv, GuardOK
    <2>. QED  BY <1>1, <2>1, NoteType, TrailBounds DEF IInv, GuardOK
<1>. QED  BY <1>1, <1>2, <1>3 DEF IInv, PhaseOK

\* The one active node ends its superstep: the sets grow by it, or begin anew.
LEMMA OneWriterTrail ==
    ASSUME IInv, Guarded(graph), OneWriter, NEW n \in active, active = {n},
           DOMAIN returned = {n}, state' = returned[n], DOMAIN returned' = {},
           active' = Successors(graph, n, returned[n].condition_result),
           supersteps' = supersteps + 1, UNCHANGED <<graph, times>>,
           NEW all \in SUBSET Ids(graph), NEW since \in SUBSET Ids(graph),
           NEW out \in SUBSET Ids(graph), Trail(all, since, out)
    PROVE  \E a, s, o \in SUBSET Ids(graph) : Trail(a, s, o)'
<1>. DEFINE c == state.loop_count
            limit == graph.max_loops
            r == returned[n]
<1>1. /\ c \in Nat /\ limit \in Nat /\ limit > 0 /\ supersteps \in Nat /\ n \in Ids(graph)
      /\ times \in [Ids(graph) -> Nat] /\ state \in States /\ Cardinality(Ids(graph)) <= 10
    BY GraphsAssumption DEF IInv, TypeOK, States, Guarded
<1>2. /\ r \in States
      /\ r.loop_count = c + IF IsAgent(n) THEN 1 ELSE 0
      /\ IsAgent(n) /\ r.loop_count >= limit => r.condition_result
      /\ n \notin ScannersOf(graph) /\ state.condition_result => r.condition_result
    BY <1>1, ReturnsType DEF IInv
<1>3. n \notin since /\ (c >= limit => n \notin out)
    BY ActiveIsFresh DEF IInv
<1>4. \A S \in SUBSET Ids(graph) :
          /\ Cardinality(S) \in Nat
          /\ n \notin S => Cardinality(S \cup {n}) = Cardinality(S) + 1 /\ Cardinality(S) + 1 <= 10
    <2>. SUFFICES ASSUME NEW S \in SUBSET Ids(graph)
                  PROVE  /\ Cardinality(S) \in Nat
                         /\ n \notin S => /\ Cardinality(S \cup {n}) = Cardinality(S) + 1
                                          /\ Cardinality(S) + 1 <= 10
        OBVIOUS
    <2>1. IsFiniteSet(Ids(graph)) /\ IsFiniteSet(S) /\ IsFiniteSet(S \cup {n})
        BY <1>1, IdsFinite, FS_Subset DEF IInv, TypeOK
    <2>2. Cardinality(S) \in Nat /\ Cardinality(Ids(graph)) \in Nat
        BY <2>1, FS_CardinalityType
    <2>3. n \notin S => Cardinality(S \cup {n}) = Cardinality(S) + 1
        BY <2>1, FS_AddElement
    <2>4. Cardinality(S \cup {n}) <= Cardinality(Ids(graph))
        BY <1>1, <2>1, FS_Subset
    <2>. QED  BY <1>1, <2>2, <2>3, <2>4
<1>5. active' \subseteq Follows(graph, n) /\ (r.condition_result => active' = Successors(graph, n, TRUE))
    BY <1>2 DEF Follows, States
<1>6. PICK a, s, o \in SUBSET Ids(graph) :
          /\ a = all \cup {n}
          /\ s = IF IsAgent(n) THEN {} ELSE since \cup {n}
          /\ o = IF c >= limit THEN out \cup {n} ELSE {}
    BY <1>1
<1>. SUFFICES Trail(a, s, o)'
    OBVIOUS
<1>7. /\ s \cap AgentsOf(graph) = {} /\ o \subseteq a
      /\ Path(a)' /\ Path(s)'
    <2>1. ASSUME NEW S, Path(S)
          PROVE  \A m \in S \cup {n} : \/ Follows(graph, m) \cap (S \cup {n}) # {}
                                       \/ active' \subseteq Follows(graph, m)
        BY <1>5, <2>1 DEF Path
    <2>2. Path(a)'
        BY <1>6, <2>1 DEF Path, Trail
    <2>3. Path(s)'
        BY <1>6, <2>1 DEF Path, Trail
    <2>. QED  BY <1>6, <2>2, <2>3 DEF Trail, IsAgent, AgentsOf
<1>8. \A m \in Ids(graph) : /\ Now(m) = In(m, {n}) /\ Now(m)' = 0 /\ times[m] \in Nat
                           /\ \A S \in SUBSET Ids(graph) : In(m, S) \in 0..1
    BY <1>1 DEF Now, In
<1>9. /\ Cardinality(since) \in Nat /\ Cardinality(since) + 1 <= 10
       /\ Cardinality(since \cup {n}) = Cardinality(since) + 1
       /\ Cardinality({}) = 0
    BY <1>3, <1>4, FS_EmptySet
<1>10. state'.loop_count = r.loop_count /\ state'.condition_result = r.condition_result
    OBVIOUS
<1>11. CASE c < limit
    <2>1. /\ supersteps <= 10 * c + Cardinality(since)
          /\ \A m \in Ids(graph) : times[m] <= c + In(m, since) + In(m, {n})
        BY <1>8, <1>11 DEF Trail
    <2>2. CASE r.loop_count < limit
        <3>1. supersteps + 1 <= 10 * r.loop_count + Cardinality(s)
            <4>1. CASE IsAgent(n)
                BY <1>1, <1>2, <1>6, <1>9, <2>1, <4>1
            <4>2. CASE ~IsAgent(n)
                BY <1>1, <1>2, <1>6, <1>9, <2>1, <4>2
            <4>. QED  BY <4>1, <4>2
        <3>2. \A m \in Ids(graph) : times[m] <= r.loop_count + In(m, s) + 0
            BY <1>1, <1>2, <1>3, <1>6, <1>8, <2>1 DEF In
        <3>. QED  BY <1>1, <1>2, <1>7, <1>8, <1>10, <2>2, <3>1, <3>2 DEF Trail, In
    <2>3. CASE r.loop_count >= limit
        <3>1. IsAgent(n) /\ r.loop_count = c + 1 /\ limit = c + 1 /\ r.condition_result
            BY <1>1, <1>2, <1>11, <2>3
        <3>2. supersteps + 1 <= 10 * limit + Cardinality(o)
            BY <1>1, <1>6, <1>11, <1>9, <2>1, <3>1
        <3>3. \A m \in Ids(graph) : times[m] <= limit + In(m, o) + 0
            BY <1>1, <1>3, <1>8, <2>1, <3>1 DEF In
        <3>4. ForcedPath(o)'
            BY <1>1, <1>6, <1>11 DEF ForcedPath
        <3>. QED  BY <1>1, <1>2, <1>7, <1>8, <1>10, <2>3, <3>1, <3>2, <3>3, <3>4 DEF Trail, In
    <2>. QED  BY <1>1, <1>2, <2>2, <2>3
<1>12. CASE c >= limit
    <2>1. /\ supersteps <= 10 * limit + Cardinality(out)
          /\ \A m \in Ids(graph) : times[m] <= limit + In(m, out) + In(m, {n})
          /\ all \cap ScannersOf(graph) = {} => ForcedPath(out) /\ state.condition_result
        BY <1>8, <1>12 DEF Trail
    <2>2. r.loop_count >= limit /\ o = out \cup {n} /\ n \notin out
        BY <1>1, <1>2, <1>3, <1>6, <1>12
    <2>3. supersteps + 1 <= 10 * limit + Cardinality(o)
        BY <1>1, <1>4, <2>1, <2>2
    <2>4. \A m \in Ids(graph) : times[m] <= limit + In(m, o) + 0
        BY <1>1, <1>8, <2>1, <2>2 DEF In
    <2>5. ASSUME a \cap ScannersOf(graph) = {}
          PROVE  ForcedPath(o)' /\ r.condition_result
        <3>1. ForcedPath(out) /\ r.condition_result
            BY <1>2, <1>6, <2>1, <2>5
        <3>. QED  BY <1>5, <2>2, <3>1 DEF ForcedPath
    <2>. QED  BY <1>1, <1>2, <1>7, <1>8, <1>10, <2>2, <2>3, <2>4, <2>5 DEF Trail, In
<1>. QED  BY <1>1, <1>11, <1>12

LEMMA OneWriterIInv == ASSUME IInv, OneWriter PROVE IInv'
<1>1. PICK n \in active :
          /\ active = {n} /\ n \in DOMAIN returned
          /\ state' = returned[n]
          /\ active' = Successors(graph, n, returned[n].condition_result)
    BY DEF OneWriter
<1>2. /\ phase = "running" /\ DOMAIN returned = {n} /\ DOMAIN returned' = {}
      /\ supersteps' = supersteps + 1 /\ n \in Ids(graph)
      /\ UNCHANGED <<graph, input, phase, error, times, executed, prompt>>
    <2>1. returned' = <<>> /\ DOMAIN <<>> = {}
        BY DEF OneWriter
    <2>. QED  BY <1>1, <2>1 DEF OneWriter, history, IInv, TypeOK
<1>3. /\ returned[n] \in States
      /\ returned[n].loop_count = state.loop_count + IF IsAgent(n) THEN 1 ELSE 0
    BY <1>2, ReturnsType DEF IInv, TypeOK
<1>4. TypeOK'
    <2>1. active' \subseteq Ids(graph)
        BY <1>1, <1>2, <1>3 DEF IInv, PhaseOK, Compiles, States
    <2>. QED  BY <1>1, <1>2, <1>3, <2>1 DEF IInv, TypeOK, States
<1>5. PhaseOK' /\ SequentialOK'
    <2>1. /\ executed.nodes = supersteps + Now(n)
          /\ executed.agents = state.loop_count + IF IsAgent(n) THEN Now(n) ELSE 0
        BY <1>1, <1>2 DEF IInv, SequentialOK
    <2>2. /\ Now(n) = 1 /\ \A m : Now(m)' = 0
          /\ supersteps' \in Nat /\ state'.loop_count \in Nat
        BY <1>2, <1>4 DEF Now, TypeOK, States
    <2>3. executed'.nodes = supersteps' /\ executed'.agents = state'.loop_count
        BY <1>1, <1>2, <1>3, <2>1, <2>2
    <2>. QED  BY <1>2, <2>2, <2>3 DEF IInv, PhaseOK, SequentialOK
<1>6. GuardOK'
    <2>. SUFFICES ASSUME Guarded(graph)
                  PROVE  \E all, since, out \in SUBSET Ids(graph) : Trail(all, since, out)'
        BY <1>2 DEF IInv, GuardOK
    <2>1. PICK all, since, out \in SUBSET Ids(graph) : Trail(all, since, out)
        BY <1>2 DEF IInv, GuardOK
    <2>. QED  BY <1>1, <1>2, <2>1, OneWriterTrail
<1>. QED  BY <1>2, <1>4, <1>5, <1>6 DEF IInv

LEMMA TwoWritersIInv == ASSUME IInv, TwoWriters PROVE IInv'
<1>1. /\ phase' = "failed" /\ error' = "writers"
      /\ UNCHANGED <<graph, input, active, returned, supersteps, state, times, executed, prompt>>
    BY DEF TwoWriters, Fail, history
<1>2. TypeOK'
    BY <1>1 DEF IInv, TypeOK, States
<1>3. GuardOK'
    BY <1>1, GuardKept DEF IInv
<1>. QED  BY <1>1, <1>2, <1>3 DEF IInv, PhaseOK

\* A guarded graph never needs that many supersteps.
LEMMA OutOfSuperstepsIInv == ASSUME IInv, OutOfSupersteps PROVE IInv'
<1>1. /\ phase = "running" /\ supersteps = RecursionLimit(graph)
      /\ phase' = "failed" /\ error' = "recursion"
      /\ UNCHANGED <<graph, input, active, returned, supersteps, state, times, executed, prompt>>
    BY DEF OutOfSupersteps, Fail, history
<1>2. TypeOK'
    BY <1>1 DEF IInv, TypeOK, States
<1>3. ~Guarded(graph)
    <2>. SUFFICES ASSUME Guarded(graph) PROVE FALSE
        OBVIOUS
    <2>1. PICK all, since, out \in SUBSET Ids(graph) : Trail(all, since, out)
        BY <1>1 DEF IInv, GuardOK
    <2>2. supersteps < RecursionLimit(graph) /\ supersteps \in Nat
        BY <2>1, TrailBounds DEF IInv, TypeOK
    <2>. QED  BY <1>1, <2>2
<1>4. GuardOK'
    BY <1>1, <1>3 DEF GuardOK
<1>. QED  BY <1>1, <1>2, <1>4 DEF IInv, PhaseOK

LEMMA CompleteIInv == ASSUME IInv, Complete PROVE IInv'
<1>1. /\ phase = "running" /\ active = {} /\ phase' = "completed"
      /\ UNCHANGED <<graph, input, error, active, returned, supersteps, state, times, executed, prompt>>
    BY DEF Complete, history
<1>2. TypeOK'
    BY <1>1 DEF IInv, TypeOK, States
<1>3. PhaseOK' /\ SequentialOK'
    BY <1>1 DEF IInv, PhaseOK, SequentialOK
<1>4. GuardOK'
    BY <1>1, GuardKept DEF IInv, GuardOK
<1>. QED  BY <1>1, <1>2, <1>3, <1>4 DEF IInv

LEMMA StutterIInv == ASSUME IInv, UNCHANGED vars PROVE IInv'
<1>1. UNCHANGED <<graph, input, phase, error, active, returned, supersteps, state, times, executed, prompt>>
    BY DEF vars, history
<1>2. TypeOK' /\ PhaseOK'
    BY <1>1 DEF IInv, TypeOK, PhaseOK, States
<1>3. phase # "failed" => SequentialOK'
    BY <1>1 DEF IInv, SequentialOK, Now, IsAgent
<1>4. GuardOK'
    <2>1. \A S : (Path(S)' <=> Path(S)) /\ (ForcedPath(S)' <=> ForcedPath(S))
        BY <1>1 DEF Path, ForcedPath
    <2>2. \A n : Now(n)' = Now(n)
        BY <1>1 DEF Now
    <2>3. ASSUME NEW all, NEW since, NEW out, Trail(all, since, out)
          PROVE  Trail(all, since, out)'
        BY <1>1, <2>1, <2>2, <2>3 DEF Trail, In
    <2>. QED  BY <1>1, <2>3 DEF IInv, GuardOK
<1>. QED  BY <1>1, <1>2, <1>3, <1>4 DEF IInv

-----------------------------------------------------------------------------
(* The theorems                                                            *)

\* The inductive invariant holds in every state.
THEOREM Invariance == Spec => []IInv
<1>1. Init => IInv
    BY InitIInv
<1>2. IInv /\ [Next]_vars => IInv'
    BY CompileFailsIInv, InvokeIInv, NodeReturnsIInv, NodeRaisesIInv, OneWriterIInv, TwoWritersIInv,
       OutOfSuperstepsIInv, CompleteIInv, StutterIInv DEF Next
<1>. QED  BY <1>1, <1>2, PTL DEF Spec

\* The state of the graph, the active nodes and the histories keep their types.
THEOREM TypeCorrect == Spec => []TypeOK
<1>1. IInv => TypeOK
    BY DEF IInv
<1>. QED  BY <1>1, Invariance, PTL

\* loop_count is the number of agent executions, whatever nodes come between, as
\* long as no two nodes share a superstep.
THEOREM BudgetChargesAgents == Spec => []LoopCountCountsAgents
<1>1. IInv => LoopCountCountsAgents
    <2>. SUFFICES ASSUME IInv, phase # "failed", Cardinality(active) <= 1
                  PROVE  (IF DOMAIN returned = {} THEN state
                          ELSE returned[CHOOSE n \in DOMAIN returned : TRUE]).loop_count
                             = executed.agents
        BY DEF LoopCountCountsAgents
    <2>1. IsFiniteSet(active) /\ Cardinality(active) \in Nat
        BY IdsFinite, FS_Subset, FS_CardinalityType DEF IInv, TypeOK
    <2>2. active = {} \/ \E n : active = {n}
        <3>1. Cardinality(active) = 0 => active = {}
            BY <2>1, FS_EmptySet
        <3>2. Cardinality(active) = 1 => \E n : active = {n}
            BY <2>1, FS_Singleton
        <3>3. Cardinality(active) = 0 \/ Cardinality(active) = 1
            BY <2>1
        <3>. QED  BY <3>1, <3>2, <3>3
    <2>3. CASE DOMAIN returned = {}
        BY <2>2, <2>3 DEF IInv, SequentialOK, Now, TypeOK, States
    <2>4. CASE DOMAIN returned # {}
        <3>1. PICK n : active = {n} /\ DOMAIN returned = {n} /\ n \in Ids(graph)
            BY <2>2, <2>4 DEF IInv, TypeOK
        <3>2. /\ returned[n].loop_count = state.loop_count + IF IsAgent(n) THEN 1 ELSE 0
              /\ state.loop_count \in Nat
            BY <3>1, ReturnsType DEF IInv, TypeOK, States
        <3>3. executed.agents = state.loop_count + IF IsAgent(n) THEN 1 ELSE 0
            BY <3>1 DEF IInv, SequentialOK, Now
        <3>4. (CHOOSE m \in DOMAIN returned : TRUE) = n
            BY <3>1
        <3>. QED  BY <2>4, <3>2, <3>3, <3>4
    <2>. QED  BY <2>3, <2>4
<1>. QED  BY <1>1, Invariance, PTL

\* A run completes only if each of its supersteps executed one node.
THEOREM CompletionIsSequential == Spec => []CompletedRunsAreSequential
<1>1. IInv => CompletedRunsAreSequential
    BY DEF IInv, PhaseOK, SequentialOK, CompletedRunsAreSequential
<1>. QED  BY <1>1, Invariance, PTL

\* The loops of a guarded graph are ended by max_loops and never by LangGraph's
\* recursion limit, whatever agents and tools return.
THEOREM LoopGuardEndsLoops == Spec => []GuardedLoopsExit
<1>1. IInv => GuardedLoopsExit
    BY DEF IInv, GuardOK, GuardedLoopsExit, GuardedGraphs
<1>. QED  BY <1>1, Invariance, PTL
===============================================================================
