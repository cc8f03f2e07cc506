-------------------------------- MODULE Stores --------------------------------
(***************************************************************************)
(* The tables agent_memory and knowledge_base and everything that writes   *)
(* them: the endpoints of routers/agents.py and routers/knowledge.py, the  *)
(* tools of mcp_server.py with their audit log, and the agents' own        *)
(* remember and forget.  A step is one SQL statement with its commit or    *)
(* one other await.  An entry is deleted in two statements, a SELECT and   *)
(* a DELETE by id, between which other calls run; a document is inserted   *)
(* chunk by chunk in one transaction; the audit is written by a task that  *)
(* nobody waits for.                                                       *)
(***************************************************************************)
EXTENDS Integers, FiniteSets

CONSTANTS
    Calls,      \* calls, each of one operation
    Agents,
    Keys,
    Values,
    None,       \* no value
    Ops,        \* the operations called: see OpsAssumption
    MaxChunks,  \* bound: chunks of a document
    MaxFaults   \* bound: failed commits and inserts, lost audits, restarts

Entries == Agents \X Keys

\* via "rest", "mcp", or "tool", which is an agent's own tool; `size` is the
\* number of chunks of the document that is added; a value that is set is a text.
ASSUME OpsAssumption ==
    /\ Ops \subseteq [kind : {"set", "get", "delete", "forget", "drop", "add", "remove"},
                      via : {"rest", "mcp", "tool"}, entry : Entries,
                      value : Values \cup {None}, size : 0..MaxChunks]
    /\ \A o \in Ops : o.kind = "set" => o.value # None
ASSUME NoneAssumption == None \notin Values
ASSUME BoundsAssumption == MaxChunks \in Nat /\ MaxFaults \in Nat

VARIABLES
    agents,     \* rows of agents
    memory,     \* agent_memory: id and value of each entry's row; id 0: no row
    ids,        \* row ids given so far
    knowledge,  \* knowledge_base: its rows, as <<call that added it, number>>
    inserted,   \* number of rows a call has inserted in its open transaction
    deleted,    \* history: rows of knowledge_base that were deleted
    call,       \* each call: operation, place, the row or chunk it read, result,
                \* and (history) whether it took effect and met a fault
    audit,      \* each call's entry in mcp_audit_log
    faults

tables == <<agents, memory, ids, knowledge, inserted, deleted>>
vars   == <<tables, call, audit, faults>>

\* A call that is not over, and one that is.
Active(o, pc, row, chunk) ==
    [op |-> o, pc |-> pc, row |-> row, chunk |-> chunk,
     result |-> "none", applied |-> FALSE, harmed |-> FALSE]

Done(o, result, applied, harmed) ==
    [op |-> o, pc |-> "done", row |-> 0, chunk |-> <<>>,
     result |-> result, applied |-> applied, harmed |-> harmed]

New == Active([kind |-> "add", via |-> "rest"], "new", 0, <<>>)

Init ==
    /\ agents = Agents
    /\ memory = [e \in Entries |-> [id |-> 0, value |-> None]]
    /\ ids = 0
    /\ knowledge = {} /\ deleted = {}
    /\ inserted = [c \in Calls |-> 0]
    /\ call = [c \in Calls |-> New]
    /\ audit = [c \in Calls |-> "none"]
    /\ faults = 0

At(c, kind, pc) == call[c].op.kind = kind /\ call[c].pc = pc

Goto(c, pc, row, chunk) == call' = [call EXCEPT ![c] = Active(@.op, pc, row, chunk)]

Fault == faults < MaxFaults /\ faults' = faults + 1

Chunks(c) == {c} \X (1..call[c].op.size)

Agent(c) == call[c].op.entry[1]

NoRow == [id |-> 0, value |-> None]

\* The row that a pending deletion has read is not there any more.
Gone(c) == memory[call[c].op.entry].id # call[c].row

-----------------------------------------------------------------------------
(* Plausible mistakes, each a wrong version of the definition it is named  *)
(* after; no specification uses them.  The properties must reject them.    *)

\* _fire_audit on success only.
EndAuditsSuccess(c, result, applied) ==
    /\ call' = [call EXCEPT ![c] = Done(@.op, result, applied, FALSE)]
    /\ audit' = IF call[c].op.via = "mcp" /\ result = "ok"
                THEN [audit EXCEPT ![c] = "pending"] ELSE audit

\* execute() without commit(): the session rolls back as it closes.
UpsertUncommitted(e, v) == UNCHANGED <<memory, ids>>

\* The foreign key without ON DELETE CASCADE, and no check of it.
ClearedKeepsMemory(a) == memory

\* Each chunk is committed as it is inserted.
InsertAutocommits(c) ==
    /\ At(c, "add", "embedded")
    /\ \E k \in Chunks(c) \ knowledge :
        /\ knowledge' = knowledge \cup {k}
        /\ UNCHANGED <<agents, memory, ids, inserted, deleted, call, audit, faults>>

-----------------------------------------------------------------------------
(* What several operations share                                           *)

\* The call returns, or raises ("failed").  An MCP tool that returns creates
\* the task of the audit; one that raises does not, nor one that refuses its
\* arguments ("invalid").
End(c, result, applied) ==
    /\ call' = [call EXCEPT ![c] = Done(@.op, result, applied, FALSE)]
    /\ audit' = IF call[c].op.via = "mcp" /\ result \in {"ok", "missing"}
                THEN [audit EXCEPT ![c] = "pending"] ELSE audit

\* The commit fails, or its acknowledgement is lost.
EndHarmed(c, applied) ==
    /\ Fault
    /\ call' = [call EXCEPT ![c] = Done(@.op, "failed", applied, TRUE)]
    /\ UNCHANGED audit

\* INSERT ... ON CONFLICT DO UPDATE: a row that is there keeps its id.
Upsert(e, v) ==
    /\ memory' = [memory EXCEPT ![e] = [id |-> IF @.id = 0 THEN ids + 1 ELSE @.id,
                                        value |-> v]]
    /\ ids' = IF memory[e].id = 0 THEN ids + 1 ELSE ids

\* ON DELETE CASCADE.
Cleared(a) == [e \in Entries |-> IF e[1] = a THEN NoRow ELSE memory[e]]

-----------------------------------------------------------------------------
(* agent_memory                                                            *)

\* upsert_memory, set_memory, remember.  None of them looks for the agent:
\* the foreign key does.
Set(c) ==
    LET e == call[c].op.entry
        v == call[c].op.value
    IN  /\ At(c, "set", "ready")
        /\ \/ /\ Agent(c) \in agents
              /\ Upsert(e, v) /\ End(c, "ok", TRUE)
              /\ UNCHANGED faults
           \/ /\ Agent(c) \in agents
              /\ Upsert(e, v) /\ EndHarmed(c, TRUE)
           \/ /\ Agent(c) \in agents
              /\ EndHarmed(c, FALSE)
              /\ UNCHANGED <<memory, ids>>
           \/ /\ Agent(c) \notin agents
              /\ End(c, "failed", FALSE)
              /\ UNCHANGED <<memory, ids, faults>>
        /\ UNCHANGED <<agents, knowledge, inserted, deleted>>

\* get_memory, get_memory_entry.
Get(c) ==
    /\ At(c, "get", "ready")
    /\ IF memory[call[c].op.entry].id # 0 THEN End(c, "ok", TRUE) ELSE End(c, "missing", FALSE)
    /\ UNCHANGED <<tables, faults>>

\* forget: DELETE by agent and key.
Forget(c) ==
    LET Removed == [memory EXCEPT ![call[c].op.entry] = NoRow] IN
    /\ At(c, "forget", "ready")
    /\ \/ memory' = Removed /\ End(c, "ok", TRUE) /\ UNCHANGED faults
       \/ memory' = Removed /\ EndHarmed(c, TRUE)
       \/ memory' = memory /\ EndHarmed(c, FALSE)
    /\ UNCHANGED <<agents, ids, knowledge, inserted, deleted>>

\* The SELECT of delete_memory, delete_memory_entry and delete_agent.
Select(c) ==
    /\ \/ /\ At(c, "delete", "ready")
          /\ LET id == memory[call[c].op.entry].id IN
             IF id # 0
             THEN Goto(c, "found", id, <<>>) /\ UNCHANGED audit
             ELSE End(c, "missing", FALSE)
       \/ /\ At(c, "drop", "ready")
          /\ IF Agent(c) \in agents
             THEN Goto(c, "found", 0, <<>>) /\ UNCHANGED audit
             ELSE End(c, "missing", FALSE)
    /\ UNCHANGED <<tables, faults>>

\* Their DELETE by id.  A row that has gone meanwhile is only worth a warning
\* to SQLAlchemy: the call succeeds.
Delete(c) ==
    LET Removed == IF Gone(c) THEN memory ELSE [memory EXCEPT ![call[c].op.entry] = NoRow] IN
    /\ At(c, "delete", "found")
    /\ \/ memory' = Removed /\ End(c, "ok", TRUE) /\ UNCHANGED faults
       \/ memory' = Removed /\ EndHarmed(c, TRUE)
       \/ memory' = memory /\ EndHarmed(c, Gone(c))
    /\ UNCHANGED <<agents, ids, knowledge, inserted, deleted>>

DeleteAgent(c) ==
    LET a == Agent(c) IN
    /\ At(c, "drop", "found")
    /\ \/ /\ agents' = agents \ {a} /\ memory' = Cleared(a)
          /\ \/ End(c, "ok", TRUE) /\ UNCHANGED faults
             \/ EndHarmed(c, TRUE)
       \/ EndHarmed(c, FALSE) /\ UNCHANGED <<agents, memory>>
    /\ UNCHANGED <<ids, knowledge, inserted, deleted>>

-----------------------------------------------------------------------------
(* knowledge_base                                                          *)

\* chunk_text, and embed(), which may raise.
Embed(c) ==
    /\ At(c, "add", "ready")
    /\ \/ Goto(c, "embedded", 0, <<>>) /\ UNCHANGED audit
       \/ End(c, "failed", FALSE)
    /\ UNCHANGED <<tables, faults>>

\* One INSERT; if it fails the session rolls back as it closes.
Insert(c) ==
    /\ At(c, "add", "embedded")
    /\ inserted[c] < call[c].op.size
    /\ \/ /\ inserted' = [inserted EXCEPT ![c] = @ + 1]
          /\ UNCHANGED <<call, audit, faults>>
       \/ /\ inserted' = [inserted EXCEPT ![c] = 0]
          /\ EndHarmed(c, FALSE)
    /\ UNCHANGED <<agents, memory, ids, knowledge, deleted>>

\* The one commit of all chunks.  The MCP tools return then, the endpoints
\* refresh the rows for their answer.
Commit(c) ==
    /\ At(c, "add", "embedded") /\ inserted[c] = call[c].op.size
    /\ inserted' = [inserted EXCEPT ![c] = 0]
    /\ \/ /\ knowledge' = knowledge \cup Chunks(c)
          /\ \/ /\ call[c].op.via = "mcp" /\ End(c, "ok", TRUE)
                /\ UNCHANGED faults
             \/ /\ call[c].op.via # "mcp" /\ Goto(c, "committed", 0, <<>>)
                /\ UNCHANGED <<audit, faults>>
             \/ EndHarmed(c, TRUE)
       \/ /\ EndHarmed(c, FALSE)
          /\ UNCHANGED knowledge
    /\ UNCHANGED <<agents, memory, ids, deleted>>

\* refresh() raises if a row has been deleted since the commit.
Refresh(c) ==
    /\ At(c, "add", "committed")
    /\ End(c, IF Chunks(c) \subseteq knowledge THEN "ok" ELSE "failed", TRUE)
    /\ UNCHANGED <<tables, faults>>

\* delete_knowledge: a row the client once saw in a list.
SelectChunk(c) ==
    /\ At(c, "remove", "ready")
    /\ \E k \in knowledge \cup deleted :
          IF k \in knowledge
          THEN Goto(c, "found", 0, k) /\ UNCHANGED audit
          ELSE End(c, "missing", FALSE)
    /\ UNCHANGED <<tables, faults>>

DeleteChunk(c) ==
    LET k == call[c].chunk IN
    /\ At(c, "remove", "found")
    /\ \/ /\ knowledge' = knowledge \ {k} /\ deleted' = deleted \cup {k}
          /\ \/ End(c, "ok", TRUE) /\ UNCHANGED faults
             \/ EndHarmed(c, TRUE)
       \/ EndHarmed(c, FALSE) /\ UNCHANGED <<knowledge, deleted>>
    /\ UNCHANGED <<agents, memory, ids, inserted>>

-----------------------------------------------------------------------------

\* A request comes in.
Invoke(c, o) ==
    /\ call[c].pc = "new"
    /\ o.kind = "remove" => knowledge \cup deleted # {}
    /\ call' = [call EXCEPT ![c] = Active(o, "ready", 0, <<>>)]
    /\ UNCHANGED <<tables, audit, faults>>

\* A tool without a key or with bad arguments, a file that is no text.
Refuse(c) ==
    /\ call[c].pc = "ready"
    /\ call[c].op.via = "mcp" \/ call[c].op.kind = "add"
    /\ End(c, "invalid", FALSE)
    /\ UNCHANGED <<tables, faults>>

\* _audit: its own session; a failure is logged.
Audit(c) ==
    /\ audit[c] = "pending"
    /\ \/ /\ audit' = [audit EXCEPT ![c] = "written"]
          /\ UNCHANGED <<call, faults>>
       \/ /\ Fault
          /\ audit' = [audit EXCEPT ![c] = "lost"]
          /\ call' = [call EXCEPT ![c] = [@ EXCEPT !.harmed = TRUE]]
    /\ UNCHANGED tables

\* The process dies: open transactions roll back, calls get no answer, audit
\* tasks are gone.
Crash ==
    /\ Fault
    /\ inserted' = [c \in Calls |-> 0]
    /\ call' = [c \in Calls |->
          IF call[c].pc = "new" \/ (call[c].pc = "done" /\ audit[c] # "pending") THEN call[c]
          ELSE IF call[c].pc = "done" THEN [call[c] EXCEPT !.harmed = TRUE]
          ELSE LET applied == \/ At(c, "delete", "found") /\ Gone(c)
                              \/ At(c, "add", "committed")
               IN  Done(call[c].op, "lost", applied, TRUE)]
    /\ audit' = [c \in Calls |-> IF audit[c] = "pending" THEN "lost" ELSE audit[c]]
    /\ UNCHANGED <<agents, memory, ids, knowledge, deleted>>

Step(c) ==
    \/ Set(c) \/ Get(c) \/ Forget(c) \/ Select(c) \/ Delete(c) \/ DeleteAgent(c)
    \/ Embed(c) \/ Insert(c) \/ Commit(c) \/ Refresh(c) \/ SelectChunk(c) \/ DeleteChunk(c)

Next ==
    \/ \E c \in Calls, o \in Ops : Invoke(c, o)
    \/ \E c \in Calls : Step(c) \/ Refuse(c) \/ Audit(c)
    \/ Crash

Spec == Init /\ [][Next]_vars

\* Every await returns or raises, and the event loop runs the audit tasks.
Fairness == \A c \in Calls : WF_vars(Step(c)) /\ WF_vars(Audit(c))

FairSpec == Spec /\ Fairness

-----------------------------------------------------------------------------
(* Properties                                                              *)

Rows == Calls \X (1..MaxChunks)

Call == [op : Ops \cup {New.op},
         pc : {"new", "ready", "found", "embedded", "committed", "done"},
         row : Nat, chunk : Rows \cup {<<>>},
         result : {"none", "ok", "missing", "invalid", "failed", "lost"},
         applied : BOOLEAN, harmed : BOOLEAN]

\* The constraints of the schema: an entry has one row, whose id no other has,
\* and the row an agent.
SchemaOK ==
    /\ memory \in [Entries -> [id : 0..ids, value : Values \cup {None}]]
    /\ \A e \in Entries :
          /\ memory[e].id = 0 <=> memory[e].value = None
          /\ memory[e].id # 0 =>
                /\ e[1] \in agents
                /\ \A f \in Entries \ {e} : memory[f].id # memory[e].id

\* The type invariant.
TypeOK ==
    /\ agents \subseteq Agents
    /\ ids \in Nat
    /\ SchemaOK
    /\ knowledge \subseteq Rows /\ deleted \subseteq Rows
    /\ knowledge \cap deleted = {}
    /\ inserted \in [Calls -> 0..MaxChunks]
    /\ call \in [Calls -> Call]
    /\ audit \in [Calls -> {"none", "pending", "written", "lost"}]
    /\ faults \in 0..MaxFaults

-----------------------------------------------------------------------------
\* What a call asks of the map, and how far it is.  A deletion that finds its
\* row gone took effect when the other one removed it.
OpOf(c) ==
    IF call[c].pc = "new" THEN [kind |-> "other"]
    ELSE IF call[c].op.kind \in {"add", "remove"}
    THEN [kind |-> "other", entry |-> call[c].op.entry, value |-> None]
    ELSE [kind |-> call[c].op.kind, entry |-> call[c].op.entry, value |-> call[c].op.value]

PhaseOf(c) ==
    CASE call[c].pc = "new" -> "idle"
      [] call[c].pc # "new" /\ call[c].op.kind \in {"add", "remove"} ->
            IF call[c].pc = "done" THEN "failed" ELSE "pending"
      [] OTHER ->
            IF call[c].applied \/ (At(c, "delete", "found") /\ Gone(c)) THEN "applied"
            ELSE IF call[c].pc # "done" THEN "pending"
            ELSE IF call[c].result = "missing" THEN "missing" ELSE "failed"

Map == INSTANCE MemoryMap WITH
    map <- [e \in Entries |-> memory[e].value],
    op <- [c \in Calls |-> OpOf(c)],
    phase <- [c \in Calls |-> PhaseOf(c)]

\* The memory is a map on which every call takes effect at one moment between
\* its start and its answer.
ImplementsMemoryMap == Map!Spec

Stored(c) == {k \in knowledge \cup deleted : k[1] = c}

WholeOrAbsent(c) ==
    /\ Stored(c) \in {{}, Chunks(c)}
    /\ call[c].result = "ok" => Stored(c) = Chunks(c)
    /\ call[c].result \in {"failed", "invalid"} /\ Stored(c) # {} =>
          call[c].harmed \/ Chunks(c) \cap deleted # {}

\* A document is stored with all its chunks or none of them.  A client that is
\* told so has it stored; one that is told of a failure does not, unless the
\* commit's acknowledgement was lost, or somebody deleted a chunk before the
\* answer was ready.
AddIsAllOrNothing ==
    \A c \in Calls : call[c].op.kind = "add" /\ call[c].pc # "new" => WholeOrAbsent(c)

\* Every call ends, and one that an MCP tool answered is in the audit log in
\* the end, unless a fault hit it: refused and raising calls are not in it.
CallsEndAudited ==
    \A c \in Calls :
        call[c].pc = "ready" ~>
            /\ call[c].pc = "done"
            /\ call[c].op.via = "mcp" /\ call[c].result \in {"ok", "missing"} =>
                  audit[c] = "written" \/ call[c].harmed
=============================================================================
