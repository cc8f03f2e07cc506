----------------------------- MODULE StoresProofs -----------------------------
(***************************************************************************)
(* Proofs about Stores, for any calls, agents, keys, values and operations *)
(* that meet the assumptions: the type invariant with the constraints of   *)
(* the schema, that a document is stored whole or not at all, and that     *)
(* the memory implements MemoryMap.                                        *)
(***************************************************************************)
EXTENDS Stores, TLAPS

\* What a call in progress knows: the row or chunk it has read has been there.
CallOK(c) ==
    /\ call[c].pc = "new" \/ call[c].op \in Ops
    /\ call[c].pc # "done" => call[c].result = "none" /\ ~call[c].applied
    /\ call[c].pc = "found" => call[c].op.kind # "add"
    /\ At(c, "delete", "found") => call[c].row \in 1..ids
    /\ At(c, "remove", "found") => call[c].chunk \in knowledge \cup deleted

\* Only a commit stores rows of a call, and all of them.
DocOK(c) ==
    /\ \/ call[c].op.kind # "add"
       \/ call[c].pc \in {"new", "ready", "embedded"}
       => Stored(c) = {}
    /\ At(c, "add", "committed") => Stored(c) = Chunks(c)
    /\ At(c, "add", "done") => WholeOrAbsent(c)

IInv ==
    /\ TypeOK
    /\ \A c \in Calls : CallOK(c)
    /\ \A c \in Calls : DocOK(c)

-----------------------------------------------------------------------------
(* What a step does to the calls                                           *)

Results == {"none", "ok", "missing", "invalid", "failed", "lost"}

\* Of all calls only c moves on, to record r.
Only(c, r) ==
    /\ call' \in [Calls -> Call]
    /\ call'[c] = r
    /\ \A d \in Calls \ {c} : call'[d] = call[d]

\* Of all calls only c ends.
OnlyEnds(c, result, applied) ==
    \E harmed \in BOOLEAN : Only(c, Done(call[c].op, result, applied, harmed))

LEMMA EndCall ==
    ASSUME TypeOK, NEW c \in Calls, NEW result \in Results, NEW applied \in BOOLEAN,
           End(c, result, applied)
    PROVE  /\ Only(c, Done(call[c].op, result, applied, FALSE))
           /\ OnlyEnds(c, result, applied)
           /\ audit' \in [Calls -> {"none", "pending", "written", "lost"}]
<1>1. Only(c, Done(call[c].op, result, applied, FALSE))
    BY DEF TypeOK, End, Only, Done, Call, Results
<1>2. audit' \in [Calls -> {"none", "pending", "written", "lost"}]
    BY DEF TypeOK, End
<1>. QED  BY <1>1, <1>2 DEF OnlyEnds

LEMMA HarmCall ==
    ASSUME TypeOK, NEW c \in Calls, NEW applied \in BOOLEAN, EndHarmed(c, applied)
    PROVE  /\ Only(c, Done(call[c].op, "failed", applied, TRUE))
           /\ OnlyEnds(c, "failed", applied)
           /\ audit' \in [Calls -> {"none", "pending", "written", "lost"}]
           /\ faults' \in 0..MaxFaults
<1>1. Only(c, Done(call[c].op, "failed", applied, TRUE))
    BY DEF TypeOK, EndHarmed, Only, Done, Call
<1>2. audit' \in [Calls -> {"none", "pending", "written", "lost"}]
    BY DEF TypeOK, EndHarmed
<1>3. faults' \in 0..MaxFaults
    BY BoundsAssumption DEF TypeOK, EndHarmed, Fault
<1>. QED  BY <1>1, <1>2, <1>3 DEF OnlyEnds

LEMMA MoveCall ==
    ASSUME TypeOK, NEW c \in Calls, NEW pc \in {"found", "embedded", "committed"},
           NEW row \in Nat, NEW chunk \in Rows \cup {<<>>}, Goto(c, pc, row, chunk)
    PROVE  Only(c, Active(call[c].op, pc, row, chunk))
BY DEF TypeOK, Goto, Only, Active, Call

-----------------------------------------------------------------------------
(* What a step leaves alone                                                *)

LEMMA CallFrame ==
    ASSUME NEW d \in Calls, CallOK(d), call'[d] = call[d], ids \in Nat, ids' \in Nat, ids <= ids',
           knowledge \cup deleted \subseteq knowledge' \cup deleted'
    PROVE  CallOK(d)'
BY DEF CallOK, At

LEMMA DocFrame ==
    ASSUME NEW d \in Calls, DocOK(d), call'[d] = call[d], Stored(d)' = Stored(d),
           deleted \subseteq deleted'
    PROVE  DocOK(d)'
<1>1. Chunks(d)' = Chunks(d)
    BY DEF Chunks
<1>2. WholeOrAbsent(d) => WholeOrAbsent(d)'
    BY <1>1 DEF WholeOrAbsent
<1>. QED  BY <1>1, <1>2 DEF DocOK, At

LEMMA CallEnds ==
    ASSUME NEW c \in Calls, CallOK(c), call[c].pc # "new",
           NEW result, NEW applied, OnlyEnds(c, result, applied)
    PROVE  CallOK(c)'
BY DEF CallOK, OnlyEnds, Only, Done, At

\* A step that moves one call keeps the invariant if it keeps the types, does the
\* right thing to that call, and takes nothing from the others.
LEMMA Preserved ==
    ASSUME IInv, TypeOK', NEW c \in Calls, CallOK(c)', DocOK(c)',
           \A d \in Calls \ {c} : call'[d] = call[d] /\ Stored(d)' = Stored(d),
           ids <= ids', deleted \subseteq deleted',
           knowledge \cup deleted \subseteq knowledge' \cup deleted'
    PROVE  IInv'
<1>1. ASSUME NEW d \in Calls \ {c} PROVE CallOK(d)' /\ DocOK(d)'
    BY <1>1, CallFrame, DocFrame DEF IInv, TypeOK
<1>. QED  BY <1>1 DEF IInv

-----------------------------------------------------------------------------
(* The schema's constraints                                                *)

LEMMA UpsertSchema ==
    ASSUME TypeOK, NEW e \in Entries, NEW v \in Values, e[1] \in agents,
           Upsert(e, v), agents' = agents
    PROVE  SchemaOK' /\ ids' \in Nat /\ ids <= ids'
<1>. DEFINE id == IF memory[e].id = 0 THEN ids + 1 ELSE memory[e].id
<1>1. memory' = [memory EXCEPT ![e] = [id |-> id, value |-> v]]
    BY DEF Upsert
<1>2. /\ ids \in Nat /\ ids' \in Nat /\ ids <= ids'
      /\ id \in 1..ids' /\ 0..ids \subseteq 0..ids'
    BY DEF Upsert, TypeOK, SchemaOK
<1>3. \A f \in Entries \ {e} : memory[f].id # id
    BY DEF TypeOK, SchemaOK
<1>. HIDE DEF id
<1>4. memory'[e] = [id |-> id, value |-> v] /\ \A f \in Entries \ {e} : memory'[f] = memory[f]
    BY <1>1 DEF TypeOK, SchemaOK
<1>5. memory' \in [Entries -> [id : 0..ids', value : Values \cup {None}]]
    <2>1. [id |-> id, value |-> v] \in [id : 0..ids', value : Values \cup {None}]
        BY <1>2
    <2>2. memory \in [Entries -> [id : 0..ids', value : Values \cup {None}]]
        BY <1>2 DEF TypeOK, SchemaOK
    <2>. QED  BY <1>1, <2>1, <2>2
<1>6. \A f \in Entries :
          /\ memory'[f].id = 0 <=> memory'[f].value = None
          /\ memory'[f].id # 0 =>
                /\ f[1] \in agents'
                /\ \A g \in Entries \ {f} : memory'[g].id # memory'[f].id
    BY <1>2, <1>3, <1>4, NoneAssumption DEF TypeOK, SchemaOK
<1>. QED  BY <1>2, <1>5, <1>6 DEF SchemaOK

LEMMA RemovedSchema ==
    ASSUME TypeOK, NEW e \in Entries, memory' = [memory EXCEPT ![e] = NoRow],
           agents' = agents, ids' = ids
    PROVE  SchemaOK'
<1>1. NoRow \in [id : 0..ids, value : Values \cup {None}]
    BY DEF NoRow, TypeOK
<1>2. memory' \in [Entries -> [id : 0..ids, value : Values \cup {None}]]
    BY <1>1 DEF TypeOK, SchemaOK
<1>3. memory'[e] = NoRow /\ \A f \in Entries \ {e} : memory'[f] = memory[f]
    BY DEF TypeOK, SchemaOK
<1>. QED  BY <1>2, <1>3 DEF TypeOK, SchemaOK, NoRow

LEMMA ClearedSchema ==
    ASSUME TypeOK, NEW a, memory' = Cleared(a), agents' = agents \ {a}, ids' = ids
    PROVE  SchemaOK'
<1>1. NoRow \in [id : 0..ids, value : Values \cup {None}]
    BY DEF NoRow, TypeOK
<1>2. memory' \in [Entries -> [id : 0..ids, value : Values \cup {None}]]
    BY <1>1 DEF TypeOK, SchemaOK, Cleared
<1>3. \A f \in Entries : memory'[f] = IF f[1] = a THEN NoRow ELSE memory[f]
    BY DEF Cleared
<1>. QED  BY <1>2, <1>3 DEF TypeOK, SchemaOK, NoRow

\* Every column that the schema's constraints are about is kept.
LEMMA KeptSchema ==
    ASSUME TypeOK, memory' = memory, agents' = agents, ids' = ids
    PROVE  SchemaOK'
BY DEF TypeOK, SchemaOK

-----------------------------------------------------------------------------
(* Every action keeps the invariant                                        *)

AuditType == [Calls -> {"none", "pending", "written", "lost"}]

\* A call that stores no document ends.
LEMMA FruitlessEnd ==
    ASSUME IInv, TypeOK', NEW c \in Calls, call[c].pc \in {"ready", "found", "embedded"},
           NEW result, NEW applied, OnlyEnds(c, result, applied),
           call[c].op.kind = "add" => result # "ok",
           knowledge' = knowledge, deleted' = deleted, ids <= ids'
    PROVE  IInv'
<1>1. CallOK(c)'
    BY CallEnds DEF IInv
<1>2. \A d \in Calls : Stored(d)' = Stored(d)
    BY DEF Stored
<1>3. Stored(c) = {}
    BY DEF IInv, DocOK, CallOK
<1>4. PICK harmed \in BOOLEAN : call'[c] = Done(call[c].op, result, applied, harmed)
    BY DEF OnlyEnds, Only
<1>5. DocOK(c)'
    BY <1>2, <1>3, <1>4 DEF DocOK, WholeOrAbsent, Done, At
<1>6. \A d \in Calls \ {c} : call'[d] = call[d]
    BY DEF OnlyEnds, Only
<1>. QED  BY <1>1, <1>2, <1>5, <1>6, Preserved

\* The types of what FruitlessEnd asks for, where only the memory changes.
LEMMA MemoryType ==
    ASSUME TypeOK, NEW c, NEW r, Only(c, r), SchemaOK', agents' \subseteq agents, ids' \in Nat,
           audit' \in AuditType, faults' \in 0..MaxFaults,
           UNCHANGED <<knowledge, inserted, deleted>>
    PROVE  TypeOK'
BY DEF TypeOK, Only, AuditType

\* What an operation is about.
LEMMA OpType ==
    ASSUME IInv, NEW c \in Calls, call[c].pc # "new"
    PROVE  /\ call[c].op \in Ops
           /\ call[c].op.entry \in Entries /\ Agent(c) \in Agents
           /\ call[c].op.kind = "set" => call[c].op.value \in Values
           /\ call[c].op.size \in 0..MaxChunks
BY OpsAssumption DEF IInv, CallOK, Agent, Entries

\* What ends that are not the store of a document have in common.
LEMMA MemoryEnd ==
    ASSUME IInv, NEW c \in Calls, call[c].pc \in {"ready", "found", "embedded"},
           NEW result \in Results, NEW applied \in BOOLEAN,
           \/ End(c, result, applied) /\ faults' = faults
           \/ EndHarmed(c, applied) /\ result = "failed",
           call[c].op.kind = "add" => result # "ok",
           SchemaOK', agents' \subseteq agents, ids' \in Nat, ids <= ids',
           UNCHANGED <<knowledge, inserted, deleted>>
    PROVE  IInv'
<1>1. OnlyEnds(c, result, applied) /\ audit' \in AuditType /\ faults' \in 0..MaxFaults
    BY EndCall, HarmCall DEF IInv, TypeOK, AuditType
<1>2. TypeOK'
    BY <1>1, MemoryType DEF IInv, OnlyEnds
<1>. QED  BY <1>1, <1>2, FruitlessEnd

LEMMA SetIInv == ASSUME IInv, NEW c \in Calls, Set(c) PROVE IInv'
<1>. DEFINE e == call[c].op.entry
            v == call[c].op.value
<1>1. TypeOK /\ At(c, "set", "ready") /\ ids \in Nat
    BY DEF IInv, Set, TypeOK
<1>2. e \in Entries /\ v \in Values
    BY <1>1, OpType DEF At
<1>3. agents' = agents /\ UNCHANGED <<knowledge, inserted, deleted>>
    BY DEF Set
<1>4. SchemaOK' /\ ids' \in Nat /\ ids <= ids'
    <2>1. CASE Upsert(e, v) /\ Agent(c) \in agents
        BY <2>1, <1>1, <1>2, <1>3, UpsertSchema DEF Agent
    <2>2. CASE UNCHANGED <<memory, ids>>
        BY <2>2, <1>1, <1>3, KeptSchema
    <2>. QED  BY <2>1, <2>2 DEF Set
<1>5. \E applied \in BOOLEAN, result \in {"ok", "failed"} :
          \/ End(c, result, applied) /\ faults' = faults
          \/ EndHarmed(c, applied) /\ result = "failed"
    BY DEF Set
<1>. QED  BY <1>1, <1>3, <1>4, <1>5, MemoryEnd DEF At, Results

LEMMA GetIInv == ASSUME IInv, NEW c \in Calls, Get(c) PROVE IInv'
<1>1. UNCHANGED tables /\ At(c, "get", "ready") /\ ids \in Nat
    BY DEF Get, IInv, TypeOK
<1>2. SchemaOK'
    BY <1>1, KeptSchema DEF tables, IInv
<1>3. \E applied \in BOOLEAN, result \in {"ok", "missing"} :
          End(c, result, applied) /\ faults' = faults
    BY DEF Get
<1>. QED  BY <1>1, <1>2, <1>3, MemoryEnd DEF At, Results, tables

LEMMA ForgetIInv == ASSUME IInv, NEW c \in Calls, Forget(c) PROVE IInv'
<1>. DEFINE e == call[c].op.entry
<1>1. At(c, "forget", "ready") /\ ids \in Nat
      /\ UNCHANGED <<agents, ids, knowledge, inserted, deleted>>
    BY DEF Forget, IInv, TypeOK
<1>2. SchemaOK'
    <2>1. memory' = [memory EXCEPT ![e] = NoRow] \/ memory' = memory
        BY DEF Forget
    <2>. QED  BY <2>1, <1>1, OpType, RemovedSchema, KeptSchema DEF At, IInv
<1>3. \E applied \in BOOLEAN, result \in {"ok", "failed"} :
          \/ End(c, result, applied) /\ faults' = faults
          \/ EndHarmed(c, applied) /\ result = "failed"
    BY DEF Forget
<1>. QED  BY <1>1, <1>2, <1>3, MemoryEnd DEF At, Results

LEMMA DeleteIInv == ASSUME IInv, NEW c \in Calls, Delete(c) PROVE IInv'
<1>. DEFINE e == call[c].op.entry
<1>1. At(c, "delete", "found") /\ ids \in Nat
      /\ UNCHANGED <<agents, ids, knowledge, inserted, deleted>>
    BY DEF Delete, IInv, TypeOK
<1>2. SchemaOK'
    <2>1. memory' = [memory EXCEPT ![e] = NoRow] \/ memory' = memory
        BY DEF Delete
    <2>. QED  BY <2>1, <1>1, OpType, RemovedSchema, KeptSchema DEF At, IInv
<1>3. \E applied \in BOOLEAN, result \in {"ok", "failed"} :
          \/ End(c, result, applied) /\ faults' = faults
          \/ EndHarmed(c, applied) /\ result = "failed"
    BY DEF Delete, Gone
<1>. QED  BY <1>1, <1>2, <1>3, MemoryEnd DEF At, Results

LEMMA DeleteAgentIInv == ASSUME IInv, NEW c \in Calls, DeleteAgent(c) PROVE IInv'
<1>1. At(c, "drop", "found") /\ ids \in Nat
      /\ UNCHANGED <<ids, knowledge, inserted, deleted>>
    BY DEF DeleteAgent, IInv, TypeOK
<1>2. SchemaOK' /\ agents' \subseteq agents
    <2>1. \/ agents' = agents \ {Agent(c)} /\ memory' = Cleared(Agent(c))
          \/ UNCHANGED <<agents, memory>>
        BY DEF DeleteAgent
    <2>. QED  BY <2>1, <1>1, ClearedSchema, KeptSchema DEF IInv
<1>3. \E applied \in BOOLEAN, result \in {"ok", "failed"} :
          \/ End(c, result, applied) /\ faults' = faults
          \/ EndHarmed(c, applied) /\ result = "failed"
    BY DEF DeleteAgent
<1>. QED  BY <1>1, <1>2, <1>3, MemoryEnd DEF At, Results

LEMMA KeptEnd ==
    ASSUME IInv, NEW c \in Calls, call[c].pc \in {"ready", "found", "embedded"},
           NEW result \in Results, NEW applied \in BOOLEAN, End(c, result, applied),
           call[c].op.kind = "add" => result # "ok", UNCHANGED <<tables, faults>>
    PROVE  IInv'
<1>1. SchemaOK'
    BY KeptSchema DEF IInv, tables
<1>2. /\ ids \in Nat /\ ids' = ids /\ faults' = faults /\ agents' = agents
      /\ UNCHANGED <<knowledge, inserted, deleted>>
    BY DEF IInv, TypeOK, tables
<1>. QED  BY <1>1, <1>2, MemoryEnd

\* A call reads a row, or embeds its document.
LEMMA ReadyMoves ==
    ASSUME IInv, NEW c \in Calls, call[c].pc = "ready", NEW pc \in {"found", "embedded"},
           NEW row \in Nat, NEW chunk \in Rows \cup {<<>>}, Goto(c, pc, row, chunk),
           UNCHANGED <<tables, audit, faults>>,
           pc = "found" => /\ call[c].op.kind # "add"
                           /\ call[c].op.kind = "delete" => row \in 1..ids
                           /\ call[c].op.kind = "remove" => chunk \in knowledge \cup deleted
    PROVE  IInv'
<1>1. Only(c, Active(call[c].op, pc, row, chunk))
    BY MoveCall DEF IInv
<1>2. TypeOK'
    BY <1>1, KeptSchema DEF IInv, TypeOK, tables, Only
<1>3. \A d \in Calls : Stored(d)' = Stored(d)
    BY DEF Stored, tables
<1>4. CallOK(c)'
    BY <1>1 DEF IInv, CallOK, Only, Active, At, tables
<1>5. Stored(c) = {}
    BY DEF IInv, DocOK
<1>6. DocOK(c)'
    BY <1>1, <1>3, <1>5 DEF DocOK, Only, Active, At
<1>7. ids \in Nat
    BY DEF IInv, TypeOK
<1>. QED  BY <1>1, <1>2, <1>3, <1>4, <1>6, <1>7, Preserved DEF tables, Only

LEMMA SelectIInv == ASSUME IInv, NEW c \in Calls, Select(c) PROVE IInv'
<1>. DEFINE id == memory[call[c].op.entry].id
<1>1. /\ UNCHANGED <<tables, faults>> /\ call[c].pc = "ready"
      /\ call[c].op.kind \in {"delete", "drop"} /\ ids \in Nat
    BY DEF Select, At, IInv, TypeOK
<1>2. CASE End(c, "missing", FALSE)
    BY <1>1, <1>2, KeptEnd DEF Results
<1>3. CASE id # 0 /\ Goto(c, "found", id, <<>>) /\ UNCHANGED audit /\ call[c].op.kind = "delete"
    <2>1. id \in 1..ids
        BY <1>1, <1>3, OpType DEF IInv, TypeOK, SchemaOK
    <2>. QED  BY <1>1, <1>3, <2>1, ReadyMoves
<1>4. CASE Goto(c, "found", 0, <<>>) /\ UNCHANGED audit /\ call[c].op.kind = "drop"
    BY <1>1, <1>4, ReadyMoves
<1>. QED  BY <1>2, <1>3, <1>4 DEF Select, At

LEMMA EmbedIInv == ASSUME IInv, NEW c \in Calls, Embed(c) PROVE IInv'
<1>1. /\ UNCHANGED <<tables, faults>> /\ call[c].pc = "ready" /\ ids \in Nat
    BY DEF Embed, At, IInv, TypeOK
<1>2. CASE Goto(c, "embedded", 0, <<>>) /\ UNCHANGED audit
    BY <1>1, <1>2, ReadyMoves
<1>3. CASE End(c, "failed", FALSE)
    BY <1>1, <1>3, KeptEnd DEF Results
<1>. QED  BY <1>2, <1>3 DEF Embed

LEMMA RefuseIInv == ASSUME IInv, NEW c \in Calls, Refuse(c) PROVE IInv'
<1>1. /\ UNCHANGED <<tables, faults>> /\ call[c].pc = "ready" /\ ids \in Nat
      /\ End(c, "invalid", FALSE)
    BY DEF Refuse, IInv, TypeOK
<1>. QED  BY <1>1, KeptEnd DEF Results

LEMMA SelectChunkIInv == ASSUME IInv, NEW c \in Calls, SelectChunk(c) PROVE IInv'
<1>1. /\ UNCHANGED <<tables, faults>> /\ At(c, "remove", "ready") /\ ids \in Nat
    BY DEF SelectChunk, IInv, TypeOK
<1>2. CASE End(c, "missing", FALSE)
    BY <1>1, <1>2, KeptEnd DEF Results, At
<1>3. CASE \E k \in knowledge : Goto(c, "found", 0, k) /\ UNCHANGED audit
    <2>1. PICK k \in knowledge : Goto(c, "found", 0, k) /\ UNCHANGED audit
        BY <1>3
    <2>2. k \in Rows
        BY DEF IInv, TypeOK
    <2>. QED  BY <1>1, <2>1, <2>2, ReadyMoves DEF At
<1>. QED  BY <1>2, <1>3 DEF SelectChunk

LEMMA InsertIInv == ASSUME IInv, NEW c \in Calls, Insert(c) PROVE IInv'
<1>1. /\ UNCHANGED <<agents, memory, ids, knowledge, deleted>>
      /\ At(c, "add", "embedded") /\ ids \in Nat /\ SchemaOK'
    BY KeptSchema DEF Insert, IInv, TypeOK
<1>2. inserted' \in [Calls -> 0..MaxChunks]
    <2>1. inserted[c] < call[c].op.size => inserted[c] + 1 \in 0..MaxChunks
        BY <1>1, OpType, BoundsAssumption DEF At, IInv, TypeOK
    <2>2. \/ inserted' = [inserted EXCEPT ![c] = inserted[c] + 1]
          \/ inserted' = [inserted EXCEPT ![c] = 0]
        BY DEF Insert
    <2>3. inserted[c] < call[c].op.size /\ 0 \in 0..MaxChunks
        BY BoundsAssumption DEF Insert
    <2>. QED  BY <2>1, <2>2, <2>3 DEF IInv, TypeOK
<1>3. CASE UNCHANGED <<call, audit, faults>>
    <2>1. TypeOK'
        BY <1>1, <1>2, <1>3 DEF IInv, TypeOK
    <2>2. \A d \in Calls : CallOK(d)' /\ DocOK(d)'
        BY <1>1, <1>3, CallFrame, DocFrame DEF IInv, Stored
    <2>. QED  BY <2>1, <2>2 DEF IInv
<1>4. CASE EndHarmed(c, FALSE)
    <2>1. OnlyEnds(c, "failed", FALSE) /\ audit' \in AuditType /\ faults' \in 0..MaxFaults
        BY <1>4, HarmCall DEF IInv, AuditType
    <2>2. TypeOK'
        BY <1>1, <1>2, <2>1 DEF IInv, TypeOK, OnlyEnds, Only, AuditType
    <2>3. /\ call[c].pc \in {"ready", "found", "embedded"}
          /\ ids <= ids' /\ knowledge' = knowledge /\ deleted' = deleted
        BY <1>1 DEF At
    <2>. QED  BY <2>1, <2>2, <2>3, FruitlessEnd
<1>. QED  BY <1>3, <1>4 DEF Insert

\* The rows of a call are stored together, and are the rows of no other.
LEMMA CommitIInv == ASSUME IInv, NEW c \in Calls, Commit(c) PROVE IInv'
<1>1. /\ UNCHANGED <<agents, memory, ids, deleted>>
      /\ At(c, "add", "embedded") /\ ids \in Nat /\ SchemaOK'
    BY KeptSchema DEF Commit, IInv, TypeOK
<1>2. inserted' \in [Calls -> 0..MaxChunks]
    BY BoundsAssumption DEF Commit, IInv, TypeOK
<1>3. CASE EndHarmed(c, FALSE) /\ knowledge' = knowledge
    <2>1. OnlyEnds(c, "failed", FALSE) /\ audit' \in AuditType /\ faults' \in 0..MaxFaults
        BY <1>3, HarmCall DEF IInv, AuditType
    <2>2. TypeOK'
        BY <1>1, <1>2, <1>3, <2>1 DEF IInv, TypeOK, OnlyEnds, Only, AuditType
    <2>3. /\ call[c].pc \in {"ready", "found", "embedded"}
          /\ ids <= ids' /\ knowledge' = knowledge /\ deleted' = deleted
        BY <1>1, <1>3 DEF At
    <2>. QED  BY <2>1, <2>2, <2>3, FruitlessEnd
<1>4. CASE /\ knowledge' = knowledge \cup Chunks(c)
           /\ \/ End(c, "ok", TRUE) /\ UNCHANGED faults
              \/ Goto(c, "committed", 0, <<>>) /\ UNCHANGED <<audit, faults>>
              \/ EndHarmed(c, TRUE)
    <2>1. Chunks(c) \subseteq Rows /\ Stored(c) = {} /\ call[c].op \in Ops
        <3>1. call[c].op \in Ops /\ call[c].op.size \in 0..MaxChunks
            BY <1>1, OpType DEF At
        <3>2. Stored(c) = {}
            BY <1>1 DEF At, IInv, DocOK
        <3>3. Chunks(c) \subseteq Rows
            BY <3>1, BoundsAssumption DEF Chunks, Rows
        <3>. QED  BY <3>1, <3>2, <3>3
    <2>2. knowledge' \subseteq Rows /\ knowledge' \cap deleted' = {}
        BY <1>1, <1>4, <2>1 DEF IInv, TypeOK, Stored, Chunks
    <2>3. Stored(c)' = Chunks(c)
        BY <1>1, <1>4, <2>1 DEF Stored, Chunks
    <2>4. \A d \in Calls \ {c} : Stored(d)' = Stored(d)
        BY <1>1, <1>4 DEF Stored, Chunks
    <2>5. /\ audit' \in AuditType /\ faults' \in 0..MaxFaults
          /\ \/ Only(c, Active(call[c].op, "committed", 0, <<>>))
             \/ Only(c, Done(call[c].op, "ok", TRUE, FALSE))
             \/ Only(c, Done(call[c].op, "failed", TRUE, TRUE))
        BY <1>4, MoveCall, EndCall, HarmCall DEF IInv, TypeOK, AuditType, Results
    <2>6. TypeOK'
        BY <1>1, <1>2, <2>2, <2>5 DEF IInv, TypeOK, Only, AuditType
    <2>7. CallOK(c)'
        BY <1>1, <2>1, <2>5 DEF CallOK, Only, Active, Done, At
    <2>8. Chunks(c)' = Chunks(c)
        BY <2>5 DEF Only, Active, Done, Chunks
    <2>9. DocOK(c)'
        BY <1>1, <2>3, <2>5, <2>8 DEF DocOK, WholeOrAbsent, Only, Active, Done, At
    <2>10. \A d \in Calls \ {c} : call'[d] = call[d]
        BY <2>5 DEF Only
    <2>11. /\ ids <= ids' /\ deleted \subseteq deleted'
           /\ knowledge \cup deleted \subseteq knowledge' \cup deleted'
        BY <1>1, <1>4
    <2>. QED  BY <2>4, <2>6, <2>7, <2>9, <2>10, <2>11, Preserved
<1>. QED  BY <1>3, <1>4 DEF Commit

LEMMA RefreshIInv == ASSUME IInv, NEW c \in Calls, Refresh(c) PROVE IInv'
<1>1. UNCHANGED <<tables, faults>> /\ At(c, "add", "committed")
    BY DEF Refresh
<1>2. Stored(c) = Chunks(c)
    BY <1>1 DEF IInv, DocOK
<1>3. PICK result \in {"ok", "failed"} :
          /\ End(c, result, TRUE)
          /\ result = "failed" => ~(Chunks(c) \subseteq knowledge)
    BY DEF Refresh
<1>4. Only(c, Done(call[c].op, result, TRUE, FALSE)) /\ audit' \in AuditType
    BY <1>3, EndCall DEF IInv, Results, AuditType
<1>5. TypeOK'
    BY <1>1, <1>4, KeptSchema DEF IInv, TypeOK, tables, Only, AuditType
<1>6. CallOK(c)'
    BY <1>1, <1>4 DEF IInv, CallOK, Only, Done, At
<1>7. \A d \in Calls : Stored(d)' = Stored(d)
    BY <1>1 DEF Stored, tables
<1>8. Chunks(c)' = Chunks(c) /\ deleted' = deleted
    BY <1>1, <1>4 DEF Only, Done, Chunks, tables
<1>9. result = "failed" => Chunks(c) \cap deleted # {}
    BY <1>2, <1>3 DEF Stored
<1>10. DocOK(c)'
    BY <1>1, <1>2, <1>4, <1>7, <1>8, <1>9 DEF DocOK, WholeOrAbsent, Only, Done, At
<1>11. ids \in Nat
    BY DEF IInv, TypeOK
<1>. QED  BY <1>1, <1>4, <1>5, <1>6, <1>7, <1>10, <1>11, Preserved DEF Only, tables

\* A deleted row stays one that was stored.
LEMMA DeleteChunkIInv == ASSUME IInv, NEW c \in Calls, DeleteChunk(c) PROVE IInv'
<1>1. /\ UNCHANGED <<agents, memory, ids, inserted>>
      /\ At(c, "remove", "found") /\ ids \in Nat /\ SchemaOK'
    BY KeptSchema DEF DeleteChunk, IInv, TypeOK
<1>2. call[c].chunk \in knowledge \cup deleted
    BY <1>1 DEF IInv, CallOK
<1>3. /\ knowledge' \cup deleted' = knowledge \cup deleted
      /\ deleted \subseteq deleted' /\ knowledge' \cap deleted' = {}
    BY <1>2 DEF DeleteChunk, IInv, TypeOK
<1>4. PICK result \in {"ok", "failed"}, applied \in BOOLEAN :
          \/ End(c, result, applied) /\ faults' = faults
          \/ EndHarmed(c, applied) /\ result = "failed"
    BY DEF DeleteChunk
<1>5. OnlyEnds(c, result, applied) /\ audit' \in AuditType /\ faults' \in 0..MaxFaults
    BY <1>4, EndCall, HarmCall DEF IInv, TypeOK, Results, AuditType
<1>6. knowledge' \subseteq Rows /\ deleted' \subseteq Rows
    BY <1>3 DEF IInv, TypeOK
<1>7. TypeOK'
    BY <1>1, <1>3, <1>5, <1>6 DEF IInv, TypeOK, OnlyEnds, Only, AuditType
<1>8. CallOK(c)'
    BY <1>1, <1>5, CallEnds DEF IInv, At
<1>9. \A d \in Calls : Stored(d)' = Stored(d)
    BY <1>3 DEF Stored
<1>10. DocOK(c)'
    BY <1>1, <1>5, <1>9 DEF IInv, DocOK, OnlyEnds, Only, Done, At
<1>. QED  BY <1>1, <1>3, <1>5, <1>7, <1>8, <1>9, <1>10, Preserved DEF OnlyEnds, Only

LEMMA InvokeIInv == ASSUME IInv, NEW c \in Calls, NEW o \in Ops, Invoke(c, o) PROVE IInv'
<1>1. UNCHANGED <<tables, audit, faults>> /\ call[c].pc = "new"
    BY DEF Invoke
<1>2. Only(c, Active(o, "ready", 0, <<>>))
    BY DEF Invoke, IInv, TypeOK, Only, Active, Call
<1>3. TypeOK'
    BY <1>1, <1>2, KeptSchema DEF IInv, TypeOK, tables, Only
<1>4. CallOK(c)'
    BY <1>2 DEF CallOK, Only, Active, At
<1>5. \A d \in Calls : Stored(d)' = Stored(d)
    BY <1>1 DEF Stored, tables
<1>6. DocOK(c)'
    BY <1>1, <1>2, <1>5 DEF IInv, DocOK, Only, Active, At
<1>7. ids \in Nat
    BY DEF IInv, TypeOK
<1>. QED  BY <1>1, <1>2, <1>3, <1>4, <1>5, <1>6, <1>7, Preserved DEF Only, tables

\* Of a call that is over, only the fault that lost its audit is noted.
LEMMA AuditIInv == ASSUME IInv, NEW c \in Calls, Audit(c) PROVE IInv'
<1>1. UNCHANGED tables /\ audit' \in AuditType
    BY DEF Audit, IInv, TypeOK, AuditType
<1>2. faults' \in 0..MaxFaults
    BY BoundsAssumption DEF Audit, Fault, IInv, TypeOK
<1>3. /\ call' \in [Calls -> Call]
      /\ \A d \in Calls : call'[d] = call[d] \/ call'[d] = [call[d] EXCEPT !.harmed = TRUE]
    <2>1. [call[c] EXCEPT !.harmed = TRUE] \in Call
        BY DEF IInv, TypeOK, Call
    <2>2. \/ call' = call
          \/ call' = [call EXCEPT ![c] = [call[c] EXCEPT !.harmed = TRUE]]
        BY DEF Audit
    <2>. QED  BY <2>1, <2>2 DEF IInv, TypeOK
<1>4. TypeOK'
    BY <1>1, <1>2, <1>3, KeptSchema DEF IInv, TypeOK, tables, AuditType
<1>5. ASSUME NEW d \in Calls PROVE CallOK(d)' /\ DocOK(d)'
    <2>1. /\ call'[d].op = call[d].op /\ call'[d].pc = call[d].pc /\ call'[d].row = call[d].row
          /\ call'[d].chunk = call[d].chunk /\ call'[d].result = call[d].result
          /\ call'[d].applied = call[d].applied
          /\ call[d].harmed => call'[d].harmed
        BY <1>3 DEF IInv, TypeOK, Call
    <2>2. Stored(d)' = Stored(d) /\ Chunks(d)' = Chunks(d) /\ deleted' = deleted
        BY <1>1, <2>1 DEF Stored, Chunks, tables
    <2>3. CallOK(d)'
        BY <1>1, <2>1 DEF IInv, CallOK, At, tables
    <2>4. WholeOrAbsent(d) => WholeOrAbsent(d)'
        BY <2>1, <2>2 DEF WholeOrAbsent
    <2>5. DocOK(d)'
        BY <2>1, <2>2, <2>4 DEF IInv, DocOK, At
    <2>. QED  BY <2>3, <2>5
<1>. QED  BY <1>4, <1>5 DEF IInv

\* A call in progress is lost: what it had committed stays.
LEMMA CrashIInv == ASSUME IInv, Crash PROVE IInv'
<1>1. UNCHANGED <<agents, memory, ids, knowledge, deleted>> /\ audit' \in AuditType
    BY DEF Crash, IInv, TypeOK, AuditType
<1>2. faults' \in 0..MaxFaults /\ inserted' \in [Calls -> 0..MaxChunks]
    BY BoundsAssumption DEF Crash, Fault, IInv, TypeOK
<1>3. ASSUME NEW d \in Calls
      PROVE  /\ call'[d] \in Call
             /\ \/ call'[d] = call[d]
                \/ call[d].pc = "done" /\ call'[d] = [call[d] EXCEPT !.harmed = TRUE]
                \/ /\ call[d].pc \notin {"new", "done"}
                   /\ \E applied \in BOOLEAN : call'[d] = Done(call[d].op, "lost", applied, TRUE)
    <2>1. call[d] \in Call
        BY DEF IInv, TypeOK
    <2>2. CASE call[d].pc = "new" \/ (call[d].pc = "done" /\ audit[d] # "pending")
        BY <2>1, <2>2 DEF Crash
    <2>3. CASE call[d].pc = "done" /\ audit[d] = "pending"
        BY <2>1, <2>3 DEF Crash, Call
    <2>4. CASE call[d].pc \notin {"new", "done"}
        BY <2>1, <2>4 DEF Crash, Call, Done
    <2>. QED  BY <2>2, <2>3, <2>4
<1>4. call' \in [Calls -> Call]
    BY <1>3 DEF Crash
<1>5. TypeOK'
    BY <1>1, <1>2, <1>4, KeptSchema DEF IInv, TypeOK, AuditType
<1>6. ASSUME NEW d \in Calls PROVE CallOK(d)' /\ DocOK(d)'
    <2>1. Stored(d)' = Stored(d) /\ deleted' = deleted /\ knowledge' = knowledge /\ ids' = ids
        BY <1>1 DEF Stored
    <2>2. CallOK(d) /\ DocOK(d)
        BY DEF IInv
    <2>3. CASE call'[d] = call[d]
        BY <2>1, <2>2, <2>3, CallFrame, DocFrame DEF IInv, TypeOK
    <2>4. CASE call[d].pc = "done" /\ call'[d] = [call[d] EXCEPT !.harmed = TRUE]
        <3>1. /\ call'[d].op = call[d].op /\ call'[d].pc = "done"
              /\ call'[d].result = call[d].result /\ call'[d].harmed
            BY <2>4 DEF IInv, TypeOK, Call
        <3>2. Chunks(d)' = Chunks(d)
            BY <3>1 DEF Chunks
        <3>. QED  BY <2>1, <2>2, <2>4, <3>1, <3>2 DEF CallOK, DocOK, WholeOrAbsent, At
    <2>5. CASE /\ call[d].pc \notin {"new", "done"}
               /\ \E applied \in BOOLEAN : call'[d] = Done(call[d].op, "lost", applied, TRUE)
        <3>1. /\ call'[d].op = call[d].op /\ call'[d].pc = "done" /\ call'[d].result = "lost"
            BY <2>5 DEF Done
        <3>2. Chunks(d)' = Chunks(d)
            BY <3>1 DEF Chunks
        <3>3. call[d].pc \in {"ready", "found", "embedded", "committed"}
            BY <2>5 DEF IInv, TypeOK, Call
        <3>. QED  BY <2>1, <2>2, <3>1, <3>2, <3>3 DEF CallOK, DocOK, WholeOrAbsent, At
    <2>. QED  BY <1>3, <2>3, <2>4, <2>5
<1>. QED  BY <1>5, <1>6 DEF IInv

-----------------------------------------------------------------------------
(* The invariants                                                          *)

LEMMA InitIInv == Init => IInv
<1>. SUFFICES ASSUME Init PROVE IInv
    OBVIOUS
<1>1. SchemaOK
    BY DEF Init, SchemaOK, Entries
<1>2. call \in [Calls -> Call]
    BY DEF Init, New, Active, Call
<1>3. TypeOK
    BY <1>1, <1>2, BoundsAssumption DEF Init, TypeOK
<1>4. \A c \in Calls : CallOK(c) /\ DocOK(c)
    BY DEF Init, CallOK, DocOK, Stored, New, Active, At
<1>. QED  BY <1>3, <1>4 DEF IInv

LEMMA NextIInv == IInv /\ [Next]_vars => IInv'
<1>. SUFFICES ASSUME IInv, [Next]_vars PROVE IInv'
    OBVIOUS
<1>1. CASE UNCHANGED vars
    <2>1. TypeOK'
        BY <1>1, KeptSchema DEF vars, tables, IInv, TypeOK
    <2>2. \A d \in Calls : CallOK(d)' /\ DocOK(d)'
        BY <1>1 DEF vars, tables, IInv, CallOK, DocOK, WholeOrAbsent, Stored, Chunks, At
    <2>. QED  BY <2>1, <2>2 DEF IInv
<1>2. ASSUME NEW c \in Calls, NEW o \in Ops, Invoke(c, o) PROVE IInv'
    BY <1>2, InvokeIInv
<1>3. ASSUME NEW c \in Calls, Step(c) PROVE IInv'
    BY <1>3, SetIInv, GetIInv, ForgetIInv, SelectIInv, DeleteIInv, DeleteAgentIInv, EmbedIInv,
       InsertIInv, CommitIInv, RefreshIInv, SelectChunkIInv, DeleteChunkIInv DEF Step
<1>4. ASSUME NEW c \in Calls, Refuse(c) \/ Audit(c) PROVE IInv'
    BY <1>4, RefuseIInv, AuditIInv
<1>5. CASE Crash
    BY <1>5, CrashIInv
<1>. QED  BY <1>1, <1>2, <1>3, <1>4, <1>5 DEF Next

THEOREM Invariance == Spec => []IInv
BY InitIInv, NextIInv, PTL DEF Spec

\* The tables keep the constraints of the schema, whatever calls and faults meet.
THEOREM TypeCorrect == Spec => []TypeOK
<1>1. IInv => TypeOK
    BY DEF IInv
<1>. QED  BY <1>1, Invariance, PTL

\* Whatever else runs, fails or restarts meanwhile, a document is stored with all its
\* chunks or none, and who is told that it is stored, or that it is not, is told the truth.
THEOREM DocumentsWhole == Spec => []AddIsAllOrNothing
<1>1. IInv => AddIsAllOrNothing
    <2>. SUFFICES ASSUME IInv, NEW c \in Calls, call[c].op.kind = "add", call[c].pc # "new"
                  PROVE  WholeOrAbsent(c)
        BY DEF AddIsAllOrNothing
    <2>1. call[c].pc \in {"ready", "embedded", "committed", "done"}
        BY DEF IInv, TypeOK, Call, CallOK
    <2>. QED  BY <2>1 DEF IInv, CallOK, DocOK, WholeOrAbsent, At
<1>. QED  BY <1>1, Invariance, PTL

-----------------------------------------------------------------------------
(* The memory implements MemoryMap: how a step moves the mapped state      *)

LEMMA OtherKeeps ==
    ASSUME NEW d \in Calls, call'[d] = call[d],
           At(d, "delete", "found") => Gone(d)' = Gone(d)
    PROVE  OpOf(d)' = OpOf(d) /\ PhaseOf(d)' = PhaseOf(d)
BY DEF OpOf, PhaseOf, At

\* A call of the map ends in effect, or misses, or fails.
LEMMA EndPhase ==
    ASSUME NEW c \in Calls, call[c].pc # "new", NEW result, NEW applied \in BOOLEAN,
           OnlyEnds(c, result, applied)
    PROVE  /\ OpOf(c)' = OpOf(c)
           /\ PhaseOf(c)' = IF call[c].op.kind \in {"add", "remove"} THEN "failed"
                            ELSE IF applied THEN "applied"
                            ELSE IF result = "missing" THEN "missing" ELSE "failed"
BY DEF OnlyEnds, Only, Done, OpOf, PhaseOf, At

\* A call in progress is pending, but for a deletion whose row has gone.
LEMMA PendingPhase ==
    ASSUME IInv, NEW c \in Calls, call[c].pc \notin {"new", "done"}
    PROVE  PhaseOf(c) = IF At(c, "delete", "found") /\ Gone(c) THEN "applied" ELSE "pending"
BY DEF IInv, CallOK, PhaseOf, At

\* What the map knows of an operation of the memory.
LEMMA MemoryOp ==
    ASSUME NEW c \in Calls, call[c].pc # "new", call[c].op.kind \notin {"add", "remove"}
    PROVE  /\ OpOf(c).kind = call[c].op.kind
           /\ OpOf(c).entry = call[c].op.entry
           /\ OpOf(c).value = call[c].op.value
BY DEF OpOf

LEMMA Stutters ==
    ASSUME \A e \in Entries : memory'[e] = memory[e],
           \A d \in Calls : OpOf(d)' = OpOf(d) /\ PhaseOf(d)' = PhaseOf(d)
    PROVE  UNCHANGED Map!vars
BY DEF Map!vars

LEMMA FailStep ==
    ASSUME NEW S \in SUBSET {d \in Calls : PhaseOf(d) = "pending"},
           \A e \in Entries : memory'[e] = memory[e],
           \A d \in Calls : /\ OpOf(d)' = OpOf(d)
                            /\ PhaseOf(d)' = IF d \in S THEN "failed" ELSE PhaseOf(d)
    PROVE  Map!Next
<1>1. Map!Fail
    BY DEF Map!Fail
<1>. QED  BY <1>1 DEF Map!Next

\* A step that leaves the memory alone and ends one pending call without effect.
LEMMA FruitlessStep ==
    ASSUME IInv, NEW c \in Calls, call[c].pc # "new", PhaseOf(c) = "pending",
           NEW result, OnlyEnds(c, result, FALSE),
           result # "missing" \/ call[c].op.kind \in {"add", "remove"},
           memory' = memory
    PROVE  Map!Next
<1>1. OpOf(c)' = OpOf(c) /\ PhaseOf(c)' = "failed"
    BY EndPhase
<1>2. \A d \in Calls \ {c} : OpOf(d)' = OpOf(d) /\ PhaseOf(d)' = PhaseOf(d)
    BY OtherKeeps DEF OnlyEnds, Only, Gone
<1>3. {c} \in SUBSET {d \in Calls : PhaseOf(d) = "pending"}
    OBVIOUS
<1>. QED  BY <1>1, <1>2, <1>3, FailStep

\* Deletions that have read a row of an entry of E and not yet deleted it.
Deleting(E) == {d \in Calls : At(d, "delete", "found") /\ ~Gone(d) /\ call[d].op.entry \in E}

\* A step of c that removes the rows of E has the pending deletions of those rows
\* take effect: their rows are gone.
LEMMA RemovalStep ==
    ASSUME IInv, NEW c \in Calls, NEW E \in SUBSET Entries,
           \A d \in Calls \ {c} : call'[d] = call[d],
           \A e \in Entries : memory'[e] = IF e \in E THEN NoRow ELSE memory[e]
    PROVE  /\ Deleting(E) \subseteq Map!Removers(E)
           /\ \A d \in Calls \ {c} :
                 /\ OpOf(d)' = OpOf(d)
                 /\ PhaseOf(d)' = IF d \in Deleting(E) THEN "applied" ELSE PhaseOf(d)
           /\ \A e \in Entries : memory'[e].value = IF e \in E THEN None ELSE memory[e].value
<1>1. ASSUME NEW d \in Calls, At(d, "delete", "found")
      PROVE  /\ call[d].op.entry \in Entries /\ call[d].row # 0
             /\ PhaseOf(d) = IF Gone(d) THEN "applied" ELSE "pending"
    BY <1>1, OpType, PendingPhase DEF IInv, CallOK, At
<1>2. ASSUME NEW d \in Deleting(E) PROVE d \in Map!Removers(E)
    <2>1. /\ d \in Calls /\ At(d, "delete", "found") /\ ~Gone(d) /\ call[d].op.entry \in E
        BY DEF Deleting
    <2>2. memory[call[d].op.entry].value # None
        BY <1>1, <2>1 DEF Gone, IInv, TypeOK, SchemaOK
    <2>3. PhaseOf(d) = "pending" /\ OpOf(d).kind = "delete" /\ OpOf(d).entry = call[d].op.entry
        BY <1>1, <2>1, MemoryOp DEF At
    <2>. QED  BY <2>1, <2>2, <2>3 DEF Map!Removers
<1>3. ASSUME NEW d \in Calls \ {c}
      PROVE  /\ OpOf(d)' = OpOf(d)
             /\ PhaseOf(d)' = IF d \in Deleting(E) THEN "applied" ELSE PhaseOf(d)
    <2>1. call'[d] = call[d]
        OBVIOUS
    <2>2. OpOf(d)' = OpOf(d)
        BY <2>1 DEF OpOf
    <2>3. CASE d \in Deleting(E)
        <3>1. Gone(d)' /\ At(d, "delete", "found")
            BY <1>1, <2>1, <2>3 DEF Deleting, Gone, NoRow, At
        <3>2. PhaseOf(d)' = "applied"
            BY <2>1, <3>1 DEF PhaseOf, At
        <3>. QED  BY <2>2, <2>3, <3>2
    <2>4. CASE d \notin Deleting(E)
        <3>1. At(d, "delete", "found") => Gone(d)' = Gone(d)
            BY <1>1, <2>1, <2>4 DEF Deleting, Gone, NoRow, At
        <3>. QED  BY <2>1, <2>4, <3>1, OtherKeeps
    <2>. QED  BY <2>3, <2>4
<1>4. \A e \in Entries : memory'[e].value = IF e \in E THEN None ELSE memory[e].value
    BY DEF NoRow
<1>. QED  BY <1>2, <1>3, <1>4

LEMMA SetMaps == ASSUME IInv, NEW c \in Calls, Set(c) PROVE Map!Next
<1>. DEFINE e == call[c].op.entry
            v == call[c].op.value
<1>1. At(c, "set", "ready") /\ e \in Entries /\ v \in Values /\ ids \in Nat
    BY OpType DEF Set, At, IInv, TypeOK
<1>2. /\ PhaseOf(c) = "pending"
      /\ OpOf(c).kind = "set" /\ OpOf(c).entry = e /\ OpOf(c).value = v
    BY <1>1, PendingPhase, MemoryOp DEF At
<1>3. CASE UNCHANGED memory /\ OnlyEnds(c, "failed", FALSE)
    BY <1>1, <1>2, <1>3, FruitlessStep DEF At
<1>4. CASE /\ Upsert(e, v)
           /\ \E result \in {"ok", "failed"} : OnlyEnds(c, result, TRUE)
    <2>1. PhaseOf(c)' = "applied" /\ OpOf(c)' = OpOf(c)
        BY <1>1, <1>4, EndPhase DEF At
    <2>2. /\ memory'[e].value = v
          /\ memory'[e].id = IF memory[e].id = 0 THEN ids + 1 ELSE memory[e].id
          /\ \A f \in Entries \ {e} : memory'[f] = memory[f]
        BY <1>1, <1>4 DEF Upsert, IInv, TypeOK, SchemaOK
    <2>3. ASSUME NEW d \in Calls \ {c} PROVE OpOf(d)' = OpOf(d) /\ PhaseOf(d)' = PhaseOf(d)
        <3>1. call'[d] = call[d]
            BY <1>4 DEF OnlyEnds, Only
        <3>2. At(d, "delete", "found") => call[d].row \in 1..ids /\ call[d].op.entry \in Entries
            BY OpType DEF IInv, CallOK, At
        <3>3. At(d, "delete", "found") => Gone(d)' = Gone(d)
            BY <1>1, <2>2, <3>1, <3>2 DEF Gone
        <3>. QED  BY <3>1, <3>3, OtherKeeps
    <2>4. Map!Set(c)
        BY <1>1, <1>2, <2>1, <2>2, <2>3 DEF Map!Set, Map!Applied
    <2>. QED  BY <2>4 DEF Map!Next
<1>. QED  BY <1>3, <1>4, EndCall, HarmCall DEF Set, IInv, Results

LEMMA GetMaps == ASSUME IInv, NEW c \in Calls, Get(c) PROVE Map!Next
<1>. DEFINE e == call[c].op.entry
<1>1. At(c, "get", "ready") /\ e \in Entries /\ memory' = memory
    BY OpType DEF Get, At, tables
<1>2. PhaseOf(c) = "pending" /\ OpOf(c).kind = "get" /\ OpOf(c).entry = e
    BY <1>1, PendingPhase, MemoryOp DEF At
<1>3. memory[e].id # 0 <=> memory[e].value # None
    BY <1>1 DEF IInv, TypeOK, SchemaOK
<1>4. PICK applied \in BOOLEAN, result \in {"ok", "missing"} :
          /\ OnlyEnds(c, result, applied)
          /\ applied <=> memory[e].value # None
          /\ result = IF applied THEN "ok" ELSE "missing"
    BY <1>3, EndCall DEF Get, IInv, Results
<1>5. /\ OpOf(c)' = OpOf(c)
      /\ PhaseOf(c)' = IF applied THEN "applied" ELSE "missing"
    BY <1>1, <1>4, EndPhase DEF At
<1>6. \A d \in Calls \ {c} : OpOf(d)' = OpOf(d) /\ PhaseOf(d)' = PhaseOf(d)
    BY <1>1, <1>4, OtherKeeps DEF OnlyEnds, Only, Gone
<1>7. Map!Get(c) \/ Map!Miss(c)
    BY <1>1, <1>2, <1>4, <1>5, <1>6 DEF Map!Get, Map!Miss, Map!Applied
<1>. QED  BY <1>7 DEF Map!Next

LEMMA ForgetMaps == ASSUME IInv, NEW c \in Calls, Forget(c) PROVE Map!Next
<1>. DEFINE e == call[c].op.entry
<1>1. At(c, "forget", "ready") /\ e \in Entries
    BY OpType DEF Forget, At
<1>2. PhaseOf(c) = "pending" /\ OpOf(c).kind = "forget" /\ OpOf(c).entry = e
    BY <1>1, PendingPhase, MemoryOp DEF At
<1>3. CASE memory' = memory /\ OnlyEnds(c, "failed", FALSE)
    BY <1>1, <1>2, <1>3, FruitlessStep DEF At
<1>4. CASE /\ memory' = [memory EXCEPT ![e] = NoRow]
           /\ \E result \in {"ok", "failed"} : OnlyEnds(c, result, TRUE)
    <2>1. PhaseOf(c)' = "applied" /\ OpOf(c)' = OpOf(c)
        BY <1>1, <1>4, EndPhase DEF At
    <2>2. \A f \in Entries : memory'[f] = IF f \in {e} THEN NoRow ELSE memory[f]
        BY <1>1, <1>4 DEF IInv, TypeOK, SchemaOK
    <2>3. \A d \in Calls \ {c} : call'[d] = call[d]
        BY <1>4 DEF OnlyEnds, Only
    <2>4. /\ Deleting({e}) \subseteq Map!Removers({e})
          /\ \A d \in Calls \ {c} :
                /\ OpOf(d)' = OpOf(d)
                /\ PhaseOf(d)' = IF d \in Deleting({e}) THEN "applied" ELSE PhaseOf(d)
          /\ \A f \in Entries : memory'[f].value = IF f \in {e} THEN None ELSE memory[f].value
        BY <1>1, <2>2, <2>3, RemovalStep
    <2>5. \E S \in SUBSET Map!Removers({OpOf(c).entry}) :
              \A d \in Calls : PhaseOf(d)' = IF d \in S \cup {c} THEN "applied" ELSE PhaseOf(d)
        BY <1>2, <2>1, <2>4
    <2>6. Map!Forget(c)
        BY <1>2, <2>1, <2>4, <2>5 DEF Map!Forget, Map!Applied, Map!Clear
    <2>. QED  BY <2>6 DEF Map!Next
<1>. QED  BY <1>3, <1>4, EndCall, HarmCall DEF Forget, IInv, Results

LEMMA DeleteMaps == ASSUME IInv, NEW c \in Calls, Delete(c) PROVE [Map!Next]_Map!vars
<1>. DEFINE e == call[c].op.entry
<1>1. At(c, "delete", "found") /\ e \in Entries
    BY OpType DEF Delete, At
<1>2. PhaseOf(c) = IF Gone(c) THEN "applied" ELSE "pending"
    BY <1>1, PendingPhase DEF At
<1>3. CASE Gone(c)
    <2>1. memory' = memory /\ \E result \in {"ok", "failed"} : OnlyEnds(c, result, TRUE)
        BY <1>3, EndCall, HarmCall DEF Delete, IInv, Results
    <2>2. OpOf(c)' = OpOf(c) /\ PhaseOf(c)' = PhaseOf(c)
        BY <1>1, <1>2, <1>3, <2>1, EndPhase DEF At
    <2>3. \A d \in Calls \ {c} : OpOf(d)' = OpOf(d) /\ PhaseOf(d)' = PhaseOf(d)
        BY <2>1, OtherKeeps DEF OnlyEnds, Only, Gone
    <2>. QED  BY <2>1, <2>2, <2>3, Stutters
<1>4. CASE ~Gone(c) /\ memory' = memory /\ OnlyEnds(c, "failed", FALSE)
    BY <1>1, <1>2, <1>4, FruitlessStep DEF At
<1>5. CASE /\ ~Gone(c) /\ memory' = [memory EXCEPT ![e] = NoRow]
           /\ \E result \in {"ok", "failed"} : OnlyEnds(c, result, TRUE)
    <2>1. PhaseOf(c)' = "applied" /\ OpOf(c)' = OpOf(c) /\ c \in Deleting({e})
        BY <1>1, <1>5, EndPhase DEF At, Deleting
    <2>2. \A f \in Entries : memory'[f] = IF f \in {e} THEN NoRow ELSE memory[f]
        BY <1>1, <1>5 DEF IInv, TypeOK, SchemaOK
    <2>3. \A d \in Calls \ {c} : call'[d] = call[d]
        BY <1>5 DEF OnlyEnds, Only
    <2>4. /\ Deleting({e}) \subseteq Map!Removers({e})
          /\ \A d \in Calls \ {c} :
                /\ OpOf(d)' = OpOf(d)
                /\ PhaseOf(d)' = IF d \in Deleting({e}) THEN "applied" ELSE PhaseOf(d)
          /\ \A f \in Entries : memory'[f].value = IF f \in {e} THEN None ELSE memory[f].value
        BY <1>1, <2>2, <2>3, RemovalStep
    <2>5. PICK f \in Entries : f = e
        BY <1>1
    <2>6. \E S \in SUBSET Map!Removers({f}) :
              /\ S # {}
              /\ \A d \in Calls : PhaseOf(d)' = IF d \in S THEN "applied" ELSE PhaseOf(d)
        BY <2>1, <2>4, <2>5
    <2>7. Map!Delete(f)
        BY <2>1, <2>4, <2>5, <2>6 DEF Map!Delete, Map!Applied, Map!Clear
    <2>. QED  BY <2>7 DEF Map!Next
<1>6. ~Gone(c) =>
        \/ memory' = memory /\ OnlyEnds(c, "failed", FALSE)
        \/ /\ memory' = [memory EXCEPT ![e] = NoRow]
           /\ \E result \in {"ok", "failed"} : OnlyEnds(c, result, TRUE)
    <2>1. ~Gone(c) /\ EndHarmed(c, Gone(c)) => EndHarmed(c, FALSE)
        BY DEF EndHarmed, Gone
    <2>. QED  BY <2>1, EndCall, HarmCall DEF Delete, IInv, Results
<1>. QED  BY <1>3, <1>4, <1>5, <1>6

LEMMA DeleteAgentMaps == ASSUME IInv, NEW c \in Calls, DeleteAgent(c) PROVE Map!Next
<1>. DEFINE a == Agent(c)
            E == {e \in Entries : e[1] = a}
<1>1. At(c, "drop", "found")
    BY DEF DeleteAgent
<1>2. /\ PhaseOf(c) = "pending"
      /\ OpOf(c).kind = "drop" /\ OpOf(c).entry = call[c].op.entry
    BY <1>1, PendingPhase, MemoryOp DEF At
<1>3. CASE memory' = memory /\ OnlyEnds(c, "failed", FALSE)
    BY <1>1, <1>2, <1>3, FruitlessStep DEF At
<1>4. CASE /\ memory' = Cleared(a)
           /\ \E result \in {"ok", "failed"} : OnlyEnds(c, result, TRUE)
    <2>1. PhaseOf(c)' = "applied" /\ OpOf(c)' = OpOf(c)
        BY <1>1, <1>4, EndPhase DEF At
    <2>2. \A f \in Entries : memory'[f] = IF f \in E THEN NoRow ELSE memory[f]
        BY <1>4 DEF Cleared
    <2>3. \A d \in Calls \ {c} : call'[d] = call[d]
        BY <1>4 DEF OnlyEnds, Only
    <2>4. /\ Deleting(E) \subseteq Map!Removers(E)
          /\ \A d \in Calls \ {c} :
                /\ OpOf(d)' = OpOf(d)
                /\ PhaseOf(d)' = IF d \in Deleting(E) THEN "applied" ELSE PhaseOf(d)
          /\ \A f \in Entries : memory'[f].value = IF f \in E THEN None ELSE memory[f].value
        BY <2>2, <2>3, RemovalStep
    <2>5. E = {e \in Entries : e[1] = OpOf(c).entry[1]}
        BY <1>2 DEF Agent
    <2>. HIDE DEF E
    <2>6. \E S \in SUBSET Map!Removers(E) :
              \A d \in Calls : PhaseOf(d)' = IF d \in S \cup {c} THEN "applied" ELSE PhaseOf(d)
        BY <2>1, <2>4
    <2>7. Map!Drop(c)
        BY <1>2, <2>1, <2>4, <2>5, <2>6 DEF Map!Drop, Map!Applied, Map!Clear
    <2>. QED  BY <2>7 DEF Map!Next
<1>. QED  BY <1>3, <1>4, EndCall, HarmCall DEF DeleteAgent, IInv, Results

LEMMA SelectMaps == ASSUME IInv, NEW c \in Calls, Select(c) PROVE [Map!Next]_Map!vars
<1>. DEFINE e == call[c].op.entry
            id == memory[e].id
<1>1. /\ memory' = memory /\ call[c].pc = "ready" /\ e \in Entries
      /\ call[c].op.kind \in {"delete", "drop"}
    BY OpType DEF Select, At, tables
<1>2. PhaseOf(c) = "pending" /\ OpOf(c).kind = call[c].op.kind /\ OpOf(c).entry = e
    BY <1>1, PendingPhase, MemoryOp DEF At
<1>3. ASSUME NEW r, Only(c, r)
      PROVE  \A d \in Calls \ {c} : OpOf(d)' = OpOf(d) /\ PhaseOf(d)' = PhaseOf(d)
    BY <1>1, <1>3, OtherKeeps DEF Only, Gone
<1>4. CASE End(c, "missing", FALSE)
    <2>1. OnlyEnds(c, "missing", FALSE) /\ Only(c, Done(call[c].op, "missing", FALSE, FALSE))
        BY <1>4, EndCall DEF IInv, Results
    <2>2. PhaseOf(c)' = "missing" /\ OpOf(c)' = OpOf(c)
        BY <1>1, <2>1, EndPhase
    <2>3. call[c].op.kind = "delete" => memory[e].value = None
        BY <1>1, <1>4 DEF Select, At, IInv, TypeOK, SchemaOK, End, Goto, Done, Active, Call
    <2>4. \A d \in Calls \ {c} : OpOf(d)' = OpOf(d) /\ PhaseOf(d)' = PhaseOf(d)
        BY <1>3, <2>1
    <2>5. Map!Miss(c)
        BY <1>1, <1>2, <2>2, <2>3, <2>4 DEF Map!Miss
    <2>. QED  BY <2>5 DEF Map!Next
<1>5. ASSUME NEW row \in Nat, Goto(c, "found", row, <<>>),
             call[c].op.kind = "delete" => row = id
      PROVE  UNCHANGED Map!vars
    <2>1. Only(c, Active(call[c].op, "found", row, <<>>))
        BY <1>5, MoveCall DEF IInv
    <2>2. PhaseOf(c)' = "pending" /\ OpOf(c)' = OpOf(c)
        BY <1>1, <1>5, <2>1 DEF Only, Active, PhaseOf, OpOf, At, Gone
    <2>. QED  BY <1>1, <1>2, <1>3, <2>1, <2>2, Stutters
<1>6. \/ End(c, "missing", FALSE)
      \/ call[c].op.kind = "delete" /\ Goto(c, "found", id, <<>>)
      \/ call[c].op.kind = "drop" /\ Goto(c, "found", 0, <<>>)
    BY DEF Select, At
<1>7. id \in Nat
    BY <1>1 DEF IInv, TypeOK, SchemaOK
<1>. QED  BY <1>4, <1>5, <1>6, <1>7

\* The map is not concerned with knowledge.
LEMMA KnowledgeMaps ==
    ASSUME IInv, NEW c \in Calls, call[c].pc \notin {"new", "done"},
           call[c].op.kind \in {"add", "remove"}, memory' = memory,
           \A d \in Calls \ {c} : call'[d] = call[d],
           call'[c].op = call[c].op, call'[c].pc # "new"
    PROVE  [Map!Next]_Map!vars
<1>1. \A d \in Calls \ {c} : OpOf(d)' = OpOf(d) /\ PhaseOf(d)' = PhaseOf(d)
    BY OtherKeeps DEF Gone
<1>2. /\ OpOf(c)' = OpOf(c) /\ PhaseOf(c) = "pending"
      /\ PhaseOf(c)' = "pending" \/ PhaseOf(c)' = "failed"
    BY DEF OpOf, PhaseOf
<1>3. CASE PhaseOf(c)' = "pending"
    BY <1>1, <1>2, <1>3, Stutters
<1>4. CASE PhaseOf(c)' = "failed"
    <2>1. {c} \in SUBSET {d \in Calls : PhaseOf(d) = "pending"}
        BY <1>2
    <2>. QED  BY <1>1, <1>2, <1>4, <2>1, FailStep
<1>. QED  BY <1>2, <1>3, <1>4

LEMMA DocumentMaps ==
    ASSUME IInv, NEW c \in Calls,
           Embed(c) \/ Insert(c) \/ Commit(c) \/ Refresh(c) \/ SelectChunk(c) \/ DeleteChunk(c)
    PROVE  [Map!Next]_Map!vars
<1>1. /\ call[c].pc \notin {"new", "done"} /\ call[c].op.kind \in {"add", "remove"}
      /\ memory' = memory
    BY DEF Embed, Insert, Commit, Refresh, SelectChunk, DeleteChunk, At, tables
<1>2. \/ call' = call
      \/ \E result \in Results, applied \in BOOLEAN :
            End(c, result, applied) \/ EndHarmed(c, applied)
      \/ \E pc \in {"found", "embedded", "committed"}, chunk \in Rows \cup {<<>>} :
            Goto(c, pc, 0, chunk)
    <2>1. CASE Embed(c)
        BY <2>1 DEF Embed, Results
    <2>2. CASE Insert(c)
        BY <2>2 DEF Insert, Results
    <2>3. CASE Commit(c)
        BY <2>3 DEF Commit, Results
    <2>4. CASE Refresh(c)
        BY <2>4 DEF Refresh, Results
    <2>5. CASE SelectChunk(c)
        BY <2>5 DEF SelectChunk, Results, IInv, TypeOK
    <2>6. CASE DeleteChunk(c)
        BY <2>6 DEF DeleteChunk, Results
    <2>. QED  BY <2>1, <2>2, <2>3, <2>4, <2>5, <2>6
<1>3. CASE call' = call
    BY <1>1, <1>3, KnowledgeMaps
<1>. DEFINE Moved == /\ \A d \in Calls \ {c} : call'[d] = call[d]
                     /\ call'[c].op = call[c].op /\ call'[c].pc # "new"
<1>4. CASE Moved
    BY <1>1, <1>4, KnowledgeMaps
<1>5. ASSUME NEW result \in Results, NEW applied \in BOOLEAN,
             End(c, result, applied) \/ EndHarmed(c, applied)
      PROVE  Moved
    <2>1. OnlyEnds(c, result, applied) \/ OnlyEnds(c, "failed", applied)
        BY <1>5, EndCall, HarmCall DEF IInv
    <2>2. \A d \in Calls \ {c} : call'[d] = call[d]
        BY <2>1 DEF OnlyEnds, Only
    <2>3. PICK harmed \in BOOLEAN :
              \/ call'[c] = Done(call[c].op, result, applied, harmed)
              \/ call'[c] = Done(call[c].op, "failed", applied, harmed)
        BY <2>1 DEF OnlyEnds, Only
    <2>4. call'[c].op = call[c].op /\ call'[c].pc = "done"
        BY <2>3 DEF Done
    <2>. QED  BY <2>2, <2>4
<1>6. ASSUME NEW pc \in {"found", "embedded", "committed"}, NEW chunk \in Rows \cup {<<>>},
             Goto(c, pc, 0, chunk)
      PROVE  Moved
    <2>1. Only(c, Active(call[c].op, pc, 0, chunk))
        BY <1>6, MoveCall DEF IInv
    <2>2. call'[c].op = call[c].op /\ call'[c].pc = pc
        BY <2>1 DEF Only, Active
    <2>. QED  BY <2>1, <2>2 DEF Only
<1>. HIDE DEF Moved
<1>. QED  BY <1>2, <1>3, <1>4, <1>5, <1>6

LEMMA InvokeMaps == ASSUME IInv, NEW c \in Calls, NEW o \in Ops, Invoke(c, o) PROVE Map!Next
<1>1. memory' = memory /\ call[c].pc = "new" /\ Only(c, Active(o, "ready", 0, <<>>))
    BY DEF Invoke, IInv, TypeOK, Only, Active, Call, tables
<1>2. PhaseOf(c) = "idle" /\ PhaseOf(c)' = "pending"
    BY <1>1 DEF PhaseOf, Only, Active, At
<1>3. OpOf(c)' \in [kind : Map!Kinds, entry : Entries, value : Values \cup {None}]
    BY <1>1, OpsAssumption DEF OpOf, Only, Active, Map!Kinds
<1>4. \A d \in Calls \ {c} : OpOf(d)' = OpOf(d) /\ PhaseOf(d)' = PhaseOf(d)
    BY <1>1, OtherKeeps DEF Only, Gone
<1>5. Map!Invoke(c)
    BY <1>1, <1>2, <1>3, <1>4 DEF Map!Invoke
<1>. QED  BY <1>5 DEF Map!Next

LEMMA RefuseMaps == ASSUME IInv, NEW c \in Calls, Refuse(c) PROVE Map!Next
<1>1. memory' = memory /\ call[c].pc = "ready" /\ OnlyEnds(c, "invalid", FALSE)
    BY EndCall DEF Refuse, IInv, Results, tables
<1>2. PhaseOf(c) = "pending"
    BY <1>1, PendingPhase DEF At
<1>. QED  BY <1>1, <1>2, FruitlessStep

LEMMA AuditMaps == ASSUME IInv, NEW c \in Calls, Audit(c) PROVE UNCHANGED Map!vars
<1>1. memory' = memory
    BY DEF Audit, tables
<1>2. \A d \in Calls : call'[d] = call[d] \/ call'[d] = [call[d] EXCEPT !.harmed = TRUE]
    BY DEF Audit, IInv, TypeOK
<1>3. ASSUME NEW d \in Calls PROVE OpOf(d)' = OpOf(d) /\ PhaseOf(d)' = PhaseOf(d)
    <2>0. call[d] \in Call
        BY DEF IInv, TypeOK
    <2>1. /\ call'[d].op = call[d].op /\ call'[d].pc = call[d].pc /\ call'[d].row = call[d].row
          /\ call'[d].result = call[d].result /\ call'[d].applied = call[d].applied
        BY <1>2, <2>0 DEF Call
    <2>. QED  BY <1>1, <2>1 DEF OpOf, PhaseOf, At, Gone
<1>. QED  BY <1>1, <1>3, Stutters

\* All calls in progress end, a deletion whose row has gone in effect.
LEMMA CrashMaps == ASSUME IInv, Crash PROVE Map!Next
<1>. DEFINE S == {d \in Calls : PhaseOf(d) = "pending"}
<1>1. memory' = memory
    BY DEF Crash
<1>2. ASSUME NEW d \in Calls
      PROVE  /\ OpOf(d)' = OpOf(d)
             /\ PhaseOf(d)' = IF d \in S THEN "failed" ELSE PhaseOf(d)
    <2>0. call[d] \in Call
        BY DEF IInv, TypeOK
    <2>1. CASE call[d].pc = "new" \/ (call[d].pc = "done" /\ audit[d] # "pending")
        <3>1. call'[d] = call[d]
            BY <2>1 DEF Crash
        <3>2. OpOf(d)' = OpOf(d) /\ PhaseOf(d)' = PhaseOf(d)
            BY <1>1, <3>1, OtherKeeps DEF Gone
        <3>3. PhaseOf(d) # "pending"
            BY <2>1 DEF PhaseOf
        <3>. QED  BY <3>2, <3>3
    <2>2. CASE call[d].pc = "done" /\ audit[d] = "pending"
        <3>1. call'[d] = [call[d] EXCEPT !.harmed = TRUE]
            BY <2>2 DEF Crash
        <3>2. /\ call'[d].op = call[d].op /\ call'[d].pc = "done"
              /\ call'[d].result = call[d].result /\ call'[d].applied = call[d].applied
            BY <2>0, <2>2, <3>1 DEF Call
        <3>3. OpOf(d)' = OpOf(d) /\ PhaseOf(d)' = PhaseOf(d) /\ PhaseOf(d) # "pending"
            BY <2>2, <3>2 DEF OpOf, PhaseOf, At
        <3>. QED  BY <3>3
    <2>3. CASE call[d].pc \notin {"new", "done"}
        <3>1. PICK applied \in BOOLEAN :
                  /\ call'[d] = Done(call[d].op, "lost", applied, TRUE)
                  /\ applied <=> \/ At(d, "delete", "found") /\ Gone(d)
                                 \/ At(d, "add", "committed")
            BY <2>3 DEF Crash
        <3>2. PhaseOf(d) = IF At(d, "delete", "found") /\ Gone(d) THEN "applied" ELSE "pending"
            BY <2>3, PendingPhase
        <3>3. OpOf(d)' = OpOf(d)
            BY <2>3, <3>1 DEF OpOf, Done
        <3>4. PhaseOf(d)' = IF At(d, "delete", "found") /\ Gone(d) THEN "applied" ELSE "failed"
            BY <2>3, <3>1 DEF PhaseOf, Done, At
        <3>. QED  BY <3>2, <3>3, <3>4
    <2>. QED  BY <2>1, <2>2, <2>3
<1>. QED  BY <1>1, <1>2, FailStep

-----------------------------------------------------------------------------
(* The refinement                                                          *)

LEMMA InitMaps == Init => Map!Init
<1>. SUFFICES ASSUME Init PROVE Map!Init
    OBVIOUS
<1>1. \A c \in Calls : OpOf(c) = [kind |-> "other"] /\ PhaseOf(c) = "idle"
    BY DEF Init, New, Active, OpOf, PhaseOf
<1>2. \A e \in Entries : memory[e].value = None
    BY DEF Init
<1>. QED  BY <1>1, <1>2 DEF Map!Init

LEMMA NextMaps == IInv /\ [Next]_vars => [Map!Next]_Map!vars
<1>. SUFFICES ASSUME IInv, [Next]_vars PROVE [Map!Next]_Map!vars
    OBVIOUS
<1>1. CASE UNCHANGED vars
    BY <1>1, OtherKeeps, Stutters DEF vars, tables, Gone
<1>2. ASSUME NEW c \in Calls, NEW o \in Ops, Invoke(c, o) PROVE [Map!Next]_Map!vars
    BY <1>2, InvokeMaps
<1>3. ASSUME NEW c \in Calls, Step(c) PROVE [Map!Next]_Map!vars
    BY <1>3, SetMaps, GetMaps, ForgetMaps, SelectMaps, DeleteMaps, DeleteAgentMaps, DocumentMaps
       DEF Step
<1>4. ASSUME NEW c \in Calls, Refuse(c) \/ Audit(c) PROVE [Map!Next]_Map!vars
    BY <1>4, RefuseMaps, AuditMaps
<1>5. CASE Crash
    BY <1>5, CrashMaps
<1>. QED  BY <1>1, <1>2, <1>3, <1>4, <1>5 DEF Next

\* Whatever the endpoints, the MCP tools and the agents' tools do to agent_memory at
\* the same time, it is a map on which every call takes effect at one moment between
\* its start and its answer, or not at all.
THEOREM MemoryRefinesMap == Spec => ImplementsMemoryMap
BY InitMaps, NextMaps, Invariance, PTL DEF Spec, ImplementsMemoryMap, Map!Spec
===============================================================================
