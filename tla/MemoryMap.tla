------------------------------ MODULE MemoryMap ------------------------------
(***************************************************************************)
(* What the writers of agent_memory may rely on: one map from entries (an  *)
(* agent and a key) to values, on which every call takes effect at one     *)
(* moment between its start and its answer, or not at all.  An agent's     *)
(* deletion takes its entries along.  Calls that remove the same value at  *)
(* the same time may all be told that they did.                            *)
(***************************************************************************)
CONSTANTS
    Calls,    \* calls of the API, the MCP server and the agents' tools
    Entries,  \* pairs of an agent and a key
    Values,
    None      \* no value, and none of Values

VARIABLES
    map,   \* the value of each entry
    op,    \* what each call asks for: kind, entry and value
    phase  \* "idle", "pending", and then "applied", "missing" or "failed"

vars == <<map, op, phase>>

Kinds == {"set", "get", "delete", "forget", "drop", "other"}

Init ==
    /\ map = [e \in Entries |-> None]
    /\ op = [c \in Calls |-> [kind |-> "other"]]
    /\ phase = [c \in Calls |-> "idle"]

\* Pending deletions of an entry of E that has a value.
Removers(E) ==
    {c \in Calls : /\ phase[c] = "pending" /\ op[c].kind = "delete"
                   /\ op[c].entry \in E /\ map[op[c].entry] # None}

Applied(S) == phase' = [c \in Calls |-> IF c \in S THEN "applied" ELSE phase[c]]

Clear(E) == map' = [e \in Entries |-> IF e \in E THEN None ELSE map[e]]

-----------------------------------------------------------------------------

Invoke(c) ==
    /\ phase[c] = "idle"
    /\ phase' = [phase EXCEPT ![c] = "pending"]
    /\ \E o \in [kind : Kinds, entry : Entries, value : Values \cup {None}] :
          op' = [op EXCEPT ![c] = o]
    /\ UNCHANGED map

Set(c) ==
    /\ phase[c] = "pending" /\ op[c].kind = "set"
    /\ map' = [map EXCEPT ![op[c].entry] = op[c].value]
    /\ Applied({c})
    /\ UNCHANGED op

Get(c) ==
    /\ phase[c] = "pending" /\ op[c].kind = "get"
    /\ map[op[c].entry] # None
    /\ Applied({c})
    /\ UNCHANGED <<map, op>>

\* One deletion of an entry, or several at the same time.
Delete(e) ==
    /\ \E S \in SUBSET Removers({e}) : S # {} /\ Applied(S)
    /\ Clear({e})
    /\ UNCHANGED op

\* A removal that asks for no answer: whether there is a value or not.
Forget(c) ==
    /\ phase[c] = "pending" /\ op[c].kind = "forget"
    /\ \E S \in SUBSET Removers({op[c].entry}) : Applied(S \cup {c})
    /\ Clear({op[c].entry})
    /\ UNCHANGED op

\* The agent is deleted: all its entries go.
Drop(c) ==
    LET E == {e \in Entries : e[1] = op[c].entry[1]} IN
    /\ phase[c] = "pending" /\ op[c].kind = "drop"
    /\ \E S \in SUBSET Removers(E) : Applied(S \cup {c})
    /\ Clear(E)
    /\ UNCHANGED op

\* There is nothing to get or to delete at the moment.
Miss(c) ==
    /\ phase[c] = "pending" /\ op[c].kind \in {"get", "delete", "drop"}
    /\ op[c].kind = "drop" \/ map[op[c].entry] = None
    /\ phase' = [phase EXCEPT ![c] = "missing"]
    /\ UNCHANGED <<map, op>>

\* Calls end without an effect: refused, failed, lost in a restart, or of no
\* concern to the map.
Fail ==
    /\ \E S \in SUBSET {c \in Calls : phase[c] = "pending"} :
          phase' = [c \in Calls |-> IF c \in S THEN "failed" ELSE phase[c]]
    /\ UNCHANGED <<map, op>>

Next ==
    \/ \E c \in Calls : Invoke(c) \/ Set(c) \/ Get(c) \/ Forget(c) \/ Drop(c) \/ Miss(c)
    \/ \E e \in Entries : Delete(e)
    \/ Fail

Spec == Init /\ [][Next]_vars
=============================================================================
