------------------------------ MODULE Ingestion ------------------------------
(***************************************************************************)
(* The ingestion pipeline on one dataset directory: csv_scanner,           *)
(* data_quality, db_ingestor and data_profiler, either as tool nodes of a  *)
(* graph (which may loop back to the scanner and then keeps its state) or  *)
(* as the tools an agent calls in the order of its prompt.  Several runs   *)
(* share input/, processed/, the staging files in output/ and the tables.  *)
(* A step is the code between two awaits; a file is read and moved by its  *)
(* path, so a step sees whatever version is there by then.                 *)
(*                                                                         *)
(* A file's content is one of four kinds: a row or more to ingest, none    *)
(* left once duplicates and blank rows are rejected, a row the database    *)
(* rejects, or no CSV at all.  Error files and the CSVs of ingested rows   *)
(* are written and never read; they are left out.                          *)
(***************************************************************************)
EXTENDS Integers, Sequences, FiniteSetsExt

CONSTANTS
    Names,       \* file names; the table's name is derived from the file's
    Runs,        \* the runs that ingest
    Agents,      \* those of them that are one agent with tools
    Contents,    \* subset of {"rows", "empty", "bad", "unreadable"}
    NoName,      \* no csv_file_path, no table_name
    MaxUploads,  \* bound: files put into input/
    MaxScans,    \* bound: scans of each run
    MaxFaults,   \* bound: failed moves and transactions, and restarts
    Seconds      \* the times that distinguish the names of staging files

ASSUME AgentsAssumption == Agents \subseteq Runs
ASSUME NoNameAssumption == NoName \notin Names
ASSUME ContentsAssumption == Contents \subseteq {"rows", "empty", "bad", "unreadable"}
ASSUME BoundsAssumption ==
    /\ {MaxUploads, MaxFaults} \subseteq Nat
    /\ MaxScans \in [Runs -> Nat]

Versions == 1..MaxUploads

VARIABLES
    uploads,    \* the versions uploaded so far: their name and content
    input,      \* input/: the version under each name, 0 if there is none
    staging,    \* output/<name>_clean_<second>: the version whose rows it holds
    table,      \* batches of each version's rows committed to each table
    pc,         \* where each run is
    state,      \* csv_file_path, table_name and the version of clean_df_records
    scans, faults,
    attempted,  \* history: versions whose rows were put to the database
    taken,      \* the versions runs have moved to processed/
    excused,    \* history: versions that may be ingested twice, see below
    carried     \* history: tables that may get rows of another file

files   == <<uploads, input, staging>>
bounds  == <<scans, faults>>
history == <<attempted, taken, excused, carried>>
vars    == <<files, table, pc, state, bounds, history>>

Fresh == [path |-> NoName, table |-> NoName, stamp |-> "", records |-> 0, scanned |-> 0]

Init ==
    /\ uploads = <<>>
    /\ input = [n \in Names |-> 0]
    /\ staging = [s \in Names \X Seconds |-> 0]
    /\ table = [n \in Names |-> [v \in Versions |-> 0]]
    /\ pc = [r \in Runs |-> "idle"]
    /\ state = [r \in Runs |-> Fresh]
    /\ scans = [r \in Runs |-> 0]
    /\ faults = 0
    /\ attempted = {} /\ taken = {} /\ excused = {} /\ carried = {}

Present == {n \in Names : input[n] # 0}

\* The version a path leads to now.
At(n) == IF n = NoName THEN 0 ELSE input[n]

Readable(v) == v # 0 /\ uploads[v].content # "unreadable"

\* The run has read the rows of v, or would find them in its staging file, and
\* has not yet moved the file.
Holds(r, v) ==
    /\ pc[r] \in {"read", "moving"} /\ v # 0
    /\ \/ state[r].records = v
       \/ r \in Agents /\ staging[<<state[r].path, state[r].stamp>>] = v

\* v, if another run is at work on it too.
Shared(r, v) == IF \E q \in Runs \ {r} : Holds(q, v) THEN {v} ELSE {}

Goto(r, place) == pc' = [pc EXCEPT ![r] = place]

\* The staging file goes once its rows are in the database, or refused.
Unstaged(r) ==
    IF r \in Agents THEN [staging EXCEPT ![<<state[r].path, state[r].stamp>>] = 0]
                    ELSE staging

-----------------------------------------------------------------------------
(* Plausible mistakes, each a wrong version of the definition it is named  *)
(* after; no specification uses them.  The properties must reject them.    *)

\* A rejected batch leaves the file where it is, to be tried again.
PutKeepsRejected(r, v) ==
    LET n == state[r].table
        Batch == [table EXCEPT ![n][v] = @ + (IF uploads[v].content = "rows" THEN 1 ELSE 0)]
    IN  /\ table' = IF uploads[v].content = "bad" THEN table ELSE Batch
        /\ state' = [state EXCEPT ![r].records = v]
        /\ attempted' = attempted \cup {v}
        /\ excused' = excused \cup Shared(r, v)
        /\ Goto(r, IF uploads[v].content = "bad" THEN "ingested" ELSE "moving")
        /\ UNCHANGED <<files, bounds, taken, carried>>

\* The file is moved also when there was nothing to ingest, as the docstring
\* of _move_to_processed has it.
SkipMoves(r) ==
    /\ Goto(r, "moving")
    /\ UNCHANGED <<files, table, state, bounds, history>>

\* The file is copied to processed/ and stays where it is.
MoveCopies(r) ==
    LET n == state[r].path IN
    /\ pc[r] = "moving"
    /\ taken' = taken \cup ({At(n)} \ {0})
    /\ staging' = Unstaged(r)
    /\ Goto(r, "ingested")
    /\ UNCHANGED <<uploads, input, table, state, bounds, attempted, excused, carried>>

\* The file is not looked for before it is moved.
MoveUnchecked(r) ==
    LET n == state[r].path IN
    /\ pc[r] = "moving" /\ n # NoName
    /\ input' = [input EXCEPT ![n] = 0]
    /\ taken' = taken \cup {At(n)}
    /\ staging' = Unstaged(r)
    /\ Goto(r, "ingested")
    /\ UNCHANGED <<uploads, table, state, bounds, attempted, excused, carried>>

-----------------------------------------------------------------------------
(* The steps that several actions share                                    *)

\* INSERT the rows of v into the run's table and COMMIT.  Whether that works,
\* a row is refused, or the database fails before or after the COMMIT took
\* effect: the file is moved next.
Put(r, v) ==
    LET n == state[r].table
        Batch == [table EXCEPT ![n][v] = @ + (IF uploads[v].content = "rows" THEN 1 ELSE 0)]
    IN  /\ \/ /\ table' = IF uploads[v].content = "bad" THEN table ELSE Batch
              /\ UNCHANGED faults
           \/ /\ faults < MaxFaults
              /\ faults' = faults + 1
              /\ table' \in {table, Batch}
        /\ state' = [state EXCEPT ![r].records = v]
        /\ attempted' = attempted \cup {v}
        /\ excused' = excused \cup Shared(r, v)
        /\ Goto(r, "moving")
        /\ UNCHANGED <<files, scans, taken, carried>>

\* The file that was chosen is not to be ingested: on without a change.
Skip(r) ==
    /\ Goto(r, "ingested")
    /\ UNCHANGED <<files, table, state, bounds, history>>

-----------------------------------------------------------------------------
(* The outside                                                             *)

\* A file is put into input/, in place of one of that name that is still there.
Upload(n, c) ==
    /\ Len(uploads) < MaxUploads
    /\ uploads' = Append(uploads, [name |-> n, content |-> c])
    /\ input' = [input EXCEPT ![n] = Len(uploads')]
    /\ UNCHANGED <<staging, table, pc, state, bounds, history>>

\* The process dies: the runs are gone, files and tables stay.  What was
\* committed and not yet moved will be found again.
Crash ==
    /\ faults < MaxFaults
    /\ faults' = faults + 1
    /\ pc' = [r \in Runs |-> "idle"]
    /\ state' = [r \in Runs |-> Fresh]
    /\ excused' = excused \cup {state[r].records : r \in {q \in Runs : pc[q] = "moving"}}
    /\ UNCHANGED <<files, table, scans, attempted, taken, carried>>

-----------------------------------------------------------------------------
(* A run                                                                   *)

\* csv_scanner: the most recently modified file.  Without one an agent stops,
\* and so does a graph with a condition behind the scanner; any other goes on.
Scan(r) ==
    /\ pc[r] = "idle" \/ (pc[r] = "done" /\ r \notin Agents)
    /\ scans[r] < MaxScans[r]
    /\ scans' = [scans EXCEPT ![r] = @ + 1]
    /\ \/ /\ Present # {}
          /\ LET v == Max({input[n] : n \in Present})
                 n == uploads[v].name
             IN  state' = [state EXCEPT ![r].path = n, ![r].table = n, ![r].scanned = v]
          /\ Goto(r, "scanned")
       \/ /\ Present = {} /\ r \notin Agents
          /\ state' = [state EXCEPT ![r].path = NoName, ![r].scanned = 0]
          /\ Goto(r, "scanned")
       \/ /\ Present = {}
          /\ state' = [state EXCEPT ![r] = Fresh]
          /\ Goto(r, "idle")
    /\ UNCHANGED <<files, table, faults, history>>

\* data_quality.run: a file that cannot be read, or none, leaves the state as
\* it is: with the rows of the file before, if the graph has looped.
Quality(r) ==
    LET v == At(state[r].path)
        old == state[r].records
    IN  /\ pc[r] = "scanned" /\ r \notin Agents
        /\ Goto(r, "read")
        /\ IF Readable(v)
           THEN /\ state' = [state EXCEPT ![r].records = v]
                /\ excused' = excused \cup Shared(r, v)
                /\ UNCHANGED carried
           ELSE /\ excused' = excused \cup ({old} \ {0})
                /\ carried' = IF old = 0 THEN carried ELSE carried \cup {state[r].table}
                /\ UNCHANGED state
        /\ UNCHANGED <<files, table, bounds, attempted, taken>>

\* check_data_quality: the clean rows go to a staging file named after the
\* file and the second.
CheckTool(r) ==
    LET n == state[r].path
        v == At(n)
    IN  /\ pc[r] = "scanned" /\ r \in Agents
        /\ IF Readable(v)
           THEN /\ \E now \in Seconds :
                      /\ staging' = [staging EXCEPT ![<<n, now>>] = v]
                      /\ state' = [state EXCEPT ![r].records = v, ![r].stamp = now]
                /\ excused' = excused \cup Shared(r, v)
                /\ Goto(r, "read")
           ELSE /\ state' = [state EXCEPT ![r] = Fresh]
                /\ Goto(r, "idle")
                /\ UNCHANGED <<staging, excused>>
        /\ UNCHANGED <<uploads, input, table, bounds, attempted, taken, carried>>

\* db_ingestor.run, to the end of its transaction.
Ingest(r) ==
    LET v == state[r].records IN
    /\ pc[r] = "read" /\ r \notin Agents
    /\ IF v = 0 \/ (v # 0 /\ uploads[v].content = "empty") THEN Skip(r) ELSE Put(r, v)

\* ingest_to_db, to the end of its transaction: the rows of the staging file,
\* which another agent of the same second may have replaced or removed.
IngestTool(r) ==
    LET v == staging[<<state[r].path, state[r].stamp>>] IN
    /\ pc[r] = "read" /\ r \in Agents
    /\ IF v = 0 THEN Skip(r) ELSE Put(r, v)

\* _move_to_processed: whatever the path leads to now; a failure is logged.
Move(r) ==
    LET n == state[r].path IN
    /\ pc[r] = "moving"
    /\ \/ /\ At(n) # 0
          /\ input' = [input EXCEPT ![n] = 0]
          /\ taken' = taken \cup {At(n)}
          /\ UNCHANGED <<faults, excused>>
       \/ /\ At(n) = 0
          /\ UNCHANGED <<input, taken, faults, excused>>
       \/ /\ At(n) # 0 /\ faults < MaxFaults
          /\ faults' = faults + 1
          /\ excused' = excused \cup {At(n)}
          /\ UNCHANGED <<input, taken>>
    /\ staging' = Unstaged(r)
    /\ Goto(r, "ingested")
    /\ UNCHANGED <<uploads, table, state, scans, attempted, carried>>

\* data_profiler: a model call, which may fail; nothing depends on it.
Profile(r) ==
    /\ pc[r] = "ingested"
    /\ Goto(r, "done")
    /\ UNCHANGED <<files, table, state, bounds, history>>

\* The run ends, the agent's possibly before its last step.
Finish(r) ==
    /\ pc[r] = "done" \/ (r \in Agents /\ pc[r] \in {"scanned", "read", "ingested"})
    /\ state' = [state EXCEPT ![r] = Fresh]
    /\ Goto(r, "idle")
    /\ UNCHANGED <<files, table, bounds, history>>

Step(r) ==
    \/ Scan(r) \/ Quality(r) \/ CheckTool(r) \/ Ingest(r) \/ IngestTool(r)
    \/ Move(r) \/ Profile(r) \/ Finish(r)

Next ==
    \/ \E n \in Names, c \in Contents : Upload(n, c)
    \/ Crash
    \/ \E r \in Runs : Step(r)

Spec == Init /\ [][Next]_vars

-----------------------------------------------------------------------------
(* Properties                                                              *)

\* The type invariant.
TypeOK ==
    /\ uploads \in Seq([name : Names, content : Contents]) /\ Len(uploads) <= MaxUploads
    /\ input \in [Names -> Versions \cup {0}]
    /\ staging \in [Names \X Seconds -> Versions \cup {0}]
    /\ table \in [Names -> [Versions -> Nat]]
    /\ pc \in [Runs -> {"idle", "scanned", "read", "moving", "ingested", "done"}]
    /\ state \in [Runs -> [path : Names \cup {NoName}, table : Names \cup {NoName},
                           stamp : Seconds \cup {""}, records : Versions \cup {0},
                           scanned : Versions \cup {0}]]
    /\ scans \in [Runs -> Nat] /\ \A r \in Runs : scans[r] <= MaxScans[r]
    /\ faults \in 0..MaxFaults
    /\ attempted \subseteq Versions /\ taken \subseteq Versions
    /\ excused \subseteq Versions /\ carried \subseteq Names

\* The rows of v are in one table at most, and once.
Once(v) == \A m, n \in Names :
               table[m][v] <= 1 /\ (table[m][v] > 0 /\ table[n][v] > 0 => m = n)

\* The rows of a file go to the table named after it, once.  They go there
\* again only if two runs were at work on the file at a time, the move failed,
\* the process died before it, or a graph looped and found nothing to read;
\* only such a graph puts them into another file's table.
BatchesHaveCause ==
    \A v \in DOMAIN uploads :
        /\ Once(v) \/ v \in excused
        /\ \A n \in Names \ {uploads[v].name} : table[n][v] > 0 => n \in carried

\* What a run moves to processed/ is a file whose rows were put to the
\* database, though perhaps refused: no file is set aside unread, except in
\* place of a former version of it, or by a graph that looped.
TakenWasAttempted ==
    \A v \in taken :
        \/ v \in attempted
        \/ \E u \in attempted : u < v /\ uploads[u].name = uploads[v].name
        \/ uploads[v].name \in carried

\* A run that went through all its steps leaves the file it chose in input/
\* only if nothing of it can be ingested, or the move failed.  (That file is
\* the first the next scan finds: see README.)
LeftBehindNeedsCause ==
    \A r \in Runs :
        LET v == state[r].scanned IN
        pc[r] = "done" /\ v # 0 /\ At(state[r].path) = v =>
            uploads[v].content \in {"empty", "unreadable"} \/ v \in excused
=============================================================================
