--------------------------- MODULE IngestionProofs ---------------------------
(***************************************************************************)
(* Proofs about Ingestion, for any files, runs, agents, scans and bounds:  *)
(* the type invariant, that rows go once to the table of their file unless *)
(* a cause is on record, that what is moved to processed/ was put to the   *)
(* database, and that what a finished run leaves behind has its cause.     *)
(***************************************************************************)
EXTENDS Ingestion, WellFoundedInduction, TLAPS

Uploaded == DOMAIN uploads

Name(v) == uploads[v].name

\* What is under a name was uploaded under it, and is the latest of that name
\* unless it has been moved.
FilesOK ==
    /\ \A n \in Names : input[n] # 0 => input[n] \in Uploaded /\ Name(input[n]) = n
    /\ \A v \in Uploaded : input[Name(v)] # 0 => v <= input[Name(v)]
    /\ \A n \in Names, s \in Seconds :
           staging[<<n, s>>] # 0 => staging[<<n, s>>] \in Uploaded /\ Name(staging[<<n, s>>]) = n
    /\ \A n \in Names, v \in Versions : table[n][v] > 0 => v \in Uploaded
    /\ attempted \subseteq Uploaded

\* The rows a run holds are those of the file it has chosen, or those of a file
\* before it, which are on record.
Source(r) ==
    LET s == state[r] IN
    \/ Name(s.records) = s.path
    \/ s.records \in excused /\ s.table \in carried /\ s.path \in carried \cup {NoName}

\* The names a run keeps.
PathOK(r) ==
    LET s == state[r] IN
    /\ s.records # 0 => s.records \in Uploaded /\ s.table # NoName
    /\ s.scanned # 0 => s.scanned \in Uploaded
    /\ s.path # NoName => s.table = s.path
    /\ pc[r] = "moving" => s.records # 0
    /\ r \in Agents /\ pc[r] \in {"read", "moving"} => s.path # NoName /\ s.stamp \in Seconds

\* Where the rows it is about to put, or has put, come from.
RowsOK(r) ==
    LET s == state[r] IN
    /\ pc[r] = "read" /\ r \notin Agents /\ s.records # 0 => Source(r)
    /\ pc[r] = "moving" => s.records \in attempted /\ Source(r)

\* The file a run has chosen, as long as it is where it was.
ChosenOK(r) ==
    LET s == state[r]
        v == s.scanned
    IN  v # 0 /\ At(s.path) = v =>
        /\ pc[r] = "read" /\ r \notin Agents => s.records = v \/ uploads[v].content = "unreadable"
        /\ pc[r] = "read" /\ r \in Agents => staging[<<s.path, s.stamp>>] # 0 \/ v \in excused
        /\ pc[r] \in {"ingested", "done"} =>
               uploads[v].content \in {"empty", "unreadable"} \/ v \in excused

RunOK(r) == PathOK(r) /\ RowsOK(r) /\ ChosenOK(r)

Committed(v) == \E n \in Names : table[n][v] > 0

\* Somebody is about to move the file whose rows are committed.
BeingMoved(v) ==
    \E q \in Runs : pc[q] = "moving" /\ state[q].records = v /\ state[q].path = Name(v)

\* Rows that are committed will not be found again, unless that is on record.
CommittedOK(v) ==
    v \notin excused /\ Committed(v) =>
        /\ Once(v)
        /\ \A r \in Runs : pc[r] = "read" => ~ Holds(r, v)
        /\ input[Name(v)] # v \/ BeingMoved(v)

TableOK(v) == \A n \in Names \ {Name(v)} : table[n][v] > 0 => n \in carried

TakenOK(v) ==
    \/ v \in attempted
    \/ \E u \in attempted : u < v /\ Name(u) = Name(v)
    \/ Name(v) \in carried

\* The inductive invariant.
IInv ==
    /\ TypeOK
    /\ FilesOK
    /\ \A r \in Runs : RunOK(r)
    /\ \A v \in Uploaded : CommittedOK(v) /\ TableOK(v)
    /\ \A v \in taken : v \in Uploaded /\ TakenOK(v)

-----------------------------------------------------------------------------
(* The files                                                               *)

\* A nonempty set of versions has a latest one.
LEMMA LatestIsMember ==
    ASSUME NEW S \in SUBSET (Versions \cup {0}), S # {}
    PROVE  /\ Max(S) \in S
           /\ \A x \in S : x <= Max(S)
<1>. DEFINE R == OpToRel(<, Nat)
            D == {MaxUploads - x : x \in S}
<1>0. MaxUploads \in Nat /\ S \subseteq 0..MaxUploads
    BY BoundsAssumption DEF Versions
<1>1. D \in SUBSET Nat /\ D # {}
    <2>1. \A x \in S : MaxUploads - x \in Nat /\ MaxUploads - x \in D
        BY <1>0
    <2>2. PICK x \in S : TRUE
        OBVIOUS
    <2>. QED  BY <2>1, <2>2
<1>2. \E d \in D : \A e \in D : ~ (<<e, d>> \in R)
    <2>1. IsWellFoundedOn(R, Nat)  BY NatLessThanWellFounded
    <2>. HIDE DEF R, D
    <2>. QED  BY <1>1, <2>1, WFMin
<1>3. \A d, e \in D : e < d => <<e, d>> \in R
    BY <1>1 DEF OpToRel
<1>4. \A x \in S : MaxUploads - x \in D
    OBVIOUS
<1>5. \A d \in D : \E x \in S : d = MaxUploads - x
    OBVIOUS
<1>. HIDE DEF R, D
<1>6. PICK d \in D : \A e \in D : ~(e < d)
    BY <1>2, <1>3
<1>7. PICK x \in S : d = MaxUploads - x
    BY <1>5
<1>8. \A y \in S : x >= y
    <2>. SUFFICES ASSUME NEW y \in S PROVE x >= y
        OBVIOUS
    <2>1. ~(MaxUploads - y < MaxUploads - x)
        BY <1>4, <1>6, <1>7
    <2>. QED  BY <2>1, <1>0
<1>9. /\ Max(S) \in S
      /\ \A y \in S : Max(S) >= y
    BY <1>8 DEF Max
<1>. QED  BY <1>0, <1>9

\* The file a scan chooses is one that is there, under the name it has.
LEMMA ScanFinds ==
    ASSUME TypeOK, FilesOK, Present # {}
    PROVE  LET v == Max({input[n] : n \in Present})
           IN  v \in Uploaded /\ v \in Versions /\ Name(v) \in Names /\ input[Name(v)] = v
<1>. DEFINE S == {input[n] : n \in Present}
            v == Max(S)
<1>1. S \in SUBSET (Versions \cup {0}) /\ S # {}
    <2>1. \A n \in Present : input[n] \in Versions \cup {0} /\ input[n] \in S
        BY DEF TypeOK, Present
    <2>2. PICK n \in Present : TRUE
        OBVIOUS
    <2>. QED  BY <2>1, <2>2
<1>2. v \in S
    <2>. HIDE DEF S
    <2>. QED  BY <1>1, LatestIsMember
<1>3. \A x \in S : \E n \in Names : input[n] = x /\ x # 0
    BY DEF Present
<1>. HIDE DEF S
<1>4. PICK n \in Names : input[n] = v /\ v # 0
    BY <1>2, <1>3
<1>5. v \in Uploaded /\ Name(v) = n /\ v \in Versions
    BY <1>4 DEF FilesOK, TypeOK
<1>. QED  BY <1>4, <1>5 DEF S

\* What was uploaded.
LEMMA UploadType ==
    ASSUME TypeOK, NEW v \in Uploaded
    PROVE  uploads[v] \in [name : Names, content : Contents] /\ v \in Versions
<1>. DEFINE U == [name : Names, content : Contents]
<1>0. uploads \in Seq(U) /\ Len(uploads) <= MaxUploads
    BY DEF TypeOK
<1>. HIDE DEF U
<1>1. uploads \in [1..Len(uploads) -> U]
    BY <1>0
<1>2. Len(uploads) \in Nat /\ Len(uploads) <= MaxUploads /\ Uploaded = 1..Len(uploads)
    BY <1>0 DEF Uploaded
<1>. QED  BY <1>1, <1>2, BoundsAssumption DEF Versions, U

\* What a path leads to.
LEMMA AtType ==
    ASSUME TypeOK, FilesOK, NEW n \in Names \cup {NoName}
    PROVE  /\ At(n) \in Versions \cup {0}
           /\ At(n) # 0 => n \in Names /\ input[n] = At(n) /\ At(n) \in Uploaded /\ Name(At(n)) = n
BY NoNameAssumption DEF At, TypeOK, FilesOK

-----------------------------------------------------------------------------
(* Types, files and names                                                  *)

States == [path : Names \cup {NoName}, table : Names \cup {NoName},
           stamp : Seconds \cup {""}, records : Versions \cup {0}, scanned : Versions \cup {0}]

Base == TypeOK /\ FilesOK /\ \A r \in Runs : PathOK(r)

LEMMA FreshType == Fresh \in States
BY DEF Fresh, States

LEMMA BaseInit == ASSUME Init PROVE Base
<1>1. TypeOK
    <2>1. \A r \in Runs : 0 <= MaxScans[r]
        BY BoundsAssumption
    <2>2. 0 \in 0..MaxFaults
        BY BoundsAssumption
    <2>3. /\ uploads \in Seq([name : Names, content : Contents]) /\ Len(uploads) <= MaxUploads
        BY BoundsAssumption DEF Init
    <2>. QED  BY <2>1, <2>2, <2>3, FreshType DEF Init, TypeOK, States
<1>2. FilesOK
    BY DEF Init, FilesOK, Uploaded
<1>3. \A r \in Runs : PathOK(r)
    BY DEF Init, PathOK, Fresh
<1>. QED  BY <1>1, <1>2, <1>3 DEF Base

\* A step of a run that leaves input/ and the staging files alone.
LEMMA BaseOfState ==
    ASSUME Base, NEW r \in Runs, UNCHANGED <<files, scans>>, TypeOK',
           NEW g \in States, state' = [state EXCEPT ![r] = g],
           NEW p, pc' = [pc EXCEPT ![r] = p],
           attempted' \subseteq Uploaded,
           \A n \in Names, v \in Versions : table'[n][v] > 0 => v \in Uploaded,
           g.records # 0 => g.records \in Uploaded /\ g.table # NoName,
           g.scanned # 0 => g.scanned \in Uploaded,
           g.path # NoName => g.table = g.path,
           p = "moving" => g.records # 0,
           r \in Agents /\ p \in {"read", "moving"} => g.path # NoName /\ g.stamp \in Seconds
    PROVE  Base'
<1>1. FilesOK'
    BY DEF Base, FilesOK, files, Uploaded, Name
<1>2. ASSUME NEW q \in Runs PROVE PathOK(q)'
    <2>1. CASE q = r
        BY <2>1 DEF Base, TypeOK, PathOK, files, Uploaded
    <2>2. CASE q # r
        <3>1. pc'[q] = pc[q] /\ state'[q] = state[q]
            BY <2>2 DEF Base, TypeOK
        <3>. QED  BY <3>1 DEF Base, PathOK, files, Uploaded
    <2>. QED  BY <2>1, <2>2
<1>. QED  BY <1>1, <1>2 DEF Base

LEMMA UploadBase ==
    ASSUME Base, NEW n \in Names, NEW c \in Contents, Upload(n, c)
    PROVE  Base' /\ \A v \in Uploaded : v \in Uploaded' /\ uploads'[v] = uploads[v]
<1>. DEFINE k == Len(uploads) + 1
<1>1. /\ uploads \in Seq([name : Names, content : Contents]) /\ Len(uploads) < MaxUploads
      /\ uploads' = Append(uploads, [name |-> n, content |-> c])
      /\ input' = [input EXCEPT ![n] = Len(uploads')]
    BY DEF Upload, Base, TypeOK
<1>2. /\ uploads' \in Seq([name : Names, content : Contents])
      /\ Len(uploads') = k /\ Len(uploads) \in Nat
      /\ Uploaded = 1..Len(uploads) /\ Uploaded' = 1..k
      /\ uploads'[k] = [name |-> n, content |-> c]
      /\ \A v \in Uploaded : uploads'[v] = uploads[v]
    <2>1. [name |-> n, content |-> c] \in [name : Names, content : Contents]
        OBVIOUS
    <2>. QED  BY <1>1, <2>1 DEF Uploaded
<1>3. k \in Versions /\ k <= MaxUploads
    BY <1>1, <1>2, BoundsAssumption DEF Versions
<1>4. TypeOK'
    <2>1. input' \in [Names -> Versions \cup {0}]
        BY <1>1, <1>2, <1>3 DEF Base, TypeOK
    <2>. QED  BY <1>1, <1>2, <1>3, <2>1 DEF Base, TypeOK, Upload, bounds, history
<1>5. /\ input'[n] = k
      /\ \A m \in Names : m # n => input'[m] = input[m]
    BY <1>1, <1>2 DEF Base, TypeOK
<1>6. FilesOK'
    <2>1. \A m \in Names : input'[m] # 0 => input'[m] \in Uploaded' /\ uploads'[input'[m]].name = m
        <3>. SUFFICES ASSUME NEW m \in Names, input'[m] # 0
                      PROVE  input'[m] \in Uploaded' /\ uploads'[input'[m]].name = m
            OBVIOUS
        <3>1. CASE m = n
            BY <3>1, <1>2, <1>5
        <3>2. CASE m # n
            <4>1. input[m] \in Uploaded /\ uploads[input[m]].name = m
                BY <3>2, <1>5 DEF Base, FilesOK, Name
            <4>. QED  BY <4>1, <3>2, <1>2, <1>5
        <3>. QED  BY <3>1, <3>2
    <2>2. \A v \in Uploaded' : input'[uploads'[v].name] # 0 => v <= input'[uploads'[v].name]
        <3>. SUFFICES ASSUME NEW v \in Uploaded', input'[uploads'[v].name] # 0
                      PROVE  v <= input'[uploads'[v].name]
            OBVIOUS
        <3>1. CASE v = k
            BY <3>1, <1>2, <1>5
        <3>2. CASE v # k
            <4>1. v \in Uploaded /\ uploads'[v] = uploads[v] /\ uploads[v].name \in Names
                <5>1. v \in Uploaded
                    BY <3>2, <1>2
                <5>2. uploads[v] \in [name : Names, content : Contents]
                    BY <5>1, UploadType DEF Base
                <5>. QED  BY <5>1, <5>2, <1>2
            <4>2. input[uploads[v].name] # 0 => v <= input[uploads[v].name]
                BY <4>1 DEF Base, FilesOK, Name
            <4>. QED  BY <4>1, <4>2, <1>2, <1>5
        <3>. QED  BY <3>1, <3>2
    <2>3. \A v \in Uploaded : v \in Uploaded' /\ uploads'[v] = uploads[v]
        BY <1>2
    <2>4. staging' = staging /\ table' = table /\ attempted' = attempted
        BY DEF Upload, history
    <2>. QED  BY <2>1, <2>2, <2>3, <2>4 DEF Base, FilesOK, Name
<1>7. \A q \in Runs : PathOK(q)'
    <2>1. \A v \in Uploaded : v \in Uploaded'
        BY <1>2
    <2>2. pc' = pc /\ state' = state
        BY DEF Upload
    <2>. QED  BY <2>1, <2>2 DEF Base, PathOK
<1>8. \A v \in Uploaded : v \in Uploaded'
    BY <1>2
<1>. QED  BY <1>2, <1>4, <1>6, <1>7, <1>8 DEF Base

LEMMA CrashBase == ASSUME Base, Crash PROVE Base'
<1>1. TypeOK'
    <2>1. excused' \subseteq Versions
        <3>1. \A r \in Runs : pc[r] = "moving" => state[r].records \in Versions
            BY DEF Base, TypeOK, PathOK
        <3>. QED  BY <3>1 DEF Base, TypeOK, Crash
    <2>2. faults' \in 0..MaxFaults
        <3>1. MaxFaults \in Nat /\ faults \in 0..MaxFaults /\ faults < MaxFaults /\ faults' = faults + 1
            BY BoundsAssumption DEF Base, TypeOK, Crash
        <3>. QED  BY <3>1
    <2>. QED  BY <2>1, <2>2, FreshType DEF Base, TypeOK, Crash, files, States
<1>2. FilesOK'
    BY DEF Base, Crash, FilesOK, files, Uploaded, Name
<1>3. \A r \in Runs : PathOK(r)'
    BY DEF Crash, PathOK, Fresh
<1>. QED  BY <1>1, <1>2, <1>3 DEF Base

LEMMA ScanBase == ASSUME Base, NEW r \in Runs, Scan(r) PROVE Base'
<1>1. /\ pc[r] \in {"idle", "done"}
      /\ UNCHANGED <<files, table, faults, history>>
      /\ scans' \in [Runs -> Nat] /\ \A q \in Runs : scans'[q] <= MaxScans[q]
      /\ state[r] \in States
    <2>1. /\ scans \in [Runs -> Nat] /\ \A q \in Runs : scans[q] <= MaxScans[q]
          /\ \A q \in Runs : MaxScans[q] \in Nat
          /\ scans[r] < MaxScans[r] /\ scans' = [scans EXCEPT ![r] = @ + 1]
        BY BoundsAssumption DEF Scan, Base, TypeOK
    <2>2. scans' \in [Runs -> Nat] /\ \A q \in Runs : scans'[q] <= MaxScans[q]
        BY <2>1
    <2>. QED  BY <2>2 DEF Scan, Base, TypeOK, States
<1>2. PICK g \in States, p \in {"scanned", "idle"} :
          /\ state' = [state EXCEPT ![r] = g]
          /\ pc' = [pc EXCEPT ![r] = p]
          /\ g.records # 0 => g.records \in Uploaded /\ g.table # NoName
          /\ g.scanned # 0 => g.scanned \in Uploaded
          /\ g.path # NoName => g.table = g.path
    <2>1. PathOK(r)
        BY DEF Base
    <2>2. CASE /\ Present # {}
               /\ LET v == Max({input[n] : n \in Present})
                      n == uploads[v].name
                  IN  state' = [state EXCEPT ![r].path = n, ![r].table = n, ![r].scanned = v]
               /\ Goto(r, "scanned")
        <3>. DEFINE v == Max({input[n] : n \in Present})
                    n == uploads[v].name
                    g == [state[r] EXCEPT !.path = n, !.table = n, !.scanned = v]
        <3>1. v \in Uploaded /\ v \in Versions /\ n \in Names
            BY <2>2, ScanFinds DEF Base, Name
        <3>2. state' = [state EXCEPT ![r] = g]
            <4>. HIDE DEF v
            <4>. QED  BY <2>2, <1>1 DEF States, v, Base, TypeOK
        <3>. HIDE DEF v
        <3>3. g \in States /\ g.records = state[r].records /\ g.path = n /\ g.table = n /\ g.scanned = v
            BY <1>1, <3>1 DEF States
        <3>. HIDE DEF g
        <3>. QED  BY <2>1, <2>2, <3>1, <3>2, <3>3, NoNameAssumption DEF PathOK, Goto
    <2>3. CASE /\ Present = {} /\ r \notin Agents
               /\ state' = [state EXCEPT ![r].path = NoName, ![r].scanned = 0]
               /\ Goto(r, "scanned")
        <3>. DEFINE g == [state[r] EXCEPT !.path = NoName, !.scanned = 0]
        <3>1. state' = [state EXCEPT ![r] = g]
            BY <2>3, <1>1 DEF States, Base, TypeOK
        <3>2. /\ g \in States /\ g.records = state[r].records /\ g.path = NoName
              /\ g.table = state[r].table /\ g.scanned = 0
            BY <1>1 DEF States
        <3>. HIDE DEF g
        <3>. QED  BY <2>1, <2>3, <3>1, <3>2 DEF PathOK, Goto
    <2>4. CASE /\ Present = {}
               /\ state' = [state EXCEPT ![r] = Fresh]
               /\ Goto(r, "idle")
        BY <2>4, FreshType DEF Goto, Fresh
    <2>. QED  BY <2>2, <2>3, <2>4 DEF Scan
<1>3. TypeOK'
    <2>1. state' \in [Runs -> States] /\ pc' \in [Runs -> {"idle", "scanned", "read", "moving", "ingested", "done"}]
        BY <1>2 DEF Base, TypeOK, States
    <2>. QED  BY <1>1, <2>1 DEF Base, TypeOK, States, files, history
<1>4. FilesOK'
    BY <1>1 DEF Base, FilesOK, files, Uploaded, Name, history
<1>5. ASSUME NEW q \in Runs PROVE PathOK(q)'
    <2>1. CASE q = r
        BY <2>1, <1>1, <1>2 DEF Base, TypeOK, PathOK, files, Uploaded
    <2>2. CASE q # r
        <3>1. pc'[q] = pc[q] /\ state'[q] = state[q]
            BY <2>2, <1>2 DEF Base, TypeOK
        <3>. QED  BY <3>1, <1>1 DEF Base, PathOK, files, Uploaded
    <2>. QED  BY <2>1, <2>2
<1>. QED  BY <1>3, <1>4, <1>5 DEF Base

\* What another run shares is a version.
LEMMA SharedType ==
    ASSUME NEW r \in Runs, NEW v \in Versions
    PROVE  Shared(r, v) \subseteq Versions
BY DEF Shared

LEMMA QualityBase == ASSUME Base, NEW r \in Runs, Quality(r) PROVE Base'
<1>. DEFINE v == At(state[r].path)
            old == state[r].records
<1>1. /\ state[r] \in States
      /\ UNCHANGED <<files, table, bounds, attempted, taken>>
      /\ pc' = [pc EXCEPT ![r] = "read"] /\ r \notin Agents
    BY DEF Quality, Base, TypeOK, States, Goto
<1>2. v \in Versions \cup {0} /\ (v # 0 => v \in Uploaded /\ state[r].path \in Names)
    BY <1>1, AtType DEF Base, States
<1>3. PathOK(r)
    BY DEF Base
<1>. HIDE DEF v
<1>4. PICK g \in States :
          /\ state' = [state EXCEPT ![r] = g]
          /\ excused' \subseteq Versions /\ carried' \subseteq Names
          /\ g.records # 0 => g.records \in Uploaded /\ g.table # NoName
          /\ g.scanned = state[r].scanned /\ g.path = state[r].path /\ g.table = state[r].table
    <2>1. CASE Readable(v)
        <3>. DEFINE g == [path |-> state[r].path, table |-> state[r].table,
                          stamp |-> state[r].stamp, records |-> v, scanned |-> state[r].scanned]
        <3>1. v # 0 /\ v \in Versions
            BY <1>2, <2>1 DEF Readable
        <3>2. state' = [state EXCEPT ![r] = g] /\ excused' = excused \cup Shared(r, v) /\ carried' = carried
            BY <2>1, <1>1 DEF Quality, v, States
        <3>3. g \in States
            BY <1>1, <3>1 DEF States
        <3>4. state[r].table # NoName
            BY <1>2, <1>3, <3>1, NoNameAssumption DEF PathOK
        <3>5. excused' \subseteq Versions /\ carried' \subseteq Names
            BY <3>1, <3>2, SharedType DEF Base, TypeOK
        <3>. QED  BY <1>2, <3>1, <3>2, <3>3, <3>4, <3>5
    <2>2. CASE ~ Readable(v)
        <3>1. /\ state' = state /\ excused' = excused \cup ({old} \ {0})
              /\ carried' = IF old = 0 THEN carried ELSE carried \cup {state[r].table}
            BY <2>2 DEF Quality, v
        <3>2. state' = [state EXCEPT ![r] = state[r]]
            BY <3>1 DEF Base, TypeOK
        <3>3. old \in Versions \cup {0} /\ (old # 0 => state[r].table \in Names)
            BY <1>1, <1>3 DEF States, PathOK
        <3>4. excused' \subseteq Versions /\ carried' \subseteq Names
            BY <3>1, <3>3 DEF Base, TypeOK
        <3>. QED  BY <1>1, <1>3, <3>2, <3>4 DEF PathOK
    <2>. QED  BY <2>1, <2>2
<1>5. TypeOK'
    BY <1>1, <1>4 DEF Base, TypeOK, States, files, bounds
<1>6. \A n \in Names, u \in Versions : table'[n][u] > 0 => u \in Uploaded
    BY <1>1 DEF Base, FilesOK
<1>7. attempted' \subseteq Uploaded
    BY <1>1 DEF Base, FilesOK
<1>. QED  BY <1>1, <1>3, <1>4, <1>5, <1>6, <1>7, BaseOfState DEF PathOK, bounds

LEMMA CheckToolBase == ASSUME Base, NEW r \in Runs, CheckTool(r) PROVE Base'
<1>. DEFINE n == state[r].path
            v == At(n)
<1>1. /\ state[r] \in States /\ n \in Names \cup {NoName}
      /\ UNCHANGED <<uploads, input, table, bounds, attempted, taken, carried>>
    BY DEF CheckTool, Base, TypeOK, States
<1>2. v \in Versions \cup {0} /\ (v # 0 => v \in Uploaded /\ n \in Names /\ Name(v) = n)
    BY <1>1, AtType DEF Base
<1>3. PathOK(r) /\ TypeOK /\ FilesOK
    BY DEF Base
<1>. HIDE DEF v
<1>4. PICK g \in States, p \in {"read", "idle"} :
          /\ state' = [state EXCEPT ![r] = g]
          /\ pc' = [pc EXCEPT ![r] = p]
          /\ excused' \subseteq Versions
          /\ staging' \in [Names \X Seconds -> Versions \cup {0}]
          /\ \A m \in Names, s \in Seconds :
                 staging'[<<m, s>>] = staging[<<m, s>>] \/ (m = n /\ n \in Names /\ staging'[<<m, s>>] = v)
          /\ g.records # 0 => g.records \in Uploaded /\ g.table # NoName
          /\ g.scanned \in {state[r].scanned, 0}
          /\ g.path # NoName => g.table = g.path
          /\ p = "read" => g.path # NoName /\ g.stamp \in Seconds
    <2>1. CASE Readable(v)
        <3>1. v # 0 /\ v \in Versions /\ n \in Names
            BY <1>2, <2>1 DEF Readable
        <3>2. PICK now \in Seconds :
                  /\ staging' = [staging EXCEPT ![<<n, now>>] = v]
                  /\ state' = [state EXCEPT ![r].records = v, ![r].stamp = now]
            BY <2>1 DEF CheckTool, v
        <3>3. excused' = excused \cup Shared(r, v) /\ pc' = [pc EXCEPT ![r] = "read"]
            BY <2>1 DEF CheckTool, v, Goto
        <3>. DEFINE g == [state[r] EXCEPT !.records = v, !.stamp = now]
        <3>4. state' = [state EXCEPT ![r] = g]
            BY <3>2, <1>1, <1>3 DEF States, TypeOK
        <3>5. /\ g \in States /\ g.records = v /\ g.stamp = now /\ g.path = n
              /\ g.table = state[r].table /\ g.scanned = state[r].scanned
            BY <1>1, <3>1 DEF States
        <3>6. /\ staging' \in [Names \X Seconds -> Versions \cup {0}]
              /\ \A m \in Names, s \in Seconds :
                     staging'[<<m, s>>] = staging[<<m, s>>] \/ (m = n /\ staging'[<<m, s>>] = v)
            BY <3>1, <3>2, <1>3 DEF TypeOK
        <3>7. excused' \subseteq Versions
            BY <3>1, <3>3, <1>3, SharedType DEF TypeOK
        <3>. HIDE DEF g
        <3>8. n # NoName /\ state[r].table = n
            BY <3>1, <1>3, NoNameAssumption DEF PathOK
        <3>. QED  BY <1>2, <3>1, <3>3, <3>4, <3>5, <3>6, <3>7, <3>8
    <2>2. CASE ~ Readable(v)
        <3>1. /\ state' = [state EXCEPT ![r] = Fresh] /\ pc' = [pc EXCEPT ![r] = "idle"]
              /\ staging' = staging /\ excused' = excused
            BY <2>2 DEF CheckTool, v, Goto
        <3>2. staging \in [Names \X Seconds -> Versions \cup {0}] /\ excused \subseteq Versions
            BY <1>3 DEF TypeOK
        <3>. QED  BY <3>1, <3>2, FreshType DEF Fresh
    <2>. QED  BY <2>1, <2>2
<1>5. TypeOK'
    <2>1. state' \in [Runs -> States] /\ pc' \in [Runs -> {"idle", "scanned", "read", "moving", "ingested", "done"}]
        BY <1>3, <1>4 DEF TypeOK, States
    <2>. QED  BY <1>1, <1>3, <1>4, <2>1 DEF TypeOK, States, bounds
<1>6. FilesOK'
    BY <1>1, <1>2, <1>3, <1>4 DEF FilesOK, Uploaded, Name
<1>7. ASSUME NEW q \in Runs PROVE PathOK(q)'
    <2>1. CASE q = r
        <3>1. state'[r] = g /\ pc'[r] = p
            BY <1>3, <1>4 DEF TypeOK
        <3>. QED  BY <2>1, <3>1, <1>1, <1>3, <1>4 DEF PathOK, Uploaded
    <2>2. CASE q # r
        <3>1. pc'[q] = pc[q] /\ state'[q] = state[q]
            BY <2>2, <1>3, <1>4 DEF TypeOK
        <3>. QED  BY <3>1, <1>1 DEF Base, PathOK, Uploaded
    <2>. QED  BY <2>1, <2>2
<1>. QED  BY <1>5, <1>6, <1>7 DEF Base

\* What db_ingestor and ingest_to_db come to: a file that is skipped, or one whose
\* rows are put to the database.
LEMMA IngestCases ==
    ASSUME Base, NEW r \in Runs, Ingest(r) \/ IngestTool(r)
    PROVE  /\ pc[r] = "read"
           /\ \/ /\ Skip(r)
                 /\ r \notin Agents =>
                       \/ state[r].records = 0
                       \/ uploads[state[r].records].content = "empty"
                 /\ r \in Agents => staging[<<state[r].path, state[r].stamp>>] = 0
              \/ \E v \in Uploaded :
                    /\ Put(r, v) /\ v \in Versions /\ v # 0 /\ state[r].table \in Names
                    /\ r \notin Agents => v = state[r].records
                    /\ r \in Agents => /\ v = staging[<<state[r].path, state[r].stamp>>]
                                       /\ Name(v) = state[r].path
<1>. DEFINE s == state[r]
<1>1. s \in States /\ PathOK(r) /\ TypeOK /\ FilesOK
    BY DEF Base, TypeOK, States
<1>2. CASE Ingest(r)
    <2>1. PICK v \in {s.records} : v = s.records
        OBVIOUS
    <2>2. CASE v = 0 \/ (v # 0 /\ uploads[v].content = "empty")
        BY <1>2, <2>1, <2>2 DEF Ingest
    <2>3. CASE ~(v = 0 \/ (v # 0 /\ uploads[v].content = "empty"))
        <3>1. Put(r, v) /\ pc[r] = "read" /\ r \notin Agents
            BY <1>2, <2>1, <2>3 DEF Ingest
        <3>2. v \in Uploaded /\ v \in Versions /\ s.table \in Names
            BY <1>1, <2>1, <2>3 DEF PathOK, States
        <3>. QED  BY <2>1, <2>3, <3>1, <3>2
    <2>. QED  BY <2>2, <2>3
<1>3. CASE IngestTool(r)
    <2>1. PICK v \in {staging[<<s.path, s.stamp>>]} : v = staging[<<s.path, s.stamp>>]
        OBVIOUS
    <2>2. CASE v = 0
        BY <1>3, <2>1, <2>2 DEF IngestTool
    <2>3. CASE v # 0
        <3>1. Put(r, v) /\ pc[r] = "read" /\ r \in Agents
            BY <1>3, <2>1, <2>3 DEF IngestTool
        <3>2. s.path \in Names /\ s.stamp \in Seconds /\ s.table = s.path
            BY <1>1, <3>1 DEF PathOK, States
        <3>3. v \in Uploaded /\ Name(v) = s.path /\ v \in Versions
            BY <1>1, <2>1, <2>3, <3>2, UploadType DEF FilesOK
        <3>. QED  BY <2>1, <2>3, <3>1, <3>2, <3>3
    <2>. QED  BY <2>2, <2>3
<1>. QED  BY <1>2, <1>3

\* What putting the rows of v to the database changes.
LEMMA PutEffect ==
    ASSUME Base, NEW r \in Runs, NEW v \in Uploaded, v \in Versions, v # 0,
           state[r].table \in Names, Put(r, v)
    PROVE  /\ UNCHANGED <<files, scans, taken, carried>>
           /\ table' \in [Names -> [Versions -> Nat]]
           /\ \A m \in Names, u \in Versions :
                 \/ table'[m][u] = table[m][u]
                 \/ m = state[r].table /\ u = v /\ table'[m][u] = table[m][u] + 1
           /\ faults' \in 0..MaxFaults
           /\ pc' = [pc EXCEPT ![r] = "moving"]
           /\ attempted' = attempted \cup {v}
           /\ excused' = excused \cup Shared(r, v)
           /\ \E g \in States :
                 /\ state' = [state EXCEPT ![r] = g]
                 /\ g.path = state[r].path /\ g.table = state[r].table
                 /\ g.stamp = state[r].stamp /\ g.scanned = state[r].scanned
                 /\ g.records = v
<1>. DEFINE n == state[r].table
            k == IF uploads[v].content = "rows" THEN 1 ELSE 0
            Batch == [table EXCEPT ![n][v] = @ + k]
<1>1. /\ state[r] \in States /\ state \in [Runs -> States] /\ n \in Names
      /\ table \in [Names -> [Versions -> Nat]] /\ k \in {0, 1}
      /\ faults \in 0..MaxFaults /\ MaxFaults \in Nat
    BY BoundsAssumption DEF Base, TypeOK, States
<1>2. /\ table' \in {table, Batch}
      /\ faults' = faults \/ (faults < MaxFaults /\ faults' = faults + 1)
    BY DEF Put
<1>3. /\ table' \in [Names -> [Versions -> Nat]]
      /\ \A m \in Names, u \in Versions :
            \/ table'[m][u] = table[m][u]
            \/ m = n /\ u = v /\ table'[m][u] = table[m][u] + 1
    <2>1. /\ Batch \in [Names -> [Versions -> Nat]]
          /\ \A m \in Names, u \in Versions :
                 Batch[m][u] = IF m = n /\ u = v THEN table[m][u] + k ELSE table[m][u]
        <3>. HIDE DEF k, n
        <3>. QED  BY <1>1
    <2>. HIDE DEF Batch, k, n
    <2>2. CASE table' = table
        BY <1>1, <2>2
    <2>3. CASE table' = Batch
        BY <1>1, <2>1, <2>3
    <2>. QED  BY <1>2, <2>2, <2>3
<1>4. faults' \in 0..MaxFaults
    BY <1>1, <1>2
<1>5. \E g \in States :
          /\ state' = [state EXCEPT ![r] = g]
          /\ g.path = state[r].path /\ g.table = state[r].table
          /\ g.stamp = state[r].stamp /\ g.scanned = state[r].scanned
          /\ g.records = v
    <2>. DEFINE g == [state[r] EXCEPT !.records = v]
    <2>1. state' = [state EXCEPT ![r] = g]
        BY <1>1 DEF Put
    <2>2. /\ g \in States /\ g.path = state[r].path /\ g.table = state[r].table
          /\ g.stamp = state[r].stamp /\ g.scanned = state[r].scanned
          /\ g.records = v
        BY <1>1 DEF States
    <2>. HIDE DEF g
    <2>. QED  BY <2>1, <2>2
<1>6. /\ UNCHANGED <<files, scans, taken, carried>>
      /\ pc' = [pc EXCEPT ![r] = "moving"]
      /\ attempted' = attempted \cup {v}
      /\ excused' = excused \cup Shared(r, v)
    BY DEF Put, Goto
<1>. QED  BY <1>3, <1>4, <1>5, <1>6

LEMMA PutBase ==
    ASSUME Base, NEW r \in Runs, NEW v \in Uploaded, v \in Versions, v # 0,
           state[r].table \in Names, pc[r] = "read", Put(r, v)
    PROVE  Base'
<1>1. TypeOK /\ FilesOK /\ PathOK(r)
    BY DEF Base
<1>2. PICK g \in States :
          /\ state' = [state EXCEPT ![r] = g]
          /\ g.path = state[r].path /\ g.table = state[r].table
          /\ g.stamp = state[r].stamp /\ g.scanned = state[r].scanned
          /\ g.records = v
    BY PutEffect
<1>3. /\ UNCHANGED <<files, scans, taken, carried>>
      /\ table' \in [Names -> [Versions -> Nat]]
      /\ faults' \in 0..MaxFaults
      /\ pc' = [pc EXCEPT ![r] = "moving"]
      /\ attempted' = attempted \cup {v} /\ excused' = excused \cup Shared(r, v)
    BY PutEffect
<1>4. TypeOK'
    <2>1. attempted' \subseteq Versions /\ excused' \subseteq Versions
        BY <1>1, <1>3, SharedType DEF TypeOK
    <2>. QED  BY <1>1, <1>2, <1>3, <2>1 DEF TypeOK, States, files
<1>5. attempted' \subseteq Uploaded
    BY <1>1, <1>3 DEF FilesOK
<1>6. \A m \in Names, u \in Versions : table'[m][u] > 0 => u \in Uploaded
    <2>1. \A m \in Names, u \in Versions : table'[m][u] = table[m][u] \/ u = v
        BY PutEffect
    <2>. QED  BY <1>1, <2>1 DEF FilesOK
<1>7. r \in Agents => state[r].path # NoName /\ state[r].stamp \in Seconds
    BY <1>1 DEF PathOK
<1>. QED  BY <1>1, <1>2, <1>3, <1>4, <1>5, <1>6, <1>7, NoNameAssumption, BaseOfState DEF PathOK

\* A step of a run that changes nothing but the place it is at, or ends it.
LEMMA GotoBase ==
    ASSUME Base, NEW r \in Runs, UNCHANGED <<files, table, bounds, history>>,
           NEW p \in {"idle", "ingested", "done"}, Goto(r, p),
           state' \in {state, [state EXCEPT ![r] = Fresh]}
    PROVE  Base'
<1>1. TypeOK /\ FilesOK /\ PathOK(r) /\ state[r] \in States /\ pc' = [pc EXCEPT ![r] = p]
    BY DEF Base, TypeOK, States, Goto
<1>2. PICK g \in {state[r], Fresh} : state' = [state EXCEPT ![r] = g]
    BY <1>1 DEF TypeOK
<1>3. /\ g \in States
      /\ g.records # 0 => g.records \in Uploaded /\ g.table # NoName
      /\ g.scanned # 0 => g.scanned \in Uploaded
      /\ g.path # NoName => g.table = g.path
    <2>1. CASE g = state[r]
        BY <1>1, <2>1 DEF PathOK
    <2>2. CASE g = Fresh
        BY <2>2, FreshType DEF Fresh
    <2>. QED  BY <2>1, <2>2
<1>4. TypeOK'
    BY <1>1, <1>2, <1>3 DEF TypeOK, States, files, bounds, history
<1>5. attempted' \subseteq Uploaded /\ \A m \in Names, u \in Versions : table'[m][u] > 0 => u \in Uploaded
    BY <1>1 DEF FilesOK, history
<1>. QED  BY <1>1, <1>2, <1>3, <1>4, <1>5, BaseOfState DEF bounds

LEMMA MoveBase == ASSUME Base, NEW r \in Runs, Move(r) PROVE Base'
<1>. DEFINE n == state[r].path
            v == At(n)
<1>1. TypeOK /\ FilesOK /\ PathOK(r) /\ n \in Names \cup {NoName}
    BY DEF Base, TypeOK
<1>2. v \in Versions \cup {0} /\ (v # 0 => n \in Names /\ input[n] = v /\ v \in Uploaded)
    BY <1>1, AtType
<1>3. /\ pc' = [pc EXCEPT ![r] = "ingested"] /\ staging' = Unstaged(r)
      /\ UNCHANGED <<uploads, table, state, scans, attempted, carried>>
      /\ \/ input' = [input EXCEPT ![n] = 0] /\ v # 0
         \/ input' = input
      /\ taken' \subseteq taken \cup ({v} \ {0}) /\ excused' \subseteq excused \cup ({v} \ {0})
      /\ faults' = faults \/ (faults < MaxFaults /\ faults' = faults + 1)
    BY DEF Move, Goto
<1>4. /\ staging' \in [Names \X Seconds -> Versions \cup {0}]
      /\ \A m \in Names, s \in Seconds : staging'[<<m, s>>] \in {staging[<<m, s>>], 0}
    <2>1. CASE r \in Agents
        <3>1. staging' = [staging EXCEPT ![<<n, state[r].stamp>>] = 0]
            BY <2>1, <1>3 DEF Unstaged
        <3>. HIDE DEF n
        <3>. QED  BY <3>1, <1>1 DEF TypeOK
    <2>2. CASE r \notin Agents
        BY <2>2, <1>1, <1>3 DEF Unstaged, TypeOK
    <2>. QED  BY <2>1, <2>2
<1>. HIDE DEF v
<1>5. /\ input' \in [Names -> Versions \cup {0}]
      /\ \A m \in Names : input'[m] \in {input[m], 0}
    BY <1>1, <1>2, <1>3 DEF TypeOK
<1>6. faults' \in 0..MaxFaults
    <2>1. faults \in 0..MaxFaults /\ MaxFaults \in Nat
        BY <1>1, BoundsAssumption DEF TypeOK
    <2>. QED  BY <2>1, <1>3
<1>7. TypeOK'
    BY <1>1, <1>2, <1>3, <1>4, <1>5, <1>6 DEF TypeOK
<1>8. FilesOK'
    <2>1. \A m \in Names, u \in Versions : table'[m][u] > 0 => u \in Uploaded'
        BY <1>1, <1>3 DEF FilesOK, Uploaded
    <2>2. \A u \in Uploaded : Name(u) \in Names
        BY <1>1, UploadType DEF Name
    <2>3. \A u \in Uploaded : input'[Name(u)] # 0 => u <= input'[Name(u)]
        BY <2>2, <1>1, <1>5 DEF FilesOK
    <2>. QED  BY <2>1, <2>3, <1>1, <1>3, <1>4, <1>5 DEF FilesOK, Uploaded, Name
<1>9. ASSUME NEW q \in Runs PROVE PathOK(q)'
    <2>1. PathOK(q) /\ (pc'[q] = pc[q] \/ pc'[q] = "ingested")
        BY <1>1, <1>3 DEF Base, TypeOK
    <2>. QED  BY <2>1, <1>3 DEF PathOK, Uploaded
<1>. QED  BY <1>7, <1>8, <1>9 DEF Base

LEMMA BaseStep == ASSUME Base, [Next]_vars PROVE Base'
<1>1. CASE UNCHANGED vars
    BY <1>1 DEF vars, files, bounds, history, Base, TypeOK, FilesOK, PathOK, Uploaded, Name
<1>2. ASSUME NEW n \in Names, NEW c \in Contents, Upload(n, c) PROVE Base'
    BY <1>2, UploadBase
<1>3. CASE Crash
    BY <1>3, CrashBase
<1>4. ASSUME NEW r \in Runs, Step(r) PROVE Base'
    <2>1. CASE Ingest(r) \/ IngestTool(r)
        <3>1. CASE Skip(r)
            BY <3>1, GotoBase DEF Skip
        <3>2. CASE ~ Skip(r)
            <4>1. pc[r] = "read"
                BY <2>1, IngestCases
            <4>2. PICK v \in Uploaded :
                      Put(r, v) /\ v \in Versions /\ v # 0 /\ state[r].table \in Names
                BY <2>1, <3>2, IngestCases
            <4>. QED  BY <4>1, <4>2, PutBase
        <3>. QED  BY <3>1, <3>2
    <2>2. CASE Profile(r)
        BY <2>2, GotoBase DEF Profile
    <2>3. CASE Finish(r)
        BY <2>3, GotoBase DEF Finish
    <2>. QED  BY <1>4, <2>1, <2>2, <2>3, ScanBase, QualityBase, CheckToolBase, MoveBase DEF Step
<1>. QED  BY <1>1, <1>2, <1>3, <1>4 DEF Next

-----------------------------------------------------------------------------
(* The runs                                                                *)

\* What no step undoes: what was uploaded, put to the database or is on record
\* stays so; a name leads to the same version, a later one, or none; and a
\* staging file goes only with the file, or when that is on record.
Grows ==
    /\ \A v \in Uploaded : v \in Uploaded' /\ uploads'[v] = uploads[v]
    /\ \A n \in Names : input'[n] = input[n] \/ input'[n] = 0 \/ input'[n] \notin Uploaded
    /\ attempted \subseteq attempted' /\ excused \subseteq excused' /\ carried \subseteq carried'
    /\ \A n \in Names, s \in Seconds :
           staging[<<n, s>>] # 0 =>
               staging'[<<n, s>>] # 0 \/ input'[n] = 0 \/ input'[n] \in excused'

LEMMA GrowsMove == ASSUME Base, NEW r \in Runs, Move(r) PROVE Grows
<1>. DEFINE n == state[r].path
            v == At(n)
<1>1. TypeOK /\ FilesOK /\ PathOK(r) /\ n \in Names \cup {NoName}
    BY DEF Base, TypeOK
<1>2. v \in Versions \cup {0} /\ (n \in Names => input[n] = v)
    BY <1>1, AtType, NoNameAssumption DEF At
<1>3. /\ pc[r] = "moving" /\ staging' = Unstaged(r)
      /\ UNCHANGED <<uploads, attempted, carried>>
      /\ \/ input' = [input EXCEPT ![n] = 0]
         \/ v = 0 /\ input' = input
         \/ input' = input /\ v \in excused'
      /\ excused \subseteq excused'
    BY DEF Move
<1>. HIDE DEF v
<1>4. \A m \in Names : input'[m] \in {input[m], 0}
    BY <1>1, <1>3 DEF TypeOK
<1>5. n \in Names => input'[n] = 0 \/ input'[n] \in excused'
    BY <1>1, <1>2, <1>3 DEF TypeOK
<1>6. \A m \in Names, s \in Seconds : staging'[<<m, s>>] = staging[<<m, s>>] \/ m = n
    <2>1. CASE r \in Agents
        <3>1. staging' = [staging EXCEPT ![<<n, state[r].stamp>>] = 0]
            BY <2>1, <1>3 DEF Unstaged
        <3>. HIDE DEF n
        <3>. QED  BY <3>1, <1>1 DEF TypeOK
    <2>2. CASE r \notin Agents
        BY <2>2, <1>3 DEF Unstaged
    <2>. QED  BY <2>1, <2>2
<1>. HIDE DEF n
<1>. QED  BY <1>3, <1>4, <1>5, <1>6 DEF Grows, Uploaded

LEMMA GrowsStep == ASSUME Base, [Next]_vars PROVE Grows
<1>1. CASE UNCHANGED vars
    BY <1>1 DEF vars, files, history, Grows, Uploaded
<1>2. ASSUME NEW n \in Names, NEW c \in Contents, Upload(n, c) PROVE Grows
    <2>1. \A v \in Uploaded : v \in Uploaded' /\ uploads'[v] = uploads[v]
        BY <1>2, UploadBase
    <2>2. \A m \in Names : input'[m] = input[m] \/ input'[m] \notin Uploaded
        <3>1. /\ uploads \in Seq([name : Names, content : Contents])
              /\ input \in [Names -> Versions \cup {0}]
              /\ uploads' = Append(uploads, [name |-> n, content |-> c])
              /\ input' = [input EXCEPT ![n] = Len(uploads')]
            BY <1>2 DEF Upload, Base, TypeOK
        <3>2. Len(uploads') = Len(uploads) + 1 /\ Uploaded = 1..Len(uploads) /\ Len(uploads) \in Nat
            BY <3>1 DEF Uploaded
        <3>. QED  BY <3>1, <3>2
    <2>. QED  BY <1>2, <2>1, <2>2 DEF Upload, history, Grows
<1>3. CASE Crash
    BY <1>3 DEF Crash, files, Grows, Uploaded
<1>4. ASSUME NEW r \in Runs, Step(r) PROVE Grows
    <2>1. CASE Ingest(r) \/ IngestTool(r)
        <3>1. CASE Skip(r)
            BY <3>1 DEF Skip, files, history, Grows, Uploaded
        <3>2. CASE ~ Skip(r)
            <4>1. PICK v \in Uploaded : Put(r, v)
                BY <2>1, <3>2, IngestCases
            <4>. QED  BY <4>1 DEF Put, files, Grows, Uploaded
        <3>. QED  BY <3>1, <3>2
    <2>2. CASE Scan(r)
        BY <2>2 DEF Scan, files, history, Grows, Uploaded
    <2>3. CASE Quality(r)
        <3>1. /\ UNCHANGED <<uploads, input, staging, attempted>>
              /\ excused \subseteq excused' /\ carried \subseteq carried'
            BY <2>3 DEF Quality, files
        <3>. QED  BY <3>1 DEF Grows, Uploaded
    <2>4. CASE CheckTool(r)
        <3>1. UNCHANGED <<uploads, input, attempted, carried>> /\ excused \subseteq excused'
            BY <2>4 DEF CheckTool
        <3>2. \A n \in Names, s \in Seconds : staging[<<n, s>>] # 0 => staging'[<<n, s>>] # 0
            <4>. DEFINE v == At(state[r].path)
            <4>1. CASE Readable(v)
                <5>1. PICK now \in Seconds :
                          staging' = [staging EXCEPT ![<<state[r].path, now>>] = v]
                    BY <2>4, <4>1 DEF CheckTool
                <5>2. v # 0
                    BY <4>1 DEF Readable
                <5>. HIDE DEF v
                <5>. QED  BY <5>1, <5>2 DEF Base, TypeOK
            <4>2. CASE ~ Readable(v)
                BY <2>4, <4>2 DEF CheckTool
            <4>. QED  BY <4>1, <4>2
        <3>. QED  BY <3>1, <3>2 DEF Grows, Uploaded
    <2>5. CASE Profile(r) \/ Finish(r)
        BY <2>5 DEF Profile, Finish, files, history, Grows, Uploaded
    <2>. QED  BY <1>4, <2>1, <2>2, <2>3, <2>4, <2>5, GrowsMove DEF Step
<1>. QED  BY <1>1, <1>2, <1>3, <1>4 DEF Next

\* A path leads to a version that was there before only if it did so then.
LEMMA AtFrame ==
    ASSUME Base, Grows, NEW n \in Names \cup {NoName}, NEW v \in Uploaded, v # 0, At(n)' = v
    PROVE  At(n) = v /\ n \in Names /\ input[n] = v /\ input'[n] = v
BY NoNameAssumption DEF Grows, At

LEMMA SourceFrame ==
    ASSUME Base, Grows, NEW r \in Runs, state[r].records \in Uploaded, Source(r),
           state'[r].records = state[r].records, state'[r].table = state[r].table,
           state'[r].path = state[r].path
    PROVE  Source(r)'
BY DEF Source, Grows, Name

\* A run that does not move keeps what is known of it, whatever the others do.
LEMMA RunFrame ==
    ASSUME Base, Grows, NEW r \in Runs, RunOK(r), pc'[r] = pc[r], state'[r] = state[r]
    PROVE  RowsOK(r)' /\ ChosenOK(r)'
<1>. DEFINE s == state[r]
            v == s.scanned
<1>1. PathOK(r) /\ RowsOK(r) /\ ChosenOK(r) /\ s.path \in Names \cup {NoName}
    BY DEF RunOK, Base, TypeOK
<1>2. RowsOK(r)'
    <2>1. pc[r] = "moving" => s.records \in attempted' /\ s.records \in Uploaded
        BY <1>1 DEF RowsOK, Grows, PathOK
    <2>. QED  BY <2>1, <1>1, SourceFrame DEF RowsOK, PathOK
<1>3. ChosenOK(r)'
    <2>. SUFFICES ASSUME v # 0, At(s.path)' = v
                  PROVE  /\ pc[r] = "read" /\ r \notin Agents =>
                                s.records = v \/ uploads'[v].content = "unreadable"
                         /\ pc[r] = "read" /\ r \in Agents =>
                                staging'[<<s.path, s.stamp>>] # 0 \/ v \in excused'
                         /\ pc[r] \in {"ingested", "done"} =>
                                uploads'[v].content \in {"empty", "unreadable"} \/ v \in excused'
        BY DEF ChosenOK, At
    <2>1. v \in Uploaded
        BY <1>1 DEF PathOK
    <2>2. At(s.path) = v /\ s.path \in Names /\ input'[s.path] = v
        <3>1. PICK n \in Names \cup {NoName}, u \in Uploaded : n = s.path /\ u = v
            BY <1>1, <2>1
        <3>2. At(n)' = u
            BY <3>1 DEF At
        <3>. HIDE DEF v, s
        <3>. QED  BY <3>1, <3>2, AtFrame
    <2>3. uploads'[v] = uploads[v] /\ excused \subseteq excused'
        BY <2>1 DEF Grows
    <2>4. pc[r] = "read" /\ r \in Agents => s.stamp \in Seconds
        BY <1>1 DEF PathOK
    <2>5. ASSUME s.stamp \in Seconds, staging[<<s.path, s.stamp>>] # 0
          PROVE  staging'[<<s.path, s.stamp>>] # 0 \/ v \in excused'
        BY <2>2, <2>5 DEF Grows
    <2>. QED  BY <1>1, <2>2, <2>3, <2>4, <2>5 DEF ChosenOK
<1>. QED  BY <1>2, <1>3

\* At a place where nothing is asked of a run.
LEMMA RunAtRest ==
    ASSUME NEW r \in Runs, pc'[r] \in {"idle", "scanned"}
    PROVE  RowsOK(r)' /\ ChosenOK(r)'
BY DEF RowsOK, ChosenOK

LEMMA QualityRun ==
    ASSUME Base, Base', Grows, NEW r \in Runs, Quality(r)
    PROVE  RowsOK(r)' /\ ChosenOK(r)'
<1>. DEFINE s == state[r]
<1>0. PICK n \in Names \cup {NoName}, v \in Versions \cup {0} : n = s.path /\ v = At(n)
    BY AtType DEF Base, TypeOK
<1>1. /\ s \in States /\ PathOK(r) /\ TypeOK /\ FilesOK
      /\ pc'[r] = "read" /\ r \notin Agents
      /\ UNCHANGED <<uploads, input>>
    BY DEF Quality, Base, TypeOK, States, Goto, files
<1>2. v # 0 => n \in Names /\ Name(v) = n
    BY <1>0, <1>1, AtType
<1>3. CASE Readable(v)
    <2>1. state'[r].records = v /\ state'[r].path = n
        <3>1. state' = [state EXCEPT ![r].records = v]
            BY <1>0, <1>3 DEF Quality
        <3>. QED  BY <1>0, <1>1, <3>1 DEF TypeOK, States
    <2>2. v # 0
        BY <1>3 DEF Readable
    <2>3. At(n)' = v
        BY <1>0, <1>1 DEF At
    <2>. HIDE DEF s
    <2>4. Source(r)'
        BY <1>1, <1>2, <2>1, <2>2 DEF Source, Name
    <2>5. ChosenOK(r)'
        <3>1. At(state[r].path)' = v
            BY <2>1, <2>3 DEF At
        <3>. QED  BY <1>1, <2>1, <3>1 DEF ChosenOK, At
    <2>. QED  BY <1>1, <2>4, <2>5 DEF RowsOK
<1>4. CASE ~ Readable(v)
    <2>1. /\ state' = state
          /\ excused' = excused \cup ({s.records} \ {0})
          /\ carried' = IF s.records = 0 THEN carried ELSE carried \cup {s.table}
        BY <1>0, <1>4 DEF Quality
    <2>2. RowsOK(r)'
        <3>1. s.records # 0 => s.records \in excused' /\ s.table \in carried'
            BY <2>1
        <3>2. s.path # NoName => s.table = s.path
            BY <1>1 DEF PathOK
        <3>. HIDE DEF s
        <3>3. s.records # 0 => Source(r)'
            BY <2>1, <3>1, <3>2 DEF Source, s
        <3>. QED  BY <1>1, <2>1, <3>3 DEF RowsOK, s
    <2>3. ChosenOK(r)'
        <3>1. At(n)' = v /\ state'[r].path = n
            BY <1>0, <1>1, <2>1 DEF At
        <3>2. v # 0 => uploads'[v].content = "unreadable"
            BY <1>1, <1>4 DEF Readable
        <3>. QED  BY <1>1, <2>1, <3>1, <3>2 DEF ChosenOK, At
    <2>. QED  BY <2>2, <2>3
<1>. QED  BY <1>3, <1>4

LEMMA CheckToolRun ==
    ASSUME Base, Grows, NEW r \in Runs, CheckTool(r)
    PROVE  RowsOK(r)' /\ ChosenOK(r)'
<1>. DEFINE s == state[r]
            v == At(s.path)
<1>1. /\ s \in States /\ TypeOK /\ FilesOK /\ r \in Agents
    BY DEF CheckTool, Base, TypeOK, States
<1>2. v # 0 => s.path \in Names /\ Name(v) = s.path
    BY <1>1, AtType DEF States
<1>3. CASE Readable(v)
    <2>1. PICK now \in Seconds :
              /\ staging' = [staging EXCEPT ![<<s.path, now>>] = v]
              /\ state' = [state EXCEPT ![r].records = v, ![r].stamp = now]
        BY <1>3 DEF CheckTool
    <2>2. v # 0 /\ s.path \in Names /\ pc'[r] = "read"
        BY <1>1, <1>2, <1>3 DEF CheckTool, Readable, Goto, TypeOK
    <2>3. state'[r].path = s.path /\ state'[r].stamp = now
        BY <1>1, <2>1 DEF TypeOK, States
    <2>. HIDE DEF v
    <2>4. staging'[<<s.path, now>>] # 0
        BY <1>1, <2>1, <2>2 DEF TypeOK
    <2>. QED  BY <1>1, <2>2, <2>3, <2>4 DEF RowsOK, ChosenOK
<1>4. CASE ~ Readable(v)
    <2>1. pc'[r] = "idle"
        BY <1>1, <1>4 DEF CheckTool, Goto, TypeOK
    <2>. QED  BY <2>1, RunAtRest
<1>. QED  BY <1>3, <1>4

LEMMA IngestRun ==
    ASSUME Base, Grows, NEW r \in Runs, RunOK(r), Ingest(r) \/ IngestTool(r)
    PROVE  RowsOK(r)' /\ ChosenOK(r)'
<1>. DEFINE s == state[r]
<1>1. /\ s \in States /\ PathOK(r) /\ RowsOK(r) /\ ChosenOK(r) /\ TypeOK /\ FilesOK
      /\ pc[r] = "read"
    BY IngestCases DEF Base, TypeOK, States, RunOK
<1>2. CASE Skip(r)
    <2>1. /\ pc'[r] = "ingested"
          /\ UNCHANGED <<files, state, history>>
        BY <1>1, <1>2 DEF Skip, Goto, TypeOK
    <2>2. /\ r \notin Agents => s.records = 0 \/ uploads[s.records].content = "empty"
          /\ r \in Agents => staging[<<s.path, s.stamp>>] = 0
        <3>1. ASSUME NEW v, Put(r, v) PROVE FALSE
            <4>1. pc'[r] = "moving"
                BY <1>1, <3>1 DEF Put, Goto, TypeOK
            <4>. QED  BY <2>1, <4>1
        <3>. QED  BY <3>1, IngestCases
    <2>3. ChosenOK(r)'
        BY <1>1, <2>1, <2>2 DEF ChosenOK, At, files, history
    <2>. QED  BY <2>1, <2>3 DEF RowsOK
<1>3. CASE ~ Skip(r)
    <2>1. PICK v \in Uploaded :
              /\ Put(r, v) /\ v \in Versions /\ v # 0 /\ state[r].table \in Names
              /\ r \notin Agents => v = state[r].records
              /\ r \in Agents => Name(v) = state[r].path
        BY <1>3, IngestCases
    <2>2. PICK g \in States :
              /\ state' = [state EXCEPT ![r] = g]
              /\ g.path = s.path /\ g.table = s.table
              /\ g.stamp = s.stamp /\ g.scanned = s.scanned
              /\ g.records = v
        BY <2>1, PutEffect
    <2>3. pc'[r] = "moving" /\ state'[r] = g /\ v \in attempted' /\ uploads' = uploads
        <3>1. pc' = [pc EXCEPT ![r] = "moving"] /\ attempted' = attempted \cup {v} /\ UNCHANGED files
            BY <2>1, PutEffect
        <3>. QED  BY <1>1, <2>2, <3>1 DEF TypeOK, files
    <2>4. Source(r)'
        <3>1. CASE r \in Agents
            BY <2>1, <2>2, <2>3, <3>1 DEF Source, Name
        <3>2. CASE r \notin Agents
            BY <1>1, <2>1, <2>2, <2>3, <3>2, SourceFrame DEF RowsOK
        <3>. QED  BY <3>1, <3>2
    <2>. QED  BY <2>2, <2>3, <2>4 DEF RowsOK, ChosenOK
<1>. QED  BY <1>2, <1>3

LEMMA MoveRun ==
    ASSUME Base, Grows, NEW r \in Runs, RunOK(r), Move(r)
    PROVE  RowsOK(r)' /\ ChosenOK(r)'
<1>1. /\ TypeOK /\ PathOK(r) /\ state' = state /\ pc'[r] = "ingested"
    BY DEF Base, TypeOK, RunOK, Move, Goto
<1>2. ASSUME state[r].scanned # 0, At(state[r].path)' = state[r].scanned
      PROVE  state[r].scanned \in excused'
    <2>1. PICK n \in Names \cup {NoName}, v \in Uploaded : n = state[r].path /\ v = state[r].scanned
        BY <1>1, <1>2 DEF PathOK, TypeOK
    <2>2. At(n)' = v
        BY <1>1, <1>2, <2>1 DEF At
    <2>3. At(n) = v /\ n \in Names /\ input[n] = v /\ input'[n] = v
        BY <1>2, <2>1, <2>2, AtFrame
    <2>4. ~(input' = [input EXCEPT ![n] = 0])
        BY <1>1, <1>2, <2>1, <2>3 DEF TypeOK
    <2>. QED  BY <1>2, <2>1, <2>3, <2>4 DEF Move
<1>. QED  BY <1>1, <1>2 DEF RowsOK, ChosenOK, At

LEMMA RunsStep ==
    ASSUME IInv, Base', Grows, [Next]_vars, NEW q \in Runs
    PROVE  RunOK(q)'
<1>1. Base /\ RunOK(q) /\ PathOK(q)'
    BY DEF IInv, Base, RunOK
<1>2. CASE pc'[q] = pc[q] /\ state'[q] = state[q]
    BY <1>1, <1>2, RunFrame DEF RunOK
<1>3. CASE pc'[q] # pc[q] \/ state'[q] # state[q]
    <2>1. CASE UNCHANGED vars
        BY <1>3, <2>1 DEF vars
    <2>2. ASSUME NEW n \in Names, NEW c \in Contents, Upload(n, c) PROVE RunOK(q)'
        BY <1>3, <2>2 DEF Upload
    <2>3. CASE Crash
        BY <1>1, <2>3, RunAtRest DEF RunOK, Crash
    <2>4. ASSUME NEW r \in Runs, Step(r) PROVE RunOK(q)'
        <3>1. pc' = [pc EXCEPT ![r] = pc'[r]] /\ state' = [state EXCEPT ![r] = state'[r]]
            <4>1. /\ \A p : Goto(r, p) => pc' = [pc EXCEPT ![r] = pc'[r]]
                  /\ state' = state => state' = [state EXCEPT ![r] = state'[r]]
                BY <1>1 DEF Goto, Base, TypeOK
            <4>2. CASE Ingest(r) \/ IngestTool(r)
                <5>1. CASE Skip(r)
                    BY <4>1, <5>1 DEF Skip
                <5>2. CASE ~ Skip(r)
                    <6>1. PICK v \in Uploaded : Put(r, v) /\ v \in Versions /\ v # 0 /\ state[r].table \in Names
                        BY <1>1, <4>2, <5>2, IngestCases
                    <6>2. Goto(r, "moving")
                        BY <6>1 DEF Put
                    <6>3. PICK g \in States : state' = [state EXCEPT ![r] = g]
                        BY <1>1, <6>1, PutEffect
                    <6>4. state' = [state EXCEPT ![r] = state'[r]]
                        BY <1>1, <6>3 DEF Base, TypeOK
                    <6>. QED  BY <4>1, <6>2, <6>4
                <5>. QED  BY <5>1, <5>2
            <4>3. CASE Scan(r)
                BY <1>1, <4>1, <4>3 DEF Scan, Base, TypeOK
            <4>4. CASE Quality(r)
                BY <1>1, <4>1, <4>4 DEF Quality, Base, TypeOK
            <4>5. CASE CheckTool(r)
                BY <1>1, <4>1, <4>5 DEF CheckTool, Base, TypeOK
            <4>6. CASE Move(r)
                BY <4>1, <4>6 DEF Move
            <4>7. CASE Profile(r)
                BY <4>1, <4>7 DEF Profile
            <4>8. CASE Finish(r)
                BY <1>1, <4>1, <4>8 DEF Finish, Base, TypeOK
            <4>. QED  BY <2>4, <4>2, <4>3, <4>4, <4>5, <4>6, <4>7, <4>8 DEF Step
        <3>2. q = r
            BY <1>1, <1>3, <3>1 DEF Base, TypeOK
        <3>3. CASE Scan(r) \/ Finish(r)
            <4>1. pc'[r] \in {"idle", "scanned"}
                BY <1>1, <3>3 DEF Scan, Finish, Goto, Base, TypeOK
            <4>. QED  BY <1>1, <3>2, <4>1, RunAtRest DEF RunOK
        <3>4. CASE Profile(r)
            <4>1. /\ pc[r] = "ingested" /\ pc'[r] = "done"
                  /\ UNCHANGED <<files, state, history>>
                BY <1>1, <3>4 DEF Profile, Goto, Base, TypeOK
            <4>2. RowsOK(r)' /\ ChosenOK(r)'
                BY <1>1, <3>2, <4>1 DEF RunOK, RowsOK, ChosenOK, At, files, history
            <4>. QED  BY <1>1, <3>2, <4>2 DEF RunOK
        <3>. QED  BY <1>1, <2>4, <3>2, <3>3, <3>4, QualityRun, CheckToolRun, IngestRun, MoveRun
                  DEF Step, RunOK
    <2>. QED  BY <2>1, <2>2, <2>3, <2>4 DEF Next
<1>. QED  BY <1>2, <1>3

-----------------------------------------------------------------------------
(* The rows of a version                                                   *)

\* What holds of a version whose rows are committed stays so when none of its
\* rows are put to the database, nobody new holds it, and who was to move it
\* still is, or has.
LEMMA CommittedKept ==
    ASSUME Base, Grows, NEW v \in Uploaded, CommittedOK(v),
           \A n \in Names : table'[n][v] = table[n][v],
           v \notin excused' /\ Committed(v) =>
               \A q \in Runs : pc'[q] = "read" /\ Holds(q, v)' => pc[q] = "read" /\ Holds(q, v),
           BeingMoved(v) => BeingMoved(v)' \/ input'[Name(v)] # v \/ v \in excused'
    PROVE  CommittedOK(v)'
<1>1. /\ v \in Versions /\ v # 0 /\ Name(v) \in Names /\ Name(v)' = Name(v)
    BY UploadType DEF Base, Name, Grows, Versions
<1>2. SUFFICES ASSUME v \notin excused', Committed(v)'
               PROVE  /\ Once(v)'
                      /\ \A r \in Runs : pc'[r] = "read" => ~ Holds(r, v)'
                      /\ input'[Name(v)] # v \/ BeingMoved(v)'
    BY <1>1 DEF CommittedOK
<1>3. v \notin excused /\ Committed(v)
    BY <1>2 DEF Committed, Grows
<1>4. Once(v) /\ Once(v)'
    BY <1>3 DEF CommittedOK, Once
<1>5. \A r \in Runs : pc'[r] = "read" => ~ Holds(r, v)'
    BY <1>2, <1>3 DEF CommittedOK
<1>6. input'[Name(v)] # v \/ BeingMoved(v)'
    <2>1. CASE input[Name(v)] # v
        BY <1>1, <2>1 DEF Grows
    <2>2. CASE BeingMoved(v)
        BY <1>2, <2>2
    <2>. QED  BY <1>3, <2>1, <2>2 DEF CommittedOK
<1>. QED  BY <1>4, <1>5, <1>6

\* A step after which nobody reads who did not before, and no staging file is
\* new, lets nobody new hold a version.
LEMMA HoldsFrame ==
    ASSUME Base, NEW v \in Uploaded, NEW q \in Runs, pc'[q] = "read", Holds(q, v)',
           pc[q] = "read", state'[q] = state[q],
           \A n \in Names, s \in Seconds : staging'[<<n, s>>] \in {staging[<<n, s>>], 0}
    PROVE  Holds(q, v)
<1>1. PathOK(q) /\ state[q].path \in Names \cup {NoName}
    BY DEF Base, TypeOK
<1>2. CASE state'[q].records = v
    BY <1>2 DEF Holds
<1>3. CASE state'[q].records # v
    <2>1. q \in Agents /\ staging'[<<state[q].path, state[q].stamp>>] = v /\ v # 0
        BY <1>3 DEF Holds
    <2>2. state[q].path \in Names /\ state[q].stamp \in Seconds
        BY <1>1, <2>1 DEF PathOK
    <2>. QED  BY <2>1, <2>2 DEF Holds
<1>. QED  BY <1>2, <1>3

\* Who is to move a file still is, if that run takes no step.
LEMMA BeingMovedFrame ==
    ASSUME Grows, NEW v \in Uploaded,
           \A q \in Runs : pc[q] = "moving" => pc'[q] = "moving" /\ state'[q] = state[q],
           BeingMoved(v)
    PROVE  BeingMoved(v)'
BY DEF BeingMoved, Grows, Name

\* A version that is found where it was, though its rows are committed, is being
\* moved by another run, and that is put on record.
LEMMA FoundIsShared ==
    ASSUME Base, NEW r \in Runs, pc[r] = "scanned", NEW n \in Names,
           NEW v \in Uploaded, CommittedOK(v), Committed(v), v \notin excused,
           input[n] = v, v # 0
    PROVE  Shared(r, v) = {v}
<1>1. Name(v) = n
    BY DEF Base, FilesOK
<1>2. PICK q \in Runs : pc[q] = "moving" /\ state[q].records = v
    BY <1>1 DEF CommittedOK, BeingMoved
<1>3. Holds(q, v) /\ q # r
    BY <1>2 DEF Holds
<1>. QED  BY <1>3 DEF Shared

LEMMA QualityVersion ==
    ASSUME Base, Grows, NEW r \in Runs, Quality(r), NEW v \in Uploaded, CommittedOK(v)
    PROVE  CommittedOK(v)'
<1>0. PICK n \in Names \cup {NoName}, u \in Versions \cup {0} : n = state[r].path /\ u = At(n)
    BY AtType DEF Base, TypeOK
<1>1. /\ TypeOK /\ FilesOK /\ pc[r] = "scanned" /\ r \notin Agents
      /\ pc' = [pc EXCEPT ![r] = "read"]
      /\ UNCHANGED <<files, table>> /\ v \in Versions
      /\ u # 0 => n \in Names /\ input[n] = u
    BY <1>0, AtType, UploadType DEF Quality, Goto, Base
<1>2. \A q \in Runs : q # r => pc'[q] = pc[q] /\ state'[q] = state[q]
    BY <1>1 DEF Quality, TypeOK
<1>3. ASSUME v \notin excused', Committed(v), NEW q \in Runs, pc'[q] = "read", Holds(q, v)'
      PROVE  pc[q] = "read" /\ Holds(q, v)
    <2>1. CASE q # r
        BY <1>1, <1>2, <1>3, <2>1, HoldsFrame DEF files
    <2>2. CASE q = r
        <3>1. state'[r].records = v /\ v # 0
            BY <1>1, <1>3, <2>2 DEF Holds
        <3>2. CASE Readable(u)
            <4>1. state' = [state EXCEPT ![r].records = u] /\ excused' = excused \cup Shared(r, u)
                BY <1>0, <3>2 DEF Quality
            <4>2. u = v
                BY <1>1, <3>1, <4>1 DEF TypeOK
            <4>3. Shared(r, v) = {v}
                BY <1>1, <1>3, <3>1, <4>1, <4>2, FoundIsShared
            <4>. QED  BY <1>3, <4>1, <4>2, <4>3
        <3>3. CASE ~ Readable(u)
            <4>1. state' = state /\ excused' = excused \cup ({state[r].records} \ {0})
                BY <1>0, <3>3 DEF Quality
            <4>. QED  BY <1>3, <3>1, <4>1
        <3>. QED  BY <3>2, <3>3
    <2>. QED  BY <2>1, <2>2
<1>4. BeingMoved(v) => BeingMoved(v)'
    <2>1. \A q \in Runs : pc[q] = "moving" => q # r
        BY <1>1
    <2>. QED  BY <1>2, <2>1, BeingMovedFrame
<1>. QED  BY <1>1, <1>3, <1>4, CommittedKept

LEMMA CheckToolVersion ==
    ASSUME Base, Grows, NEW r \in Runs, CheckTool(r), NEW v \in Uploaded, CommittedOK(v)
    PROVE  CommittedOK(v)'
<1>0. PICK n \in Names \cup {NoName}, u \in Versions \cup {0} : n = state[r].path /\ u = At(n)
    BY AtType DEF Base, TypeOK
<1>1. /\ TypeOK /\ FilesOK /\ pc[r] = "scanned" /\ r \in Agents
      /\ UNCHANGED <<uploads, input, table>> /\ v \in Versions /\ v # 0
      /\ u # 0 => n \in Names /\ input[n] = u
    BY <1>0, AtType, UploadType DEF CheckTool, Base, Versions
<1>2. \A q \in Runs : q # r => pc'[q] = pc[q] /\ state'[q] = state[q]
    BY <1>1 DEF CheckTool, Goto, TypeOK
<1>3. ASSUME v \notin excused', Committed(v), NEW q \in Runs, pc'[q] = "read", Holds(q, v)'
      PROVE  pc[q] = "read" /\ Holds(q, v)
    <2>1. CASE Readable(u)
        <3>1. PICK now \in Seconds :
                  /\ staging' = [staging EXCEPT ![<<n, now>>] = u]
                  /\ state' = [state EXCEPT ![r].records = u, ![r].stamp = now]
            BY <1>0, <2>1 DEF CheckTool
        <3>2. excused' = excused \cup Shared(r, u) /\ u # 0
            BY <1>0, <2>1 DEF CheckTool, Readable
        <3>3. u # v
            <4>1. CASE u = v
                <5>1. Shared(r, v) = {v}
                    BY <1>1, <1>3, <3>2, <4>1, FoundIsShared
                <5>. QED  BY <1>3, <3>2, <4>1, <5>1
            <4>. QED  BY <4>1
        <3>4. \A m \in Names, s \in Seconds : staging'[<<m, s>>] \in {staging[<<m, s>>], u}
            BY <1>1, <3>1 DEF TypeOK
        <3>5. CASE q = r
            <4>1. state'[r].records = u /\ state'[r].path = n /\ state'[r].stamp = now
                BY <1>0, <1>1, <3>1 DEF TypeOK
            <4>2. staging'[<<n, now>>] = u
                BY <1>1, <3>1, <3>2 DEF TypeOK
            <4>. QED  BY <1>3, <3>3, <3>5, <4>1, <4>2 DEF Holds
        <3>6. CASE q # r
            <4>1. pc[q] = "read" /\ state'[q] = state[q] /\ PathOK(q)
                BY <1>2, <1>3, <3>6 DEF Base
            <4>2. CASE state[q].records = v
                BY <1>3, <4>1, <4>2 DEF Holds
            <4>3. CASE state[q].records # v
                <5>1. q \in Agents /\ staging'[<<state[q].path, state[q].stamp>>] = v
                    BY <1>3, <4>1, <4>3 DEF Holds
                <5>2. state[q].path \in Names /\ state[q].stamp \in Seconds
                    BY <1>1, <4>1, <5>1 DEF PathOK, TypeOK
                <5>3. staging[<<state[q].path, state[q].stamp>>] = v
                    BY <3>3, <3>4, <5>1, <5>2
                <5>. QED  BY <1>1, <4>1, <5>1, <5>3 DEF Holds
            <4>. QED  BY <4>2, <4>3
        <3>. QED  BY <3>5, <3>6
    <2>2. CASE ~ Readable(u)
        <3>1. pc' = [pc EXCEPT ![r] = "idle"] /\ staging' = staging
            BY <1>0, <2>2 DEF CheckTool, Goto
        <3>2. q # r
            BY <1>1, <1>3, <3>1 DEF TypeOK
        <3>. QED  BY <1>2, <1>3, <3>1, <3>2, HoldsFrame
    <2>. QED  BY <2>1, <2>2
<1>4. BeingMoved(v) => BeingMoved(v)'
    <2>1. \A q \in Runs : pc[q] = "moving" => q # r
        BY <1>1
    <2>. QED  BY <1>2, <2>1, BeingMovedFrame
<1>. QED  BY <1>1, <1>3, <1>4, CommittedKept

\* The run holds what it puts to the database, and that is to go to the table
\* of its file, or on record.
LEMMA PutSource ==
    ASSUME Base, NEW r \in Runs, RunOK(r), pc[r] = "read", NEW v \in Uploaded, v # 0,
           r \notin Agents => v = state[r].records,
           r \in Agents => v = staging[<<state[r].path, state[r].stamp>>] /\ Name(v) = state[r].path
    PROVE  /\ Holds(r, v)
           /\ \/ Name(v) = state[r].path /\ state[r].table = Name(v)
              \/ v \in excused /\ state[r].table \in carried
<1>1. PathOK(r) /\ RowsOK(r) /\ Name(v) \in Names
    BY UploadType DEF RunOK, Base, Name
<1>2. Holds(r, v)
    BY DEF Holds
<1>3. CASE Name(v) = state[r].path
    BY <1>1, <1>2, <1>3, NoNameAssumption DEF PathOK
<1>4. CASE Name(v) # state[r].path
    <2>1. r \notin Agents /\ v = state[r].records
        BY <1>4
    <2>2. Source(r)
        BY <1>1, <2>1 DEF RowsOK
    <2>. QED  BY <1>2, <1>4, <2>1, <2>2 DEF Source
<1>. QED  BY <1>3, <1>4

LEMMA PutVersion ==
    ASSUME IInv, Grows, NEW r \in Runs, pc[r] = "read",
           NEW u \in Uploaded, u \in Versions, u # 0, Put(r, u), state[r].table \in Names,
           r \notin Agents => u = state[r].records,
           r \in Agents => u = staging[<<state[r].path, state[r].stamp>>] /\ Name(u) = state[r].path,
           NEW v \in Uploaded
    PROVE  CommittedOK(v)' /\ TableOK(v)'
<1>1. Base /\ TypeOK /\ RunOK(r) /\ CommittedOK(v) /\ TableOK(v) /\ v \in Versions /\ v # 0
    BY UploadType DEF IInv, Base, RunOK, Versions
<1>. DEFINE t == state[r].table
<1>2. /\ UNCHANGED <<files, carried>>
      /\ \A m \in Names, w \in Versions :
            table'[m][w] = table[m][w] \/ (m = t /\ w = u /\ table'[m][w] = table[m][w] + 1)
      /\ pc' = [pc EXCEPT ![r] = "moving"]
      /\ excused' = excused \cup Shared(r, u)
    BY <1>1, PutEffect
<1>3. PICK g \in States : /\ state' = [state EXCEPT ![r] = g]
                          /\ g.path = state[r].path /\ g.records = u
    BY <1>1, PutEffect
<1>4. /\ \A q \in Runs : q # r => pc'[q] = pc[q] /\ state'[q] = state[q]
      /\ pc'[r] = "moving" /\ state'[r] = g
      /\ \A m \in Names, w \in Versions : table[m][w] \in Nat
    <2>1. /\ pc' = [pc EXCEPT ![r] = "moving"] /\ DOMAIN pc = Runs
          /\ state' = [state EXCEPT ![r] = g] /\ DOMAIN state = Runs
        BY <1>1, <1>2, <1>3 DEF TypeOK
    <2>2. \A m \in Names, w \in Versions : table[m][w] \in Nat
        BY <1>1 DEF TypeOK
    <2>. QED  BY <2>1, <2>2
<1>5. /\ Holds(r, u)
      /\ \/ Name(u) = state[r].path /\ t = Name(u)
         \/ u \in excused /\ t \in carried
    BY <1>1, PutSource
<1>6. CASE v # u
    <2>1. \A n \in Names : table'[n][v] = table[n][v]
        BY <1>1, <1>2, <1>6
    <2>2. \A q \in Runs : pc'[q] = "read" /\ Holds(q, v)' => pc[q] = "read" /\ Holds(q, v)
        BY <1>1, <1>2, <1>4, HoldsFrame DEF files
    <2>3. BeingMoved(v) => BeingMoved(v)'
        <3>1. \A q \in Runs : pc[q] = "moving" => q # r
            OBVIOUS
        <3>. QED  BY <1>4, <3>1, BeingMovedFrame
    <2>4. CommittedOK(v)'
        BY <1>1, <2>1, <2>2, <2>3, CommittedKept
    <2>5. TableOK(v)'
        BY <1>1, <1>2, <2>1 DEF TableOK, Name, files
    <2>. QED  BY <2>4, <2>5
<1>7. CASE v = u
    <2>1. TableOK(v)'
        <3>. SUFFICES ASSUME NEW n \in Names \ {Name(v)}, table'[n][v] > 0 PROVE n \in carried
            BY <1>2 DEF TableOK, Name, files
        <3>1. CASE table'[n][v] = table[n][v]
            BY <1>1, <3>1 DEF TableOK
        <3>2. CASE table'[n][v] # table[n][v]
            BY <1>1, <1>2, <1>5, <1>7, <3>2
        <3>. QED  BY <3>1, <3>2
    <2>2. CommittedOK(v)'
        <3>. SUFFICES ASSUME v \notin excused'
                      PROVE  /\ Once(v)'
                             /\ \A q \in Runs : pc'[q] = "read" => ~ Holds(q, v)'
                             /\ BeingMoved(v)'
            BY DEF CommittedOK
        <3>1. v \notin excused /\ Name(u) = state[r].path /\ t = Name(u)
            BY <1>2, <1>5, <1>7
        <3>2. \A q \in Runs \ {r} : ~ Holds(q, v)
            BY <1>2, <1>7 DEF Shared
        <3>3. \A n \in Names : table[n][v] = 0
            BY <1>1, <1>4, <1>5, <1>7, <3>1 DEF CommittedOK, Committed
        <3>4. \A n \in Names : table'[n][v] = 0 \/ (n = t /\ table'[n][v] = 1)
            BY <1>1, <1>2, <1>7, <3>3
        <3>5. Once(v)'
            <4>1. \A m, n \in Names :
                      table'[m][v] <= 1 /\ (table'[m][v] > 0 /\ table'[n][v] > 0 => m = n)
                <5>. HIDE DEF t
                <5>. QED  BY <3>4
            <4>. QED  BY <4>1 DEF Once
        <3>6. \A q \in Runs : pc'[q] = "read" => ~ Holds(q, v)'
            BY <1>1, <1>2, <1>4, <3>2, HoldsFrame DEF files
        <3>7. BeingMoved(v)'
            BY <1>2, <1>3, <1>4, <1>7, <3>1 DEF BeingMoved, Name, files
        <3>. QED  BY <3>5, <3>6, <3>7
    <2>. QED  BY <2>1, <2>2
<1>. QED  BY <1>6, <1>7

LEMMA MoveVersion ==
    ASSUME Base, Grows, NEW r \in Runs, Move(r), NEW v \in Uploaded, CommittedOK(v)
    PROVE  CommittedOK(v)'
<1>1. /\ TypeOK /\ v \in Versions /\ v # 0 /\ Name(v) \in Names
      /\ pc' = [pc EXCEPT ![r] = "ingested"] /\ pc[r] = "moving"
      /\ UNCHANGED <<uploads, table, state>> /\ staging' = Unstaged(r)
    BY UploadType DEF Move, Goto, Base, Name, Versions
<1>2. \A n \in Names, s \in Seconds : staging'[<<n, s>>] \in {staging[<<n, s>>], 0}
    <2>1. CASE r \in Agents
        <3>1. staging' = [staging EXCEPT ![<<state[r].path, state[r].stamp>>] = 0]
            BY <1>1, <2>1 DEF Unstaged
        <3>. QED  BY <1>1, <3>1 DEF TypeOK
    <2>2. CASE r \notin Agents
        BY <1>1, <2>2 DEF Unstaged
    <2>. QED  BY <2>1, <2>2
<1>3. \A q \in Runs : pc'[q] = "read" /\ Holds(q, v)' => pc[q] = "read" /\ Holds(q, v)
    <2>1. \A q \in Runs : pc'[q] = "read" => pc[q] = "read" /\ state'[q] = state[q]
        BY <1>1 DEF TypeOK
    <2>. QED  BY <1>2, <2>1, HoldsFrame
<1>4. BeingMoved(v) => BeingMoved(v)' \/ input'[Name(v)] # v \/ v \in excused'
    <2>. SUFFICES ASSUME NEW q \in Runs, pc[q] = "moving", state[q].records = v,
                         state[q].path = Name(v)
                  PROVE  BeingMoved(v)' \/ input'[Name(v)] # v \/ v \in excused'
        BY DEF BeingMoved
    <2>1. CASE q # r
        BY <1>1, <2>1 DEF BeingMoved, Name, TypeOK
    <2>2. CASE q = r /\ input[Name(v)] = v
        <3>1. PICK n \in Names : n = Name(v) /\ n = state[r].path
            BY <1>1, <2>2
        <3>2. At(n) = v
            BY <2>2, <3>1, NoNameAssumption DEF At
        <3>3. \/ input' = [input EXCEPT ![n] = 0]
              \/ v \in excused'
            BY <1>1, <3>1, <3>2 DEF Move
        <3>. QED  BY <1>1, <3>1, <3>3 DEF TypeOK
    <2>3. CASE input[Name(v)] # v
        BY <1>1, <2>3 DEF Grows
    <2>. QED  BY <2>1, <2>2, <2>3
<1>. QED  BY <1>1, <1>3, <1>4, CommittedKept

LEMMA VersionsStep ==
    ASSUME IInv, Base', Grows, [Next]_vars, NEW v \in Uploaded'
    PROVE  CommittedOK(v)' /\ TableOK(v)'
<1>1. Base /\ TypeOK /\ FilesOK
    BY DEF IInv, Base, RunOK
<1>2. CASE v \notin Uploaded
    \* The version of this very upload.
    <2>1. uploads' # uploads
        BY <1>2 DEF Uploaded
    <2>2. v \in Versions
        <3>1. uploads' \in Seq([name : Names, content : Contents]) /\ Len(uploads') <= MaxUploads
            BY DEF Base, TypeOK
        <3>2. Uploaded' = 1..Len(uploads') /\ Len(uploads') \in Nat
            BY <3>1 DEF Uploaded
        <3>. QED  BY <3>1, <3>2, BoundsAssumption DEF Versions
    <2>3. table' = table
        <3>1. ASSUME NEW r \in Runs, Step(r) PROVE uploads' = uploads
            <4>1. CASE Ingest(r) \/ IngestTool(r)
                <5>1. ASSUME NEW w, Put(r, w) PROVE uploads' = uploads
                    BY <5>1 DEF Put, files
                <5>2. CASE Skip(r)
                    BY <5>2 DEF Skip, files
                <5>. QED  BY <1>1, <4>1, <5>1, <5>2, IngestCases
            <4>. QED  BY <3>1, <4>1 DEF Step, Scan, Quality, CheckTool, Move, Profile, Finish, files
        <3>. QED  BY <2>1, <3>1 DEF Next, vars, files, Crash, Upload
    <2>4. \A n \in Names : ~(table[n][v] > 0)
        BY <1>1, <1>2, <2>2 DEF FilesOK
    <2>5. ~ Committed(v)'
        BY <2>3, <2>4 DEF Committed
    <2>. QED  BY <2>3, <2>4, <2>5 DEF CommittedOK, TableOK
<1>3. CASE v \in Uploaded
    <2>1. CommittedOK(v) /\ TableOK(v) /\ v \in Versions
        BY <1>1, <1>3, UploadType DEF IInv
    <2>2. ASSUME table' = table PROVE TableOK(v)'
        BY <1>3, <2>1, <2>2 DEF TableOK, Grows, Name
    \* A step after which nobody reads, or is no longer moving, who was not before.
    <2>3. ASSUME UNCHANGED <<staging, table>>,
                 \A q \in Runs : pc'[q] = "read" => pc[q] = "read" /\ state'[q] = state[q],
                 \A q \in Runs : pc[q] = "moving" => pc'[q] = "moving" /\ state'[q] = state[q]
          PROVE  CommittedOK(v)'
        <3>1. \A q \in Runs : pc'[q] = "read" /\ Holds(q, v)' => pc[q] = "read" /\ Holds(q, v)
            BY <1>1, <1>3, <2>3, HoldsFrame
        <3>2. BeingMoved(v) => BeingMoved(v)'
            BY <1>3, <2>3, BeingMovedFrame
        <3>. QED  BY <1>1, <1>3, <2>1, <2>3, <3>1, <3>2, CommittedKept
    <2>4. CASE UNCHANGED vars
        BY <2>2, <2>3, <2>4 DEF vars, files
    <2>5. ASSUME NEW n \in Names, NEW c \in Contents, Upload(n, c)
          PROVE  CommittedOK(v)' /\ TableOK(v)'
        BY <2>2, <2>3, <2>5 DEF Upload
    <2>6. CASE Crash
        <3>1. UNCHANGED table /\ \A q \in Runs : pc'[q] # "read"
            BY <2>6 DEF Crash
        <3>2. BeingMoved(v) => v \in excused'
            BY <2>6 DEF Crash, BeingMoved
        <3>. QED  BY <1>1, <1>3, <2>1, <2>2, <3>1, <3>2, CommittedKept
    <2>7. ASSUME NEW r \in Runs, Step(r) PROVE CommittedOK(v)' /\ TableOK(v)'
        <3>1. ASSUME NEW p \in {"idle", "scanned", "ingested", "done"}, Goto(r, p), pc[r] # "moving",
                     UNCHANGED <<staging, table>>,
                     \A q \in Runs : q # r => state'[q] = state[q]
              PROVE  CommittedOK(v)' /\ TableOK(v)'
            BY <1>1, <2>2, <2>3, <3>1 DEF Goto, TypeOK
        <3>2. CASE Ingest(r) \/ IngestTool(r)
            <4>1. pc[r] = "read"
                BY <1>1, <3>2, IngestCases
            <4>2. CASE Skip(r)
                BY <3>1, <4>1, <4>2 DEF Skip, files
            <4>3. CASE ~ Skip(r)
                <5>1. PICK u \in Uploaded :
                          /\ Put(r, u) /\ u \in Versions /\ u # 0 /\ state[r].table \in Names
                          /\ r \notin Agents => u = state[r].records
                          /\ r \in Agents => /\ u = staging[<<state[r].path, state[r].stamp>>]
                                             /\ Name(u) = state[r].path
                    BY <1>1, <3>2, <4>3, IngestCases
                <5>. QED  BY <1>3, <4>1, <5>1, PutVersion
            <4>. QED  BY <4>2, <4>3
        <3>3. CASE Scan(r)
            <4>1. pc[r] # "moving" /\ UNCHANGED <<staging, table>> /\ (Goto(r, "scanned") \/ Goto(r, "idle"))
                BY <3>3 DEF Scan, files
            <4>2. \A q \in Runs : q # r => state'[q] = state[q]
                BY <1>1, <3>3 DEF Scan, TypeOK
            <4>. QED  BY <3>1, <4>1, <4>2
        <3>4. CASE Quality(r)
            BY <1>1, <1>3, <2>1, <2>2, <3>4, QualityVersion DEF Quality
        <3>5. CASE CheckTool(r)
            BY <1>1, <1>3, <2>1, <2>2, <3>5, CheckToolVersion DEF CheckTool
        <3>6. CASE Move(r)
            BY <1>1, <1>3, <2>1, <2>2, <3>6, MoveVersion DEF Move
        <3>7. CASE Profile(r)
            BY <3>1, <3>7 DEF Profile, files
        <3>8. CASE Finish(r)
            <4>1. pc[r] # "moving" /\ UNCHANGED <<staging, table>> /\ Goto(r, "idle")
                BY <3>8 DEF Finish, files
            <4>2. \A q \in Runs : q # r => state'[q] = state[q]
                BY <1>1, <3>8 DEF Finish, TypeOK
            <4>. QED  BY <3>1, <4>1, <4>2
        <3>. QED  BY <2>7, <3>2, <3>3, <3>4, <3>5, <3>6, <3>7, <3>8 DEF Step
    <2>. QED  BY <2>4, <2>5, <2>6, <2>7 DEF Next
<1>. QED  BY <1>2, <1>3

-----------------------------------------------------------------------------
(* What is moved to processed/                                             *)

LEMMA TakenStep ==
    ASSUME IInv, Grows, [Next]_vars, NEW v \in taken'
    PROVE  v \in Uploaded' /\ TakenOK(v)'
<1>1. Base /\ TypeOK /\ FilesOK
    BY DEF IInv, Base, RunOK
<1>2. CASE v \in taken
    <2>1. v \in Uploaded /\ TakenOK(v)
        BY <1>2 DEF IInv
    <2>2. \A u \in attempted : u \in Uploaded /\ u \in Uploaded' /\ u \in attempted' /\ Name(u)' = Name(u)
        BY <1>1 DEF FilesOK, Grows, Name
    <2>3. v \in Uploaded' /\ Name(v)' = Name(v) /\ carried \subseteq carried'
        BY <2>1 DEF Grows, Name
    <2>. QED  BY <2>1, <2>2, <2>3 DEF TakenOK
<1>3. CASE v \notin taken
    <2>1. PICK r \in Runs : Move(r)
        <3>1. ASSUME NEW r \in Runs, Ingest(r) \/ IngestTool(r) PROVE taken' = taken
            <4>1. ASSUME NEW w, Put(r, w) PROVE taken' = taken
                BY <4>1 DEF Put
            <4>2. CASE Skip(r)
                BY <4>2 DEF Skip, history
            <4>. QED  BY <1>1, <3>1, <4>1, <4>2, IngestCases
        <3>2. taken' # taken
            BY <1>3
        <3>. QED  BY <3>1, <3>2
                  DEF Next, Step, vars, history, Upload, Crash, Scan, Quality, CheckTool, Profile, Finish
    <2>2. PICK n \in Names \cup {NoName}, u \in Versions \cup {0} : n = state[r].path /\ u = state[r].records
        BY <1>1 DEF TypeOK
    <2>3. v = At(n) /\ v # 0 /\ pc[r] = "moving" /\ UNCHANGED <<uploads, attempted, carried>>
        BY <1>3, <2>1, <2>2 DEF Move
    <2>4. n \in Names /\ input[n] = v /\ v \in Uploaded /\ Name(v) = n
        BY <1>1, <2>3, AtType
    <2>5. u \in attempted /\ Source(r) /\ u \in Uploaded /\ u \in Versions /\ v \in Versions
        BY <1>1, <2>2, <2>3, <2>4, UploadType DEF IInv, RunOK, RowsOK, FilesOK
    <2>6. TakenOK(v)
        <3>1. CASE Name(u) = n
            <4>1. u <= v
                BY <1>1, <2>3, <2>4, <2>5, <3>1 DEF FilesOK
            <4>2. u = v \/ u < v
                BY <2>5, <4>1 DEF Versions
            <4>. QED  BY <2>4, <2>5, <3>1, <4>2 DEF TakenOK
        <3>2. CASE Name(u) # n
            BY <2>2, <2>4, <2>5, <3>2, NoNameAssumption DEF Source, TakenOK
        <3>. QED  BY <3>1, <3>2
    <2>. QED  BY <2>3, <2>4, <2>6 DEF TakenOK, Name, Uploaded
<1>. QED  BY <1>2, <1>3

-----------------------------------------------------------------------------
(* The theorems                                                            *)

LEMMA InitIInv == ASSUME Init PROVE IInv
<1>1. Base
    BY BaseInit
<1>2. \A r \in Runs : RowsOK(r) /\ ChosenOK(r)
    BY DEF Init, RowsOK, ChosenOK
<1>3. Uploaded = {} /\ taken = {}
    BY DEF Init, Uploaded
<1>. QED  BY <1>1, <1>2, <1>3 DEF IInv, Base, RunOK

LEMMA NextIInv == ASSUME IInv, [Next]_vars PROVE IInv'
<1>1. Base
    BY DEF IInv, Base, RunOK
<1>2. Base' /\ Grows
    BY <1>1, BaseStep, GrowsStep
<1>3. \A r \in Runs : RunOK(r)'
    BY <1>2, RunsStep
<1>4. \A v \in Uploaded' : CommittedOK(v)' /\ TableOK(v)'
    BY <1>2, VersionsStep
<1>5. \A v \in taken' : v \in Uploaded' /\ TakenOK(v)'
    BY <1>2, TakenStep
<1>. QED  BY <1>2, <1>3, <1>4, <1>5 DEF IInv, Base

\* The inductive invariant holds throughout.
THEOREM Invariance == Spec => []IInv
<1>1. Init => IInv
    BY InitIInv
<1>2. IInv /\ [Next]_vars => IInv'
    BY NextIInv
<1>. QED  BY <1>1, <1>2, PTL DEF Spec

\* Every variable has its type.
THEOREM TypeCorrect == Spec => []TypeOK
<1>1. IInv => TypeOK
    BY DEF IInv
<1>. QED  BY <1>1, Invariance, PTL

\* Whatever the runs and agents do at a time, and whatever fails: the rows of a
\* file (src/app/tools/db_ingestor.py) get into a table twice, or into another
\* file's, only for one of the causes on record.
THEOREM RowsGoInOnce == Spec => []BatchesHaveCause
<1>1. IInv => BatchesHaveCause
    <2>. SUFFICES ASSUME IInv, NEW v \in Uploaded
                  PROVE  /\ Once(v) \/ v \in excused
                         /\ \A n \in Names \ {Name(v)} : table[n][v] > 0 => n \in carried
        BY DEF BatchesHaveCause, Uploaded, Name
    <2>1. CommittedOK(v) /\ TableOK(v) /\ v \in Versions /\ TypeOK
        BY UploadType DEF IInv
    <2>2. Once(v) \/ v \in excused
        <3>1. CASE Committed(v)
            BY <2>1, <3>1 DEF CommittedOK
        <3>2. CASE ~ Committed(v)
            <4>1. \A n \in Names : table[n][v] = 0
                <5>1. \A n \in Names : table[n][v] \in Nat
                    BY <2>1 DEF TypeOK
                <5>. QED  BY <3>2, <5>1 DEF Committed
            <4>. QED  BY <4>1 DEF Once
        <3>. QED  BY <3>1, <3>2
    <2>. QED  BY <2>1, <2>2 DEF TableOK
<1>. QED  BY <1>1, Invariance, PTL

\* _move_to_processed sets no file aside whose rows were not put to the database,
\* except in place of a former version, or in a graph that looped.
THEOREM TakenFilesWereRead == Spec => []TakenWasAttempted
<1>1. IInv => TakenWasAttempted
    BY DEF IInv, TakenOK, TakenWasAttempted, Name
<1>. QED  BY <1>1, Invariance, PTL

\* A run that went through all its steps leaves a file with rows in input/ only
\* if the move failed, or for another cause on record.
THEOREM NothingIngestedStays == Spec => []LeftBehindNeedsCause
<1>1. IInv => LeftBehindNeedsCause
    BY DEF IInv, RunOK, ChosenOK, LeftBehindNeedsCause
<1>. QED  BY <1>1, Invariance, PTL
===============================================================================
