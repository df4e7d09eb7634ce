-------------------------- MODULE MigrationProofs --------------------------
(* Machine-checked proofs about Migration, for every number of processes   *)
(* and of attempts.                                                        *)
EXTENDS Migration, TLAPS, SequenceTheorems, WellFoundedInduction

(* Where the elements of a concatenation are. *)
LEMMA Concatenated ==
    ASSUME NEW S, NEW s \in Seq(S), NEW t \in Seq(S)
    PROVE  /\ s \o t \in Seq(S) /\ Len(s \o t) = Len(s) + Len(t)
           /\ \A i \in 1..Len(s) : (s \o t)[i] = s[i]
           /\ \A i \in 1..Len(t) : (s \o t)[Len(s) + i] = t[i]
<1>1. /\ s \o t \in Seq(S) /\ Len(s \o t) = Len(s) + Len(t)
      /\ \A i \in 1..(Len(s) + Len(t)) :
            (s \o t)[i] = IF i <= Len(s) THEN s[i] ELSE t[i - Len(s)]
    BY ConcatProperties, Zenon
<1> DEFINE m == Len(s)
           n == Len(t)
<1>2. m \in Nat /\ n \in Nat
    OBVIOUS
<1>3. \A i \in 1..(m + n) : (s \o t)[i] = IF i <= m THEN s[i] ELSE t[i - m]
    BY <1>1
<1> HIDE DEF m, n
<1>4. \A i \in 1..n : m + i \in 1..(m + n) /\ ~(m + i <= m) /\ (m + i) - m = i
    BY <1>2
<1>5. \A i \in 1..n : (s \o t)[m + i] = t[i]
    BY <1>3, <1>4, Zenon
<1>6. \A i \in 1..m : i \in 1..(m + n) /\ i <= m
    BY <1>2
<1>7. \A i \in 1..m : (s \o t)[i] = s[i]
    BY <1>3, <1>6, Zenon
<1> QED BY <1>1, <1>5, <1>7 DEF m, n

(* What statement n is, spelled out. *)
LEMMA ScriptSteps ==
    /\ Len(Script) = 16
    /\ Script[1] = Statement("table", "jobs") /\ Script[2] = Statement("table", "events")
    /\ Script[3] = Statement("table", "retention_runs")
    /\ Script[4] = Statement("ensure", "priority") /\ Script[5] = Statement("add", "priority")
    /\ Script[6] = Statement("ensure", "run_at") /\ Script[7] = Statement("add", "run_at")
    /\ Script[8] = Statement("ensure", "lease_token") /\ Script[9] = Statement("add", "lease_token")
    /\ Script[10] = Statement("index", "idx_jobs_state")
    /\ Script[11] = Statement("index", "idx_jobs_kind_state")
    /\ Script[12] = Statement("index", "idx_jobs_kind_ready")
    /\ Script[13] = Statement("index", "idx_jobs_kind_priority")
    /\ Script[14] = Statement("index", "idx_events_job_id")
    /\ Script[15] = Statement("index", "idx_events_type")
    /\ Script[16] = Statement("index", "idx_retention_runs_source")
<1> DEFINE S == {CreateTables[1], CreateTables[2], CreateTables[3],
                 EnsureColumns[1], EnsureColumns[2], EnsureColumns[3],
                 EnsureColumns[4], EnsureColumns[5], EnsureColumns[6],
                 CreateIndexes[1], CreateIndexes[2], CreateIndexes[3],
                 CreateIndexes[4], CreateIndexes[5], CreateIndexes[6],
                 CreateIndexes[7]}
           T == CreateTables \o EnsureColumns
<1>a. CreateTables \in Seq(S) /\ Len(CreateTables) = 3
    BY DEF CreateTables
<1>b. EnsureColumns \in Seq(S) /\ Len(EnsureColumns) = 6
    BY DEF EnsureColumns
<1>c. CreateIndexes \in Seq(S) /\ Len(CreateIndexes) = 7
    BY DEF CreateIndexes
<1> HIDE DEF S
<1>d. CreateTables \in Seq(S) /\ EnsureColumns \in Seq(S) /\ CreateIndexes \in Seq(S)
    BY <1>a, <1>b, <1>c
<1>1. /\ T \in Seq(S) /\ Len(T) = Len(CreateTables) + Len(EnsureColumns)
      /\ \A i \in 1..Len(CreateTables) : T[i] = CreateTables[i]
      /\ \A i \in 1..Len(EnsureColumns) : T[Len(CreateTables) + i] = EnsureColumns[i]
    BY <1>d, Concatenated
<1> HIDE DEF T
<1>2. /\ Len(Script) = Len(T) + Len(CreateIndexes)
      /\ \A i \in 1..Len(T) : Script[i] = T[i]
      /\ \A i \in 1..Len(CreateIndexes) : Script[Len(T) + i] = CreateIndexes[i]
    BY <1>1, <1>d, Concatenated DEF Script, T
<1>3. Len(T) = 9 /\ Len(Script) = 16
    BY <1>1, <1>2, <1>a, <1>b, <1>c
<1>4. /\ \A i \in 1..3 : Script[i] = CreateTables[i]
      /\ \A i \in 1..6 : Script[3 + i] = EnsureColumns[i]
      /\ \A i \in 1..7 : Script[9 + i] = CreateIndexes[i]
    BY <1>1, <1>2, <1>3, <1>a, <1>b, <1>c
<1>5. Script[1] = CreateTables[1] /\ Script[2] = CreateTables[2] /\ Script[3] = CreateTables[3]
    BY <1>4
<1>6. /\ Script[4] = EnsureColumns[1] /\ Script[5] = EnsureColumns[2] /\ Script[6] = EnsureColumns[3]
      /\ Script[7] = EnsureColumns[4] /\ Script[8] = EnsureColumns[5] /\ Script[9] = EnsureColumns[6]
    BY <1>4
<1>7. /\ Script[10] = CreateIndexes[1] /\ Script[11] = CreateIndexes[2]
      /\ Script[12] = CreateIndexes[3] /\ Script[13] = CreateIndexes[4]
      /\ Script[14] = CreateIndexes[5] /\ Script[15] = CreateIndexes[6]
      /\ Script[16] = CreateIndexes[7]
    BY <1>4
<1> QED BY <1>3, <1>5, <1>6, <1>7 DEF CreateTables, EnsureColumns, CreateIndexes

(* What the proofs need of the script: each kind of statement names things *)
(* of its kind, a column is added right after it was looked for, the       *)
(* indexes come last, and nothing is left out.                             *)
LEMMA ScriptShape ==
    /\ \A n \in 1..16 :
        /\ Script[n].op \in {"table", "ensure", "add", "index"}
        /\ Script[n].op = "table" => Script[n].name \in Tables
        /\ Script[n].op \in {"ensure", "add"} => Script[n].name \in Columns
        /\ Script[n].op = "index" => Script[n].name \in Indexes /\ n > 9
        /\ Script[n].op = "ensure" =>
              n < 14 /\ Script[n + 1].op = "add" /\ Script[n + 1].name = Script[n].name
        /\ Script[n].op = "add" => n > 1 /\ Script[n - 1].op = "ensure"
    /\ Script[1].op = "table"
    /\ \A t \in Tables : \E n \in 1..16 : Script[n].op = "table" /\ Script[n].name = t
    /\ \A c \in Columns : \E n \in 1..9 : Script[n].op = "add" /\ Script[n].name = c
    /\ \A i \in Indexes : \E n \in 1..16 : Script[n].op = "index" /\ Script[n].name = i
    /\ \A i \in Indexes : IndexColumns[i] \subseteq Columns
<1>a. Indexes = {"idx_jobs_state", "idx_jobs_kind_state", "idx_jobs_kind_ready",
                 "idx_jobs_kind_priority", "idx_events_job_id", "idx_events_type",
                 "idx_retention_runs_source"}
    BY DEF Indexes, IndexColumns
<1>b. \A i \in Indexes : IndexColumns[i] \subseteq Columns
    BY <1>a DEF IndexColumns, Columns
<1>c. \A o, n : Statement(o, n).op = o /\ Statement(o, n).name = n
    BY DEF Statement
<1>1. ASSUME NEW n \in 1..16
      PROVE  /\ Script[n].op \in {"table", "ensure", "add", "index"}
             /\ Script[n].op = "table" => Script[n].name \in Tables
             /\ Script[n].op \in {"ensure", "add"} => Script[n].name \in Columns
             /\ Script[n].op = "index" => Script[n].name \in Indexes /\ n > 9
             /\ Script[n].op = "ensure" =>
                   n < 14 /\ Script[n + 1].op = "add" /\ Script[n + 1].name = Script[n].name
             /\ Script[n].op = "add" => n > 1 /\ Script[n - 1].op = "ensure"
    <2>1. CASE n \in 1..3
        <3>1. n = 1 \/ n = 2 \/ n = 3
            BY <2>1
        <3> QED BY <3>1, <1>c, ScriptSteps DEF Tables
    <2>2. CASE n \in 4..9
        <3>1. n = 4 \/ n = 5 \/ n = 6 \/ n = 7 \/ n = 8 \/ n = 9
            BY <2>2
        <3> QED BY <3>1, <1>c, ScriptSteps DEF Columns
    <2>3. CASE n \in 10..16
        <3>1. n = 10 \/ n = 11 \/ n = 12 \/ n = 13 \/ n = 14 \/ n = 15 \/ n = 16
            BY <2>3
        <3> QED BY <3>1, <1>a, <1>c, ScriptSteps
    <2> QED BY <2>1, <2>2, <2>3
<1>2. Script[1].op = "table"
    BY <1>c, ScriptSteps
<1>3. \A t \in Tables : \E n \in 1..16 : Script[n].op = "table" /\ Script[n].name = t
    BY <1>c, ScriptSteps DEF Tables
<1>4. \A c \in Columns : \E n \in 1..9 : Script[n].op = "add" /\ Script[n].name = c
    BY <1>c, ScriptSteps DEF Columns
<1>5. \A i \in Indexes : \E n \in 1..16 : Script[n].op = "index" /\ Script[n].name = i
    BY <1>a, <1>c, ScriptSteps
<1> QED BY <1>b, <1>1, <1>2, <1>3, <1>4, <1>5

-----------------------------------------------------------------------------
(* The inductive invariant *)

Types ==
    /\ file \in Files
    /\ pc \in [Processes -> 0..17]
    /\ failed \in [Processes -> {"no", "store"} \cup Columns \cup Indexes]
    /\ raced \in [Processes -> SUBSET Columns]

(* What a statement is there for is in the file. *)
Established(s, f) ==
    /\ s.op = "table" => s.name \in f.tables
    /\ s.op = "add" => s.name \in f.columns
    /\ s.op = "index" => s.name \in f.indexes

(* What a process has passed is established, by itself or by others. *)
Passed == \A p \in Processes : \A n \in 1..16 : n < pc[p] => Established(Script[n], file)

(* A process that is about to add a column that is there has been raced,   *)
(* or its look was broken off.                                             *)
RacedOnly ==
    \A p \in Processes : \A n \in 1..16 :
        pc[p] = n /\ Script[n].op = "add" /\ Script[n].name \in file.columns
            => Script[n].name \in raced[p]

OpenInv == Types /\ Passed /\ RacedOnly /\ FailsByRaceOnly

(* A statement that SQLite accepts takes nothing away, and does its work. *)
LEMMA EffectGrows ==
    ASSUME NEW f \in Files, NEW n \in 1..16
    PROVE  /\ Effect(f, Script[n]) \in Files
           /\ f.tables \subseteq Effect(f, Script[n]).tables
           /\ f.columns \subseteq Effect(f, Script[n]).columns
           /\ f.indexes \subseteq Effect(f, Script[n]).indexes
           /\ Established(Script[n], Effect(f, Script[n]))
<1> DEFINE s == Script[n]
           g == Effect(f, s)
<1>1. /\ s.op \in {"table", "ensure", "add", "index"}
      /\ s.op = "table" => s.name \in Tables
      /\ s.op \in {"ensure", "add"} => s.name \in Columns
      /\ s.op = "index" => s.name \in Indexes
    BY ScriptShape
<1> HIDE DEF s
<1>2. /\ f.tables \subseteq Tables /\ f.columns \subseteq Columns /\ f.indexes \subseteq Indexes
      /\ f = [tables |-> f.tables, columns |-> f.columns, indexes |-> f.indexes]
    BY DEF Files
<1>3. \E t \in SUBSET Tables, c \in SUBSET Columns, i \in SUBSET Indexes :
        /\ g = [tables |-> t, columns |-> c, indexes |-> i]
        /\ f.tables \subseteq t /\ f.columns \subseteq c /\ f.indexes \subseteq i
        /\ s.op = "table" => s.name \in t
        /\ s.op = "add" => s.name \in c
        /\ s.op = "index" => s.name \in i
    <2>1. CASE s.op = "table" /\ s.name \notin f.tables
        <3>1. g = [f EXCEPT !.tables = @ \cup {s.name},
                            !.columns = IF s.name = "jobs" THEN Columns ELSE @]
            BY <2>1 DEF Effect, NewJobsColumns
        <3> DEFINE c == IF s.name = "jobs" THEN Columns ELSE f.columns
        <3>2. g = [tables |-> f.tables \cup {s.name}, columns |-> c, indexes |-> f.indexes]
            BY <1>2, <3>1
        <3>3. f.tables \cup {s.name} \in SUBSET Tables /\ f.columns \subseteq c /\ c \in SUBSET Columns
            BY <1>1, <1>2, <2>1
        <3> QED BY <1>2, <2>1, <3>2, <3>3
    <2>2. CASE s.op = "add"
        <3>1. g = [f EXCEPT !.columns = @ \cup {s.name}]
            BY <2>2 DEF Effect
        <3>2. g = [tables |-> f.tables, columns |-> f.columns \cup {s.name}, indexes |-> f.indexes]
            BY <1>2, <3>1
        <3>3. f.columns \cup {s.name} \in SUBSET Columns
            BY <1>1, <1>2, <2>2
        <3> QED BY <1>2, <2>2, <3>2, <3>3
    <2>3. CASE s.op = "index"
        <3>1. g = [f EXCEPT !.indexes = @ \cup {s.name}]
            BY <2>3 DEF Effect
        <3>2. g = [tables |-> f.tables, columns |-> f.columns, indexes |-> f.indexes \cup {s.name}]
            BY <1>2, <3>1
        <3>3. f.indexes \cup {s.name} \in SUBSET Indexes
            BY <1>1, <1>2, <2>3
        <3> QED BY <1>2, <2>3, <3>2, <3>3
    <2>4. CASE s.op = "ensure" \/ (s.op = "table" /\ s.name \in f.tables)
        <3>1. g = f
            BY <2>4 DEF Effect
        <3> QED BY <1>2, <2>4, <3>1
    <2> QED BY <1>1, <2>1, <2>2, <2>3, <2>4
<1> HIDE DEF g
<1>4. /\ g \in Files /\ f.tables \subseteq g.tables /\ f.columns \subseteq g.columns
      /\ f.indexes \subseteq g.indexes /\ Established(s, g)
    BY <1>3 DEF Files, Established
<1> QED BY <1>4 DEF s, g

LEMMA OpenInit == Init => OpenInv
BY ScriptSteps DEF Init, OpenInv, Types, Passed, RacedOnly, FailsByRaceOnly, OldFiles

LEMMA OpenStep == OpenInv /\ [Next]_vars => OpenInv'
<1> SUFFICES ASSUME OpenInv, [Next]_vars PROVE OpenInv'
    OBVIOUS
<1>0. Types /\ Passed /\ RacedOnly /\ FailsByRaceOnly
    BY DEF OpenInv
<1>len. Len(Script) = 16
    BY ScriptSteps
<1>1. ASSUME NEW p \in Processes, Open(p) PROVE OpenInv'
    <2>1. Types'
        BY <1>0, <1>1 DEF Open, Types
    <2>2. Passed'
        BY <1>0, <1>1 DEF Open, Types, Passed
    <2>3. RacedOnly'
        BY <1>0, <1>1, ScriptShape DEF Open, Types, RacedOnly
    <2>4. FailsByRaceOnly'
        BY <1>0, <1>1 DEF Open, Types, FailsByRaceOnly
    <2> QED BY <2>1, <2>2, <2>3, <2>4 DEF OpenInv
<1>2. ASSUME NEW p \in Processes, Execute(p) PROVE OpenInv'
    <2> DEFINE n == pc[p]
    <2>1. n \in 1..16 /\ Accepts(file, Script[n]) /\ file' = Effect(file, Script[n])
        BY <1>2, <1>len DEF Execute, Opening
    <2>2. /\ pc' = [pc EXCEPT ![p] = Follows(n, file)]
          /\ raced' = [q \in Processes |-> IF q # p THEN raced[q] \cup (file'.columns \ file.columns)
                                                    ELSE raced[q]]
          /\ UNCHANGED failed
        BY <1>2 DEF Execute
    <2>3. /\ file' \in Files
          /\ file.tables \subseteq file'.tables /\ file.columns \subseteq file'.columns
          /\ file.indexes \subseteq file'.indexes
          /\ Established(Script[n], file')
        BY <1>0, <2>1, EffectGrows DEF Types
    <2>4. \/ Script[n].op = "ensure" /\ Script[n].name \in file.columns /\ Follows(n, file) = n + 2
          \/ Script[n].op = "ensure" /\ Script[n].name \notin file.columns /\ Follows(n, file) = n + 1
          \/ Script[n].op # "ensure" /\ Follows(n, file) = n + 1
        BY DEF Follows
    <2>5. Follows(n, file) \in 1..17
        BY <2>1, <2>4, ScriptShape
    <2>6. file'.columns \subseteq Columns
        BY <2>3 DEF Files
    <2> HIDE DEF n
    <2>7. pc'[p] = Follows(n, file) /\ \A q \in Processes : q # p => pc'[q] = pc[q]
        BY <1>0, <2>2 DEF Types
    <2>8. Types'
        BY <1>0, <2>2, <2>3, <2>5, <2>6 DEF Types
    <2>9. Passed'
        <3>1. \A m \in 1..16 : Established(Script[m], file) => Established(Script[m], file')
            BY <2>3 DEF Established
        <3>2. \A m \in 1..16 : m < n => Established(Script[m], file')
            BY <1>0, <3>1 DEF Passed, n
        <3>3. ASSUME NEW m \in 1..16, m < Follows(n, file) PROVE Established(Script[m], file')
            <4>1. CASE m < n \/ m = n
                BY <2>3, <3>2, <4>1
            <4>2. CASE m > n
                <5>1. m = n + 1 /\ Script[n].op = "ensure" /\ Script[n].name \in file.columns
                    BY <2>1, <2>4, <3>3, <4>2
                <5>2. Script[m].op = "add" /\ Script[m].name \in file'.columns
                    BY <2>1, <2>3, <5>1, ScriptShape
                <5> QED BY <5>2 DEF Established
            <4> QED BY <2>1, <4>1, <4>2
        <3> QED BY <1>0, <2>7, <3>1, <3>3 DEF Passed
    <2>10. RacedOnly'
        <3>1. ASSUME NEW m \in 1..16, m = Follows(n, file), Script[m].op = "add",
                     Script[m].name \in file'.columns
              PROVE  Script[m].name \in raced'[p]
            <4>1. m > 1 /\ Script[m - 1].op = "ensure"
                BY <3>1, ScriptShape
            <4>2. m = n + 1 /\ Script[n].op = "ensure" /\ Script[n].name \notin file.columns
                <5>1. m # n + 2 \/ Script[n].op # "ensure"
                    BY <2>1, <4>1, ScriptShape
                <5>2. m = n + 1
                    BY <2>4, <3>1, <5>1
                <5>3. Script[n].op = "ensure"
                    BY <2>1, <4>1, <5>2
                <5>4. Follows(n, file) # n + 2
                    BY <2>1, <3>1, <5>2
                <5> QED BY <2>4, <5>2, <5>3, <5>4
            <4>3. file' = file
                BY <2>1, <4>2 DEF Effect
            <4> QED BY <2>1, <3>1, <4>2, <4>3, ScriptShape
        <3>2. ASSUME NEW q \in Processes, q # p, NEW m \in 1..16, pc'[q] = m,
                     Script[m].op = "add", Script[m].name \in file'.columns
              PROVE  Script[m].name \in raced'[q]
            BY <1>0, <2>2, <2>7, <3>2 DEF RacedOnly
        <3> QED BY <2>7, <3>1, <3>2 DEF RacedOnly
    <2>11. FailsByRaceOnly'
        BY <1>0, <2>2 DEF FailsByRaceOnly
    <2> QED BY <2>8, <2>9, <2>10, <2>11 DEF OpenInv
<1>3. ASSUME NEW p \in Processes, Rejected(p) PROVE OpenInv'
    <2> DEFINE n == pc[p]
    <2>1. n \in 1..16 /\ ~Accepts(file, Script[n])
        BY <1>3, <1>len DEF Rejected, Opening
    <2>2. /\ failed' = [failed EXCEPT ![p] = Script[n].name] /\ pc' = [pc EXCEPT ![p] = 0]
          /\ UNCHANGED <<file, raced>>
        BY <1>3 DEF Rejected
    <2> HIDE DEF n
    <2>3. CASE Script[n].op = "add" /\ Script[n].name \in file.columns
        <3>1. Script[n].name \in raced[p]
            BY <1>0, <2>1, <2>3 DEF RacedOnly, n
        <3>2. Script[n].name \in Columns
            BY <2>1, <2>3, ScriptShape
        <3>3. Types' /\ Passed' /\ RacedOnly'
            BY <1>0, <2>2, <3>2 DEF Types, Passed, RacedOnly
        <3>4. FailsByRaceOnly'
            BY <1>0, <2>2, <3>1 DEF Types, FailsByRaceOnly
        <3> QED BY <3>3, <3>4 DEF OpenInv
    <2>4. CASE Script[n].op = "index" /\ ~(IndexColumns[Script[n].name] \subseteq file.columns)
        <3>1. n > 9 /\ IndexColumns[Script[n].name] \subseteq Columns
            BY <2>1, <2>4, ScriptShape
        <3>2. ASSUME NEW c \in Columns PROVE c \in file.columns
            <4>1. PICK m \in 1..9 : Script[m].op = "add" /\ Script[m].name = c
                BY ScriptShape
            <4>2. m \in 1..16 /\ m < n
                BY <2>1, <3>1
            <4> QED BY <1>0, <4>1, <4>2 DEF Passed, Established, n
        <3> QED BY <2>4, <3>1, <3>2
    <2> QED BY <2>1, <2>3, <2>4 DEF Accepts
<1>4. ASSUME NEW p \in Processes, StoreFails(p) \/ Close(p) PROVE OpenInv'
    <2>1. /\ pc' = [pc EXCEPT ![p] = 0] /\ UNCHANGED <<file, raced>>
          /\ failed' = failed \/ failed' = [failed EXCEPT ![p] = "store"]
        BY <1>4 DEF StoreFails, Close
    <2>2. Types' /\ Passed' /\ RacedOnly'
        BY <1>0, <2>1 DEF Types, Passed, RacedOnly
    <2>3. FailsByRaceOnly'
        BY <1>0, <2>1 DEF Types, FailsByRaceOnly
    <2> QED BY <2>2, <2>3 DEF OpenInv
<1>5. ASSUME NEW p \in Processes, Overlook(p) PROVE OpenInv'
    <2> DEFINE n == pc[p]
    <2>1. /\ n \in 1..16 /\ Script[n].op = "ensure" /\ Script[n].name \in file.columns
          /\ pc' = [pc EXCEPT ![p] = n + 1]
          /\ raced' = [raced EXCEPT ![p] = @ \cup {Script[n].name}]
          /\ UNCHANGED <<file, failed>>
        BY <1>5, <1>len DEF Overlook, Opening
    <2>2. n < 14 /\ Script[n + 1].name = Script[n].name /\ Script[n].name \in Columns
        BY <2>1, ScriptShape
    <2> HIDE DEF n
    <2>3. pc'[p] = n + 1 /\ \A q \in Processes : q # p => pc'[q] = pc[q] /\ raced'[q] = raced[q]
        BY <1>0, <2>1 DEF Types
    <2>4. raced'[p] = raced[p] \cup {Script[n].name}
        BY <1>0, <2>1 DEF Types
    <2>5. Types'
        BY <1>0, <2>1, <2>2 DEF Types
    <2>6. Passed'
        <3>1. Established(Script[n], file)
            BY <2>1 DEF Established
        <3>2. \A m \in 1..16 : m < n + 1 => m < n \/ m = n
            BY <2>1
        <3> QED BY <1>0, <2>1, <2>3, <3>1, <3>2 DEF Passed, n
    <2>7. RacedOnly'
        BY <1>0, <2>1, <2>2, <2>3, <2>4 DEF RacedOnly
    <2>8. FailsByRaceOnly'
        BY <1>0, <2>1, <2>3, <2>4 DEF FailsByRaceOnly
    <2> QED BY <2>5, <2>6, <2>7, <2>8 DEF OpenInv
<1>6. CASE UNCHANGED vars
    BY <1>0, <1>6 DEF vars, OpenInv, Types, Passed, RacedOnly, FailsByRaceOnly
<1> QED BY <1>1, <1>2, <1>3, <1>4, <1>5, <1>6 DEF Next

(* The inductive invariant holds for ever. *)
THEOREM OpenInvariant == Spec => []OpenInv
BY OpenInit, OpenStep, PTL DEF Spec

-----------------------------------------------------------------------------

(* A file in which everything is established is complete. *)
LEMMA AllEstablished ==
    ASSUME NEW f \in Files, \A n \in 1..16 : Established(Script[n], f)
    PROVE  Complete(f)
<1>1. /\ f.tables \subseteq Tables /\ f.columns \subseteq Columns /\ f.indexes \subseteq Indexes
      /\ f = [tables |-> f.tables, columns |-> f.columns, indexes |-> f.indexes]
    BY DEF Files
<1>2. Tables \subseteq f.tables
    BY ScriptShape DEF Established
<1>3. Columns \subseteq f.columns
    <2>1. ASSUME NEW c \in Columns PROVE c \in f.columns
        <3>1. PICK m \in 1..9 : Script[m].op = "add" /\ Script[m].name = c
            BY ScriptShape
        <3> QED BY <3>1 DEF Established
    <2> QED BY <2>1
<1>4. Indexes \subseteq f.indexes
    BY ScriptShape DEF Established
<1>5. f.tables = Tables /\ f.columns = Columns /\ f.indexes = Indexes
    BY <1>1, <1>2, <1>3, <1>4
<1> QED BY <1>1, <1>5 DEF Complete

(* An open store has every table, column and index, whatever file it was   *)
(* given and however many processes opened it at once, failed or died.     *)
THEOREM OpenedIsCompleteHolds == Spec => []OpenedIsComplete
<1>1. ASSUME OpenInv, NEW p \in Processes, Opened(p) PROVE Complete(file)
    <2>1. file \in Files /\ \A n \in 1..16 : Established(Script[n], file)
        BY <1>1, ScriptSteps DEF OpenInv, Types, Passed, Opened
    <2> QED BY <2>1, AllEstablished
<1>2. OpenInv => OpenedIsComplete
    BY <1>1 DEF OpenedIsComplete
<1> QED BY OpenInvariant, <1>2, PTL

(* The one thing that SQLite refuses is a column that another process has  *)
(* added between the look for it and the ALTER TABLE, or that the look has *)
(* missed.                                                                 *)
THEOREM FailsByRaceOnlyHolds == Spec => []FailsByRaceOnly
<1>1. OpenInv => FailsByRaceOnly
    BY DEF OpenInv
<1> QED BY OpenInvariant, <1>1, PTL

(* The types are those of the invariant, with the bounded count. *)
THEOREM TypeCorrect == Spec => []TypeOK
<1> DEFINE Opens == opens \in [Processes -> 0..MaxOpens]
<1>1. Init => Opens
    BY MigrationAssumption DEF Init
<1>2. Opens /\ [Next]_vars => Opens'
    BY MigrationAssumption DEF Next, vars, Open, Execute, Overlook, Rejected, StoreFails, Close
<1>3. OpenInv /\ Opens => TypeOK
    BY ScriptSteps DEF OpenInv, Types, TypeOK
<1> QED BY <1>1, <1>2, <1>3, OpenInvariant, PTL DEF Spec

-----------------------------------------------------------------------------
(* What an undisturbed process makes of a file *)

(* A set with zero and with the successor of each number it has. *)
LEMMA AllNaturals ==
    ASSUME NEW S, 0 \in S, \A n \in Nat : n \in S => n + 1 \in S
    PROVE  Nat \subseteq S
<1> SUFFICES ASSUME ~(Nat \subseteq S) PROVE FALSE
    OBVIOUS
<1> DEFINE T == Nat \ S
<1>1. T # {} /\ T \subseteq Nat
    OBVIOUS
<1>2. IsWellFoundedOn(OpToRel(<, Nat), Nat)
    BY NatLessThanWellFounded
<1> HIDE DEF T
<1>3. PICK m \in T : \A k \in T : ~(<<k, m>> \in OpToRel(<, Nat))
    BY <1>1, <1>2, WFMin, Zenon
<1>4. \A k \in T : k < m => <<k, m>> \in OpToRel(<, Nat)
    BY <1>1 DEF OpToRel
<1>5. \A k \in T : ~(k < m)
    BY <1>3, <1>4, Zenon
<1>6. m # 0 /\ m - 1 \in Nat /\ m - 1 < m
    BY <1>1 DEF T
<1> QED BY <1>5, <1>6 DEF T

(* The body of the recursion in Undisturbed. *)
Continued(F, n, g) ==
    IF n = Len(Script) + 1 THEN [opened |-> TRUE, file |-> g]
    ELSE IF ~Accepts(g, Script[n]) THEN [opened |-> FALSE, file |-> g]
    ELSE F[Follows(n, g)][Effect(g, Script[n])]

(* F is that recursion from statement m on. *)
ContinuesFrom(F, m) ==
    F = [n \in m..(Len(Script) + 1) |-> [g \in Files |-> Continued(F, n, g)]]

(* A statement is followed by a later one, or by the end. *)
LEMMA FollowsLater ==
    ASSUME NEW n \in 1..16, NEW g \in Files
    PROVE  /\ Follows(n, g) \in (n + 1)..17
           /\ \/ Script[n].op = "ensure" /\ Script[n].name \in g.columns /\ Follows(n, g) = n + 2
              \/ Script[n].op = "ensure" /\ Script[n].name \notin g.columns /\ Follows(n, g) = n + 1
              \/ Script[n].op # "ensure" /\ Follows(n, g) = n + 1
BY ScriptShape DEF Follows

(* The recursion defines a function: each statement looks at later ones.   *)
LEMMA ContinuationExists == \E F : ContinuesFrom(F, 1)
<1> DEFINE K == {k \in Nat : k <= 16 => \E F : ContinuesFrom(F, 17 - k)}
<1>0. Len(Script) = 16
    BY ScriptSteps
<1>1. 0 \in K
    <2> DEFINE F == [n \in 17..17 |-> [g \in Files |-> [opened |-> TRUE, file |-> g]]]
    <2>1. \A n \in 17..17 : \A g \in Files : Continued(F, n, g) = [opened |-> TRUE, file |-> g]
        BY <1>0 DEF Continued
    <2>2. ContinuesFrom(F, 17)
        BY <1>0, <2>1 DEF ContinuesFrom
    <2> QED BY <2>2
<1>2. ASSUME NEW k \in Nat, k \in K PROVE k + 1 \in K
    <2> SUFFICES ASSUME k + 1 <= 16 PROVE \E G : ContinuesFrom(G, 16 - k)
        OBVIOUS
    <2> DEFINE m == 16 - k
    <2>1. m \in 1..16 /\ 17 - k = m + 1
        OBVIOUS
    <2>2. PICK F : ContinuesFrom(F, m + 1)
        BY <1>2, <2>1
    <2> HIDE DEF m
    <2> DEFINE G == [n \in m..17 |-> IF n = m THEN [g \in Files |-> Continued(F, m, g)] ELSE F[n]]
    <2>3. \A n \in (m + 1)..17 : G[n] = F[n] /\ F[n] = [g \in Files |-> Continued(F, n, g)]
        BY <1>0, <2>1, <2>2 DEF ContinuesFrom
    <2>4. ASSUME NEW n \in m..17, NEW g \in Files PROVE Continued(G, n, g) = Continued(F, n, g)
        <3>1. CASE n = 17
            BY <1>0, <3>1 DEF Continued
        <3>2. CASE n \in 1..16
            <4>1. Follows(n, g) \in (m + 1)..17
                BY <2>1, <3>2, FollowsLater
            <4>2. G[Follows(n, g)] = F[Follows(n, g)]
                BY <2>3, <4>1
            <4> HIDE DEF G
            <4> QED BY <4>2 DEF Continued
        <3> QED BY <2>1, <3>1, <3>2
    <2>5. ASSUME NEW n \in m..17 PROVE G[n] = [g \in Files |-> Continued(G, n, g)]
        <3>1. G[n] = [g \in Files |-> Continued(F, n, g)]
            <4>1. CASE n = m
                BY <4>1
            <4>2. CASE n \in (m + 1)..17
                BY <2>3, <4>2
            <4> QED BY <2>1, <4>1, <4>2
        <3> HIDE DEF G
        <3> QED BY <2>4, <3>1
    <2>6. G = [n \in m..17 |-> G[n]]
        OBVIOUS
    <2>7. ContinuesFrom(G, m)
        <3> HIDE DEF G
        <3> QED BY <1>0, <2>5, <2>6 DEF ContinuesFrom
    <2> QED BY <2>7 DEF m
<1>3. 16 \in K
    <2> HIDE DEF K
    <2> QED BY <1>1, <1>2, AllNaturals
<1> QED BY <1>3

(* A process that stands at statement n alone: what it passed is in the    *)
(* file, and a column that it is about to add is not.                      *)
Ahead(n, g) ==
    /\ g \in Files
    /\ \A m \in 1..16 : m < n => Established(Script[m], g)
    /\ n <= 16 /\ Script[n].op = "add" => Script[n].name \notin g.columns

(* SQLite accepts its statement, and it stands at the next one then. *)
LEMMA StaysAhead ==
    ASSUME NEW n \in 1..16, NEW g, Ahead(n, g)
    PROVE  Accepts(g, Script[n]) /\ Ahead(Follows(n, g), Effect(g, Script[n]))
<1> DEFINE h == Effect(g, Script[n])
           next == Follows(n, g)
<1>1. g \in Files /\ \A m \in 1..16 : m < n => Established(Script[m], g)
    BY DEF Ahead
<1>2. Accepts(g, Script[n])
    <2>1. CASE Script[n].op = "add"
        BY <2>1 DEF Ahead, Accepts
    <2>2. CASE Script[n].op = "index"
        <3>1. n > 9 /\ IndexColumns[Script[n].name] \subseteq Columns
            BY <2>2, ScriptShape
        <3>2. ASSUME NEW c \in Columns PROVE c \in g.columns
            <4>1. PICK m \in 1..9 : Script[m].op = "add" /\ Script[m].name = c
                BY ScriptShape
            <4> QED BY <1>1, <3>1, <4>1 DEF Established
        <3> QED BY <2>2, <3>1, <3>2 DEF Accepts
    <2> QED BY <2>1, <2>2 DEF Accepts
<1>3. /\ h \in Files /\ g.tables \subseteq h.tables /\ g.columns \subseteq h.columns
      /\ g.indexes \subseteq h.indexes /\ Established(Script[n], h)
    BY <1>1, EffectGrows
<1>4. /\ next \in (n + 1)..17
      /\ \/ Script[n].op = "ensure" /\ Script[n].name \in g.columns /\ next = n + 2
         \/ Script[n].op = "ensure" /\ Script[n].name \notin g.columns /\ next = n + 1
         \/ Script[n].op # "ensure" /\ next = n + 1
    BY <1>1, FollowsLater
<1>5. Script[n].op = "ensure" => h = g
    BY DEF Effect
<1> HIDE DEF h, next
<1>6. ASSUME NEW m \in 1..16, m < next PROVE Established(Script[m], h)
    <2>1. CASE m < n
        BY <1>1, <1>3, <2>1 DEF Established
    <2>2. CASE m = n
        BY <1>3, <2>2
    <2>3. CASE m > n
        <3>1. m = n + 1 /\ Script[n].op = "ensure" /\ Script[n].name \in g.columns
            BY <1>4, <1>6, <2>3
        <3>2. Script[m].op = "add" /\ Script[m].name \in h.columns
            BY <1>3, <3>1, ScriptShape
        <3> QED BY <3>2 DEF Established
    <2> QED BY <2>1, <2>2, <2>3
<1>7. ASSUME next <= 16, Script[next].op = "add" PROVE Script[next].name \notin h.columns
    <2>1. next \in 1..16 /\ next > 1 /\ Script[next - 1].op = "ensure"
        BY <1>4, <1>7, ScriptShape
    <2>2. next = n + 1 /\ Script[n].op = "ensure" /\ Script[n].name \notin g.columns
        BY <1>4, <2>1, ScriptShape
    <2> QED BY <1>5, <2>2, ScriptShape
<1> QED BY <1>2, <1>3, <1>6, <1>7 DEF Ahead, h, next

(* From wherever a process stands alone it gets to an open store. *)
LEMMA AheadOpens ==
    ASSUME NEW F, ContinuesFrom(F, 1), NEW f, Ahead(1, f)
    PROVE  F[1][f].opened /\ Complete(F[1][f].file)
<1> DEFINE Opens(n, g) == F[n][g].opened /\ Complete(F[n][g].file)
           K == {k \in Nat : \A n \in 1..17 : \A g : 17 - n <= k /\ Ahead(n, g) => Opens(n, g)}
<1>0. /\ Len(Script) = 16
      /\ \A n \in 1..17 : \A g \in Files : F[n][g] = Continued(F, n, g)
    <2>1. Len(Script) = 16
        BY ScriptSteps
    <2>2. ASSUME NEW n \in 1..17 PROVE F[n] = [g \in Files |-> Continued(F, n, g)]
        BY <2>1 DEF ContinuesFrom
    <2> QED BY <2>1, <2>2
<1>1. ASSUME NEW g, Ahead(17, g) PROVE Opens(17, g)
    <2>1. g \in Files /\ Complete(g)
        BY <1>1, AllEstablished DEF Ahead
    <2>2. F[17][g] = [opened |-> TRUE, file |-> g]
        BY <1>0, <2>1 DEF Continued
    <2> QED BY <2>1, <2>2
<1> HIDE DEF Opens
<1>2. 0 \in K
    BY <1>1
<1>3. ASSUME NEW k \in Nat, k \in K PROVE k + 1 \in K
    <2> SUFFICES ASSUME NEW n \in 1..17, NEW g, 17 - n <= k + 1, Ahead(n, g)
                 PROVE  Opens(n, g)
        OBVIOUS
    <2>1. CASE n = 17
        BY <1>1, <2>1
    <2>2. CASE n \in 1..16
        <3> DEFINE next == Follows(n, g)
                   h == Effect(g, Script[n])
        <3>1. g \in Files /\ Accepts(g, Script[n]) /\ Ahead(next, h)
            BY <2>2, StaysAhead DEF Ahead
        <3>2. next \in (n + 1)..17
            BY <2>2, <3>1, FollowsLater
        <3>3. F[n][g] = F[next][h]
            <4>1. F[n][g] = Continued(F, n, g)
                BY <1>0, <3>1
            <4>2. n # Len(Script) + 1
                BY <1>0, <2>2
            <4> QED BY <3>1, <4>1, <4>2 DEF Continued
        <3> HIDE DEF next, h
        <3>4. next \in 1..17 /\ 17 - next <= k
            BY <2>2, <3>2
        <3>5. Opens(next, h)
            BY <1>3, <3>1, <3>4
        <3> QED BY <3>3, <3>5 DEF Opens
    <2> QED BY <2>1, <2>2
<1>4. 16 \in K
    <2> HIDE DEF K
    <2> QED BY <1>2, <1>3, AllNaturals
<1> QED BY <1>4 DEF Opens

(* At any moment, whatever crashes and races have left in the file, a      *)
(* process that is then left alone opens it and completes it.              *)
THEOREM AlwaysOpenableHolds == Spec => []AlwaysOpenable
<1>1. ASSUME NEW f \in Files
      PROVE  Undisturbed(f).opened /\ Complete(Undisturbed(f).file)
    <2> DEFINE F == CHOOSE G : G = [n \in 1..(Len(Script) + 1) |-> [g \in Files |->
                        IF n = Len(Script) + 1 THEN [opened |-> TRUE, file |-> g]
                        ELSE IF ~Accepts(g, Script[n]) THEN [opened |-> FALSE, file |-> g]
                        ELSE G[Follows(n, g)][Effect(g, Script[n])]]]
    <2>1. Undisturbed(f) = F[1][f]
        BY DEF Undisturbed
    <2>2. ContinuesFrom(F, 1)
        BY ContinuationExists DEF ContinuesFrom, Continued
    <2> HIDE DEF F
    <2>3. Ahead(1, f)
        BY ScriptShape DEF Ahead
    <2> QED BY <2>1, <2>2, <2>3, AheadOpens
<1>2. OpenInv => AlwaysOpenable
    BY <1>1 DEF OpenInv, Types, AlwaysOpenable
<1> QED BY OpenInvariant, <1>2, PTL
=============================================================================
