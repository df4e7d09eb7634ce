----------------------------- MODULE Migration -----------------------------
(***************************************************************************)
(* How a store is opened: every command runs the statements of migrate on  *)
(* the file, without a transaction around them.  Processes that open one   *)
(* file at once interleave statement by statement, and one that dies       *)
(* leaves the file as far as it came.                                      *)
(*                                                                         *)
(* The file is its schema: the tables, the columns that the jobs table may *)
(* lack in a file of an earlier release, and the indexes.  Pragmas are     *)
(* left out: they change the connection and the journal, not the schema.   *)
(***************************************************************************)
EXTENDS Naturals, Sequences, FiniteSets

CONSTANTS
    Processes,
    MaxOpens    \* bound: how often a process opens the file

ASSUME MigrationAssumption == MaxOpens \in Nat

Columns == {"priority", "run_at", "lease_token"}

Tables == {"jobs", "events", "retention_runs"}

(* The indexes, each with the columns among Columns that it is on. *)
IndexColumns ==
    [idx_jobs_state            |-> {},
     idx_jobs_kind_state       |-> {},
     idx_jobs_kind_ready       |-> {"run_at"},
     idx_jobs_kind_priority    |-> {"priority", "run_at"},
     idx_events_job_id         |-> {},
     idx_events_type           |-> {},
     idx_retention_runs_source |-> {}]

Indexes == DOMAIN IndexColumns

Files == [tables : SUBSET Tables, columns : SUBSET Columns, indexes : SUBSET Indexes]

(* A file that does not exist, or one that an earlier release may have     *)
(* left, with any indexes on the tables and columns that it knew.          *)
OldFiles ==
    {f \in Files :
        \/ f.tables = {} /\ f.columns = {} /\ f.indexes = {}
        \/ /\ f.tables \in {{"jobs", "events"}, Tables}
           /\ \A i \in f.indexes : IndexColumns[i] \subseteq f.columns
           /\ "idx_retention_runs_source" \in f.indexes => f.tables = Tables}

-----------------------------------------------------------------------------
(* The statements, in the order of migrate *)

Statement(op, name) == [op |-> op, name |-> name]

CreateTables == <<Statement("table", "jobs"), Statement("table", "events"),
                  Statement("table", "retention_runs")>>

(* Mutant: the column of the latest release is forgotten. *)
EnsureWithoutToken ==
    <<Statement("ensure", "priority"), Statement("add", "priority"),
      Statement("ensure", "run_at"),   Statement("add", "run_at")>>

(* ensureColumn asks whether the column is there, then adds it if not.     *)
EnsureColumns ==
    <<Statement("ensure", "priority"),    Statement("add", "priority"),
      Statement("ensure", "run_at"),      Statement("add", "run_at"),
      Statement("ensure", "lease_token"), Statement("add", "lease_token")>>

CreateIndexes ==
    <<Statement("index", "idx_jobs_state"),      Statement("index", "idx_jobs_kind_state"),
      Statement("index", "idx_jobs_kind_ready"), Statement("index", "idx_jobs_kind_priority"),
      Statement("index", "idx_events_job_id"),   Statement("index", "idx_events_type"),
      Statement("index", "idx_retention_runs_source")>>

(* Mutant: the indexes come with the tables. *)
ScriptIndexesFirst == CreateTables \o CreateIndexes \o EnsureColumns

(* Columns come before the indexes that need them. *)
Script == CreateTables \o EnsureColumns \o CreateIndexes

(* Mutant: the table is created under the columns' earlier names. *)
ColumnsMisnamed == {"priority", "run_at", "token"}

(* CREATE TABLE jobs has all the columns. *)
NewJobsColumns == Columns

(* What SQLite says to a statement: an error for a column that is there    *)
(* already, or for an index on one that is not.                            *)
Accepts(f, s) ==
    CASE s.op = "add"   -> s.name \notin f.columns
      [] s.op = "index" -> IndexColumns[s.name] \subseteq f.columns
      [] OTHER          -> TRUE

Effect(f, s) ==
    CASE s.op = "table" /\ s.name \notin f.tables ->
            [f EXCEPT !.tables = @ \cup {s.name},
                      !.columns = IF s.name = "jobs" THEN NewJobsColumns ELSE @]
      [] s.op = "add"   -> [f EXCEPT !.columns = @ \cup {s.name}]
      [] s.op = "index" -> [f EXCEPT !.indexes = @ \cup {s.name}]
      [] OTHER          -> f

(* Mutant: the column is added without a look. *)
FollowsBlindly(n, f) == n + 1

(* The number of the statement that follows statement n: a column that is  *)
(* found is not added.                                                     *)
Follows(n, f) ==
    IF Script[n].op = "ensure" /\ Script[n].name \in f.columns THEN n + 2 ELSE n + 1

-----------------------------------------------------------------------------

VARIABLES
    file,
    pc,     \* per process: the number of its next statement, 0 while closed
    opens,  \* per process: how often it began to open
    failed, \* per process: why its last attempt failed
    raced   \* history: columns that others added during the attempt, and
            \* one that its look for it has missed

vars == <<file, pc, opens, failed, raced>>

TypeOK ==
    /\ file \in Files
    /\ pc \in [Processes -> 0..(Len(Script) + 1)]
    /\ opens \in [Processes -> 0..MaxOpens]
    /\ failed \in [Processes -> {"no", "store"} \cup Columns \cup Indexes]
    /\ raced \in [Processes -> SUBSET Columns]

Init ==
    /\ file \in OldFiles
    /\ pc = [p \in Processes |-> 0]
    /\ opens = [p \in Processes |-> 0]
    /\ failed = [p \in Processes |-> "no"]
    /\ raced = [p \in Processes |-> {}]

Opened(p) == pc[p] = Len(Script) + 1

Opening(p) == pc[p] \in 1..Len(Script)

(* NewSQLiteStore: the pool has one connection, no statement before this.  *)
Open(p) ==
    /\ pc[p] = 0 /\ opens[p] < MaxOpens
    /\ pc' = [pc EXCEPT ![p] = 1]
    /\ opens' = [opens EXCEPT ![p] = @ + 1]
    /\ failed' = [failed EXCEPT ![p] = "no"]
    /\ raced' = [raced EXCEPT ![p] = {}]
    /\ UNCHANGED file

Execute(p) ==
    /\ Opening(p)
    /\ Accepts(file, Script[pc[p]])
    /\ file' = Effect(file, Script[pc[p]])
    /\ pc' = [pc EXCEPT ![p] = Follows(@, file)]
    /\ raced' = [q \in Processes |->
                    IF q # p THEN raced[q] \cup (file'.columns \ file.columns)
                             ELSE raced[q]]
    /\ UNCHANGED <<opens, failed>>

(* A look that breaks off before it comes to the column takes it for       *)
(* missing: ensureColumn does not ask whether the rows have ended.         *)
Overlook(p) ==
    /\ Opening(p)
    /\ Script[pc[p]].op = "ensure" /\ Script[pc[p]].name \in file.columns
    /\ pc' = [pc EXCEPT ![p] = @ + 1]
    /\ raced' = [raced EXCEPT ![p] = @ \cup {Script[pc[p]].name}]
    /\ UNCHANGED <<file, opens, failed>>

(* An error ends the attempt: SQLite's answer to the statement. *)
Rejected(p) ==
    /\ Opening(p)
    /\ ~Accepts(file, Script[pc[p]])
    /\ failed' = [failed EXCEPT ![p] = Script[pc[p]].name]
    /\ pc' = [pc EXCEPT ![p] = 0]
    /\ UNCHANGED <<file, opens, raced>>

(* The file is locked for too long, or cannot be written. *)
StoreFails(p) ==
    /\ Opening(p)
    /\ failed' = [failed EXCEPT ![p] = "store"]
    /\ pc' = [pc EXCEPT ![p] = 0]
    /\ UNCHANGED <<file, opens, raced>>

(* The process closes its store, or dies, in the midst of opening it or    *)
(* later.                                                                  *)
Close(p) ==
    /\ pc[p] # 0
    /\ pc' = [pc EXCEPT ![p] = 0]
    /\ UNCHANGED <<file, opens, failed, raced>>

Next ==
    \E p \in Processes :
        Open(p) \/ Execute(p) \/ Overlook(p) \/ Rejected(p) \/ StoreFails(p) \/ Close(p)

Spec == Init /\ [][Next]_vars

-----------------------------------------------------------------------------
(* Properties *)

Complete(f) == f = [tables |-> Tables, columns |-> Columns, indexes |-> Indexes]

(* "Databases created before a schema change still gain the column on the  *)
(* next open": whatever the release that left the file, and whoever else   *)
(* opens it, an open store has every column, so that no statement of the   *)
(* queue names one that is missing.                                        *)
OpenedIsComplete == \A p \in Processes : Opened(p) => Complete(file)

(* A process that opens the file alone never fails for what it finds: the  *)
(* only column that SQLite refuses is one that another process added after *)
(* the look for it, or that a broken read hid, and no index is refused.    *)
FailsByRaceOnly ==
    \A p \in Processes : failed[p] \in {"no", "store"} \cup raced[p]

(* What an undisturbed process makes of a file: whether it opens it, and   *)
(* what it leaves.                                                         *)
Undisturbed(f) ==
    LET after[n \in 1..(Len(Script) + 1)] == [g \in Files |->
            IF n = Len(Script) + 1 THEN [opened |-> TRUE, file |-> g]
            ELSE IF ~Accepts(g, Script[n]) THEN [opened |-> FALSE, file |-> g]
            ELSE after[Follows(n, g)][Effect(g, Script[n])]]
    IN  after[1][f]

(* No crash, no race and no error leaves a file that cannot be opened: at  *)
(* any moment a process that is then left alone would open it.             *)
AlwaysOpenable ==
    LET result == Undisturbed(file) IN result.opened /\ Complete(result.file)
=============================================================================
