----------------------------- MODULE Dashboard -----------------------------
(***************************************************************************)
(* The requests of the dashboard and of the commands that read jobs, while *)
(* workers, operators and retention change the table under them.           *)
(*                                                                         *)
(* A handler holds no transaction: each of its statements sees the table   *)
(* of its own moment.  Three kinds of requests are modelled:               *)
(*   "requeue"   POST /api/jobs/{id}/requeue, five statements at most;     *)
(*   "walk"      a client that reads GET /api/jobs page by page;           *)
(*   "read"      GET /job/{id}, GET /api/jobs/{id}, history and export:    *)
(*               the row of a job, then its events.                        *)
(*                                                                         *)
(* Jobs are numbered in the order of the listing, created_at DESC, id ASC. *)
(* They are inserted in any order, because the clocks of processes differ. *)
(* An event is its number in the log of its job; EventLog keeps the types. *)
(***************************************************************************)
EXTENDS Integers, FiniteSets

CONSTANTS
    NumJobs,
    Requests,
    DefaultPageSize, MaxPageSize,
    AskedLimits,    \* values of the limit parameter, 0 when it is missing
    EventCaps,      \* values of MaxEventsPerJob, 0 for no limit
    MaxChanges,     \* bound: number of changes of the table by others
    MaxEvents       \* bound: others append no event to a job that had so many

ASSUME DashboardAssumption ==
    /\ NumJobs \in Nat /\ MaxChanges \in Nat /\ MaxEvents \in Nat
    /\ MaxPageSize \in Nat \ {0} /\ DefaultPageSize \in 1..MaxPageSize
    /\ AskedLimits \subseteq Int /\ EventCaps \subseteq Nat

VARIABLES
    state,      \* column of the jobs table, or "unborn", "deleted"
    log,        \* the rows of the events table per job, by number
    last,       \* per job, the number of its latest event: none is used again
    changes,    \* number of changes by others
    deaths,     \* history: dead letters of each job that no other requeued
    req         \* the requests, each with its locals and its history

vars == <<state, log, last, changes, deaths, req>>

Jobs == 1..NumJobs

Absent == {"unborn", "deleted"}

RowStates == {"pending", "leased", "completed", "dead_letter"}

(* A filter is a set of states: without a state parameter all of them. *)
Filters == {RowStates, {"dead_letter"}}

Matching(f) == {j \in Jobs : state[j] \in f}

NewRequest == [pc : {"new"}]

(* did: this request's UPDATE matched the row; seen: the states of the job *)
(* since the request began.                                                *)
RequeueRequest ==
    [kind : {"requeue"}, pc : {"read", "get", "update", "back", "log", "again", "done"},
     job : Jobs, did : BOOLEAN, seen : SUBSET (Absent \cup RowStates),
     answer : {"none", "200", "400", "404", "409", "415", "500"}]

(* got: the jobs on the pages so far; size: of the last page; steady: the  *)
(* jobs that matched all the time; left: how often a job ceased to match.  *)
WalkRequest ==
    [kind : {"walk"}, pc : {"page", "count", "done"}, filter : Filters,
     limit : 1..MaxPageSize, offset : Nat,
     got : SUBSET Jobs, steady : SUBSET Jobs, left : Nat]

(* shown: the timeline; due: the events that were stored when the row was   *)
(* read; cut: the job has left the filter or the table since.              *)
ReadRequest ==
    [kind : {"read"}, pc : {"first", "second", "done"}, filter : Filters, job : Jobs,
     row : RowStates \cup {"none"}, shown : SUBSET Nat, due : SUBSET Nat, cut : BOOLEAN]

TypeOK ==
    /\ state \in [Jobs -> Absent \cup RowStates]
    /\ log \in [Jobs -> SUBSET Nat] /\ last \in [Jobs -> Nat]
    /\ \A j \in Jobs : log[j] \subseteq 1..last[j]
    /\ changes \in Nat
    /\ deaths \in [Jobs -> Nat]
    /\ \A r \in Requests :
        req[r] \in NewRequest \cup RequeueRequest \cup WalkRequest \cup ReadRequest

(* The jobs of any past; their earlier events are taken for one.           *)
Init ==
    /\ state \in [Jobs -> {"unborn"} \cup RowStates]
    /\ last = [j \in Jobs |-> IF state[j] \in Absent THEN 0 ELSE 1]
    /\ log = [j \in Jobs |-> 1..last[j]]
    /\ changes = 0
    /\ deaths = [j \in Jobs |-> IF state[j] = "dead_letter" THEN 1 ELSE 0]
    /\ req = [r \in Requests |-> [pc |-> "new"]]

-----------------------------------------------------------------------------
(* Changes of the table, and what the requests' histories note of them *)

(* A request in flight after the jobs D came to state s. *)
Noted(q, D, s) ==
    IF q.pc \in {"new", "done"} THEN q ELSE
    CASE q.kind = "requeue" /\ q.job \in D ->
            [q EXCEPT !.seen = @ \cup {s}]
      [] q.kind = "walk" /\ s \notin q.filter ->
            [q EXCEPT !.steady = @ \ D,
                      !.left = @ + Cardinality(D \cap Matching(q.filter))]
      [] q.kind = "read" /\ q.job \in D ->
            [q EXCEPT !.cut = @ \/ s \notin q.filter]
      [] OTHER -> q

(* The jobs D come to state s; the requests go on from the given ones. *)
Move(D, s, requests) ==
    /\ state' = [j \in Jobs |-> IF j \in D THEN s ELSE state[j]]
    /\ req' = [r \in Requests |-> Noted(requests[r], D, s)]

(* A new event has a number above all that the job ever had. *)
AppendEvent(j) ==
    /\ last' = [last EXCEPT ![j] = @ + 1]
    /\ log' = [log EXCEPT ![j] = @ \cup {last[j] + 1}]

(* The steps of workers, operators and recoveries. *)
Steps ==
    {<<"unborn", "pending">>, <<"pending", "leased">>, <<"leased", "completed">>,
     <<"leased", "pending">>, <<"leased", "dead_letter">>, <<"dead_letter", "pending">>}

Change(j) ==
    /\ changes < MaxChanges
    /\ changes' = changes + 1
    /\ \E step \in Steps :
        /\ state[j] = step[1]
        /\ Move({j}, step[2], req)
        /\ deaths' = [deaths EXCEPT ![j] =
                        @ + (CASE step[2] = "dead_letter" -> 1
                               [] step[1] = "dead_letter" -> -1
                               [] OTHER -> 0)]
    /\ UNCHANGED <<log, last>>

(* The event of a change arrives some time after it, or never; the job may *)
(* be deleted by then.                                                     *)
Log(j) ==
    /\ state[j] # "unborn" /\ last[j] < MaxEvents
    /\ AppendEvent(j)
    /\ UNCHANGED <<state, changes, deaths, req>>

(* Mutant: the rows are numbered from the oldest. *)
KeptOldest(l, cap) ==
    IF cap = 0 THEN l ELSE {e \in l : Cardinality({d \in l : d < e}) < cap}

(* The rows numbered from the newest, those above the cap removed. *)
Kept(l, cap) ==
    IF cap = 0 THEN l ELSE {e \in l : Cardinality({d \in l : d > e}) < cap}

(* A retention run removes the finished jobs that are old enough, with     *)
(* their events, and trims every log that remains, in one transaction.     *)
Prune ==
    /\ changes < MaxChanges
    /\ changes' = changes + 1
    /\ \E old \in SUBSET {j \in Jobs : state[j] \in {"completed", "dead_letter"}},
          cap \in EventCaps :
        /\ Move(old, "deleted", req)
        /\ log' = [j \in Jobs |-> IF j \in old THEN {} ELSE Kept(log[j], cap)]
    /\ UNCHANGED <<last, deaths>>

-----------------------------------------------------------------------------
(* handleAPIRequeue *)

Requeueing(r, pc) == req[r].pc = pc /\ req[r].kind = "requeue"

Answer(q, code) == [q EXCEPT !.pc = "done", !.answer = code]

Goto(r, pc) == req' = [req EXCEPT ![r].pc = pc]

(* A walk or a read changes nothing, and cannot tell a requeue from the     *)
(* changes of others: it is checked alone, without other requests.          *)
Begun == {r \in Requests : req[r].pc # "new"}
OnlyRequeues == \A r \in Begun : req[r].kind = "requeue"

(* Header, body and max_attempts are validated before the table is read. *)
RequeueBegins(r) ==
    /\ req[r].pc = "new" /\ OnlyRequeues
    /\ \E j \in Jobs, refusal \in {"none", "400", "415"} :
        LET q == [kind |-> "requeue", pc |-> "read", job |-> j, did |-> FALSE,
                  seen |-> {state[j]}, answer |-> "none"]
        IN  req' = [req EXCEPT ![r] = IF refusal = "none" THEN q ELSE Answer(q, refusal)]
    /\ UNCHANGED <<state, log, last, changes, deaths>>

(* The handler's GetJob, which may fail. *)
RequeueReads(r) ==
    /\ Requeueing(r, "read")
    /\ LET s == state[req[r].job] IN
        \/ s = "dead_letter" /\ Goto(r, "get")
        \/ /\ s # "dead_letter"
           /\ req' = [req EXCEPT ![r] = Answer(@, IF s \in Absent THEN "404" ELSE "409")]
        \/ req' = [req EXCEPT ![r] = Answer(@, "500")]
    /\ UNCHANGED <<state, log, last, changes, deaths>>

(* Queue.Requeue reads the job again. *)
RequeueGets(r) ==
    /\ Requeueing(r, "get")
    /\ \/ state[req[r].job] = "dead_letter" /\ Goto(r, "update")
       \/ Goto(r, "again")
    /\ UNCHANGED <<state, log, last, changes, deaths>>

(* Mutant: the statement trusts the read before it. *)
MatchesAnyRow(j) == state[j] \notin Absent

(* WHERE id = ? AND state = 'dead_letter' *)
MatchesRow(j) == state[j] = "dead_letter"

(* Mutant: a state of its own. *)
StateRequeued == "requeued"

(* SET state = 'pending' *)
RequeuedState == "pending"

(* RequeueJob's UPDATE, which may fail or match no row. *)
RequeueUpdates(r) ==
    /\ Requeueing(r, "update")
    /\ LET j == req[r].job IN
        \/ /\ MatchesRow(j)
           /\ Move({j}, RequeuedState, [req EXCEPT ![r].pc = "back", ![r].did = TRUE])
        \/ Goto(r, "again") /\ UNCHANGED state
    /\ UNCHANGED <<log, last, changes, deaths>>

(* RequeueJob returns the row as it is by then. *)
RequeueReadsBack(r) ==
    /\ Requeueing(r, "back")
    /\ \/ state[req[r].job] \notin Absent /\ Goto(r, "log")
       \/ Goto(r, "again")
    /\ UNCHANGED <<state, log, last, changes, deaths>>

(* The requeued event. *)
RequeueLogs(r) ==
    /\ Requeueing(r, "log")
    /\ \/ /\ req' = [req EXCEPT ![r] = Answer(@, "200")]
          /\ AppendEvent(req[r].job)
       \/ Goto(r, "again") /\ UNCHANGED <<log, last>>
    /\ UNCHANGED <<state, changes, deaths>>

(* Mutant: an error of the requeue is taken for a conflict. *)
ConflictAfterError(s) == "409"

(* The answer after an error: the state is read once more. *)
AnswerAfterError(s) ==
    CASE s \in Absent       -> "404"
      [] s = "dead_letter"  -> "500"
      [] OTHER              -> "409"

RequeueReadsAgain(r) ==
    /\ Requeueing(r, "again")
    /\ \E code \in {AnswerAfterError(state[req[r].job]), "500"} :
        req' = [req EXCEPT ![r] = Answer(@, code)]
    /\ UNCHANGED <<state, log, last, changes, deaths>>

-----------------------------------------------------------------------------
(* GET /api/jobs, page after page *)

Walking(r, pc) == req[r].pc = pc /\ req[r].kind = "walk"

(* A limit out of range is replaced by the default, not by the maximum. *)
PageLimit(asked) == IF asked \in 1..MaxPageSize THEN asked ELSE DefaultPageSize

WalkBegins(r) ==
    /\ Begun = {}
    /\ \E f \in Filters, asked \in AskedLimits :
        req' = [req EXCEPT ![r] =
                 [kind |-> "walk", pc |-> "page", filter |-> f, limit |-> PageLimit(asked),
                  offset |-> 0, got |-> {}, steady |-> Matching(f), left |-> 0]]
    /\ UNCHANGED <<state, log, last, changes, deaths>>

(* The number of jobs that the listing shows before job j. *)
Position(j, f) == Cardinality({i \in Matching(f) : i < j})

(* Mutant: OFFSET taken for the number of the first row. *)
PageFromOne(f, limit, offset) ==
    {j \in Matching(f) : Position(j, f) \in (offset + 1)..(offset + limit)}

(* SearchJobs: LIMIT and OFFSET *)
Page(f, limit, offset) ==
    {j \in Matching(f) : Position(j, f) \in offset..(offset + limit - 1)}

WalkReadsPage(r) ==
    /\ Walking(r, "page")
    /\ LET q == req[r] IN
        req' = [req EXCEPT ![r] =
                 [q EXCEPT !.pc = "count", !.got = @ \cup Page(q.filter, q.limit, q.offset)]]
    /\ UNCHANGED <<state, log, last, changes, deaths>>

(* CountJobs gives the total of the response; the client asks for the next *)
(* page while there is one, by the limit that the response shows.          *)
WalkReadsTotal(r) ==
    /\ Walking(r, "count")
    /\ LET q    == req[r]
           next == q.offset + q.limit
       IN  req' = [req EXCEPT ![r] =
                    IF next < Cardinality(Matching(q.filter))
                    THEN [q EXCEPT !.pc = "page", !.offset = next]
                    ELSE [q EXCEPT !.pc = "done"]]
    /\ UNCHANGED <<state, log, last, changes, deaths>>

-----------------------------------------------------------------------------
(* The row of a job and its events *)

(* Mutant: the events are read first. *)
EventsThenRow == [first |-> "events", second |-> "row"]

(* GetJob, then GetJobEvents; GetJobHistories has the same order. *)
Statements == [first |-> "row", second |-> "events"]

Following == [first |-> "second", second |-> "done"]

(* The export has a filter, the others take any job. *)
ReadBegins(r) ==
    /\ Begun = {}
    /\ \E f \in Filters, j \in Jobs :
        req' = [req EXCEPT ![r] =
                 [kind |-> "read", pc |-> "first", filter |-> f, job |-> j, row |-> "none",
                  shown |-> {}, due |-> {}, cut |-> FALSE]]
    /\ UNCHANGED <<state, log, last, changes, deaths>>

ReadStatement(r) ==
    /\ req[r].pc \in {"first", "second"}
    /\ LET q == req[r]
           j == q.job
           matches == state[j] \in q.filter
       IN  \/ /\ Statements[q.pc] = "row" /\ matches
              /\ req' = [req EXCEPT ![r] =
                          [q EXCEPT !.pc = Following[@], !.row = state[j], !.due = log[j],
                                    !.cut = FALSE]]
           \* not found, or not among the jobs of the export
           \/ /\ Statements[q.pc] = "row" /\ ~matches
              /\ req' = [req EXCEPT ![r] = [q EXCEPT !.pc = "done"]]
           \* the events of the id, which an export joins with the jobs that match by now
           \/ /\ Statements[q.pc] = "events"
              /\ \E shown \in {log[j], {}} :
                  /\ matches => shown = log[j]
                  /\ q.filter # RowStates /\ ~matches => shown = {}
                  /\ req' = [req EXCEPT ![r] = [q EXCEPT !.pc = Following[@], !.shown = shown]]
    /\ UNCHANGED <<state, log, last, changes, deaths>>

RequestNext(r) ==
    \/ RequeueBegins(r) \/ RequeueReads(r) \/ RequeueGets(r) \/ RequeueUpdates(r)
    \/ RequeueReadsBack(r) \/ RequeueLogs(r) \/ RequeueReadsAgain(r)
    \/ WalkBegins(r) \/ WalkReadsPage(r) \/ WalkReadsTotal(r)
    \/ ReadBegins(r) \/ ReadStatement(r)

Next ==
    \/ \E j \in Jobs : Change(j) \/ Log(j)
    \/ Prune
    \/ \E r \in Requests : RequestNext(r)

Spec == Init /\ [][Next]_vars

-----------------------------------------------------------------------------
(* Properties *)

Done(kind) == {r \in Requests : req[r].pc = "done" /\ req[r].kind = kind}

(* "The state may change between the read above and the update when two    *)
(* operators act at once": whatever happened, the answer is one that the   *)
(* table deserved at some moment of the request.  A requeue that is        *)
(* reported was this request's own; a conflict or a missing job was there  *)
(* to be seen.                                                             *)
AnswersTrue ==
    \A r \in Done("requeue") :
        LET q == req[r] IN
        /\ q.answer = "200" => q.did
        /\ q.answer \in {"400", "415"} => ~q.did
        /\ q.answer = "404" => q.seen \cap Absent # {}
        /\ q.answer = "409" => \E s \in q.seen : s \in RowStates \ {"dead_letter"}

(* A dead letter is requeued once: of two requests that act on one death,  *)
(* or of a request and another process, one changes the row.               *)
OneRequeuePerDeath ==
    \A j \in Jobs :
        Cardinality({r \in Begun : req[r].kind = "requeue"
                                      /\ req[r].job = j /\ req[r].did}) <= deaths[j]

(* A client that walks the pages misses a job that matched all the time    *)
(* only when others ceased to match before it: one job for each.  Inserts  *)
(* make it see a job twice, never lose one.                                *)
MissedAtMostLeft ==
    \A r \in Done("walk") : Cardinality(req[r].steady \ req[r].got) <= req[r].left

(* "a browser shows live queue state": the timeline beside a row is never  *)
(* older than the row, and has no gap.  An event that was stored with the  *)
(* row is missing only because retention has trimmed it since, and then    *)
(* later ones are shown: "every job that stays keeps only its newest       *)
(* events", and at least one.  Only a job that is deleted, or leaves the   *)
(* filter of the export, between the two statements loses its timeline.    *)
TimelineNotBehind ==
    \A r \in Done("read") :
        LET q == req[r] IN
        q.row # "none" /\ ~q.cut =>
            \A d \in q.due \ q.shown : q.shown # {} /\ \A e \in q.shown : d < e
=============================================================================
