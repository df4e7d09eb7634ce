# A TLA+ model of the local-first job queue

The repository is a job queue in Go that keeps everything in one SQLite file.
Several processes open that file: workers, an operator's commands, a web
dashboard. There is no server between them. What one process remembers between
two SQL statements may be stale at the second, a process may die between any
two statements, and nothing but the `WHERE` clauses of the statements keeps
them from harming each other. This directory models those statements, checks
them with TLC on small instances, and proves the central facts with TLAPS.

## The system

| Part | Source | State | Operations | Here |
|---|---|---|---|---|
| Lease protocol | `queue/queue.go`, `queue/sqlite.go` | table `jobs` | `Enqueue`, `Lease`, `AcknowledgeLease`, `FailLease`, `Renew`, `Recover`, `Requeue`: a statement each, then one for the event | modelled but for the unfenced calls, proved |
| Event log | the same, `AppendEvent` | table `events` | append, trim | modelled, proved |
| Archive verifier | `archive/archive.go` | ids seen in the file | replay of a job's events against its state | the replay |
| Retention | `queue/prune.go` | `retention_runs` | one transaction that deletes old terminal jobs and trims event logs; totals | modelled, proved |
| Idempotent enqueue | `InsertJob`, `FindJobByIdempotencyKey` | column `idempotency_key` | insert or find | modelled, proved |
| Dispatch order | `pendingOrderBy`, `LeaseJob` | none | which ready job is next | modelled, proved |
| Stored timestamps | `sqliteTimeFormat` and the comparisons | none | the order of texts | modelled, proved |
| Worker lifecycle | `worker/worker.go`, `cli/work.go` | semaphore, wait group, contexts, `running`, goroutines | `Run`, `processOne`, heartbeat, retention loop, `Stop` | modelled, proved but for liveness |
| Fault injector | `fault/fault.go` | none | fail, panic, stall, delay before the wrapped handler | modelled |
| Schema migration | `migrate`, `ensureColumn` | the file's schema | sixteen statements and three pragmas on every open | modelled, proved |
| Dashboard | `web/server.go` | none | the requeue action, listing, job with timeline | those three, proved |
| Queries, export | `sqlite.go`, `cli/export.go` | none | reads of several statements | those that can disagree |
| Metrics | `metrics/metrics.go` | none | counters and gauges from queries | totals of retention, oldest ready time |
| Commands | `cli/*.go` | flags | one call of the queue each | not modelled |
| Demo, fixtures | `cli/demo.go`, `fixture/` | none | scripts over the rest | not modelled |

(Paths are under `src/internal/`.)

Interaction is by shared state only. A worker slot calls `Queue`, which
executes one statement on the job and then a second one that appends an event;
the two are not in one transaction. The heartbeat of a slot is a goroutine that
shares the job's token with it, talks to it through a one-element error channel
and cancels the handler's context. Recovery runs once, when a worker starts,
against the live workers of other processes. The dashboard and the commands
requeue and prune while workers run, and every one of them runs the migration
when it opens the file.

### What is hard, and what would make it correct

* **Leases.** A job is run by one slot at a time although leases expire under
  running handlers; a late statement of a slot that lost its lease changes
  nothing; attempts are counted once each and bounded; a slot that lost its lease
  stops; a finished job stays finished. The danger is in every pair of
  statements: `GetJob` and the fenced update in `fail`, the scan and the updates
  of recovery, the read and the update of `Requeue`.
* **Time.** Deadlines, run times and cutoffs are compared as texts.
* **Event log and archive.** Events of two callers may be appended in another
  order than their updates, or not at all; the archive's verifier replays them
  and expects the order. What holds in spite of that: an undisturbed log replays
  to the job's state, also when it was trimmed; a job is acknowledged at most
  once; the events of a log that misses none add up.
* **Retention.** A prune reads the clock, waits for the write lock, and meets
  jobs that were requeued meanwhile, callers that still owe events, and calls of
  `Enqueue` between their two statements. What is gone must be counted once.
* **Dispatch.** The order changes while jobs wait. No stream of important jobs
  may starve another one, and equal jobs must be taken in turn.
* **Worker lifecycle.** A slot gives its token back whatever happened to its job;
  `Run` returns when it is stopped, wherever its goroutines are; a lease that
  nobody holds comes back when a worker starts.
* **Opening the file.** The migration is not a transaction. Two processes may
  interleave statement by statement, and one may die between any two.
* **Dashboard.** A request is up to five statements. Its answer must be one that
  the table deserved; pages and timelines are cut out of a table that moves.

## Modules

* `Timestamps` - the order of the RFC3339Nano texts in which the store compares
  times. A time is a tick, a second has `TicksPerSecond` ticks, and one fraction
  digit stands for all of them. With one tick per second the order is the order
  of the times; with more, a whole second sorts after its own fractions.
* `LeaseProtocol` - the core. Its variables are the columns of `jobs` that
  decide anything (`state`, `retry`, `budget`, `token`, `until`, `runAt`, each a
  function of the job), the clock, the source of tokens, and what each caller
  remembers: a worker slot its program counter, job, token and heartbeat; a
  recovery its scanned rows and the rows it still has to log; a client its job
  and option. Two history variables serve properties only: `runs` counts the
  leases granted since the job was enqueued or requeued, `clobbered` holds the
  jobs whose lease a recovery ended although it had scanned another one.
* `LeaseService` - what the queue promises, without tokens, deadlines or scans:
  `status` and `owners`. Recovery may revoke a lease at any time in it, because
  that is all that the code guarantees.
* `Archive` - the verifier's replay: the state an event leads to, the state it
  follows, and the state a history ends in, as a recursive function.
* `EventLog` - extends both. Every log step of `LeaseProtocol` appends a row to
  `events`; the other steps leave `events` alone; a prune transaction removes the
  rows of the jobs it deletes and trims all logs to a cap. A job is `Owed` an
  event while some caller has changed its row and not logged that yet. Two
  history variables serve properties: `disturbed` holds the jobs whose state
  changed while an event was owed, or whose event was never appended, `lost` the
  jobs whose log misses a row, dropped or trimmed. `CalmSpec` is the same without
  deaths and store errors.
* `DispatchOrder` - the columns that `ORDER BY` reads, and a table whose rows
  are enqueued by processes whose clocks are ahead, leased, ended and requeued.
  The order is a tuple per row (`SortKey`) compared from the left (`Before`);
  the boost is the truncated quotient of SQLite's `CAST`.
* `Retention` - jobs with a key and, once finished, their `updated_at`; numbers
  of events, stored and owed; the `retention_runs` table; a prune per source
  that reads the clock in one step and commits in another; calls of `Enqueue`.
* `FaultInjector` - no state: the policy of a payload and the set of results that
  `Handle` can return at an attempt.
* `WorkerRun` - one worker process and those started after it: the calls of
  `Run`, the semaphore and the wait group as counters, goroutines with the steps
  of `processOne` and of the two deferred calls, the retention goroutine, and
  jobs that end as `FaultInjector` says. `spoilt` is history: the jobs that lost
  an attempt to a crash, a store error or a shutdown.
* `Migration` - a file is its tables, columns and indexes; the sixteen statements
  (three tables, a look and an `ALTER TABLE` for each of three columns, seven
  indexes) are a sequence, each process has the number of its next one. `raced` is
  history: the columns that others added while a process was opening, and one
  that its look missed.
* `Dashboard` - requests step by step over a table that workers, operators and
  retention change: the requeue action, a client that follows the pages of the
  listing, and a row read with its events (job page, history, export). `log` has
  the rows of `events` per job, by number, `last` the number that the next one
  has to exceed; `Prune` is the whole transaction, which deletes old finished
  jobs and trims the log of every other one to its newest events.
* `MCLease`, `MCEventLog`, `MCDispatch`, `MCRetention`, `MCWorker`,
  `MCMigration`, `MCDashboard` - instances for TLC.
* `CommonLemmas` - what several proofs need: the order of the texts of
  `Timestamps`, least elements, induction over naturals and over finite sets
  stated with sets, and the sums of the community modules.
* `LeaseProtocolProofs`, `EventLogProofs`, `DispatchProofs`, `RetentionProofs`,
  `WorkerProofs`, `MigrationProofs`, `DashboardProofs` - the proofs.

`EventLog` composes the lease protocol with its log and the verifier;
`WorkerRun` composes the worker with the fault injector. The others meet in the
`jobs` table only, and each keeps the columns that its statements read: what the
rest does to those columns is a nondeterministic action (`Change` in `Retention`
and `Dashboard`, `EndLease` in `DispatchOrder`).

### Code and actions

An action is one SQL statement with the Go code around it, so callers
interleave exactly between statements. A transaction is one action.

| Code | Actions |
|---|---|
| **LeaseProtocol** | |
| `Enqueue`, `InsertJob` | `Enqueue`, then `LogClient` |
| `Requeue`: `GetJob`, `RequeueJob` | `Requeue`, `RequeueJob`, then `LogClient` |
| `Lease`, `LeaseJob` | `LeaseJob`, then `StartHandler` (event, heartbeat, handler) |
| heartbeat: `Renew`, its error, `ctx.Done` | `Renew`, `LogRenewed`, `RenewErrs`, `StopRenewal` |
| handler; join with the heartbeat | `HandlerReturns`, `Joined` |
| `AcknowledgeLease` | `Acknowledge`, then `LogOutcome` |
| `FailLease`: `GetJob`, `FailJobWithToken` | `FailRead`, `FailJob`, then `LogOutcome` |
| `RecoverOrphanedLeases`: scan, updates | `Scan`, `RecoverOne` per row, then `LogRecovered` per event |
| prune transaction | `Prune`; with the events, `PruneEvents` in `EventLog` |
| `AppendEvent` in each of the above | `AppendsEvent` in `EventLog`: the log steps together with `Log` |
| death of a process; a store error that ends a caller early | `SlotDies`, `ClientDies`, `RecovererStops` |
| **DispatchOrder** | |
| `Enqueue` with priority and run-at; `LeaseJob`'s `SELECT` and `UPDATE` | `Enqueue`; `LeaseJob` |
| `completeJob`, `failJob`, recovery; `RequeueJob` | `EndLease`; `RequeueJob` |
| `GetOldestPendingReadyTime` | `OldestReadyTime` (a state function) |
| **Retention** | |
| `InsertJob` with a key: row or conflict | `Insert`; `Conflict`, then `Find` |
| `appendEnqueueEvents` | `LogEnqueue` |
| any other statement on a job, and its event | `Change`, `AppendEvent` |
| `PruneWithSource`: clock, transaction, error | `PruneStarts`, `PruneCommits`, `PruneFails` |
| `GetRetentionStats`, `buildSummary` | `RetentionStats`, `Summary` (state functions) |
| **WorkerRun** | |
| `Run`: mutex, recovery, select, `wg.Wait` | `Run`, `Recover` or `RecoverFails`, `Spawn` or `SeeDone`, `Return` |
| `Stop`, a signal | `CancelRun` |
| `processOne`: select, lease, handler, report | `PollCancelled` or `PollFires`, `Lease` or `NoLease`, `HandlerReturns` or `LeaseLost`, `Report` or `ReportFails` |
| the two `defer`s of a goroutine | `GiveBack`, `Exit` |
| `retentionLoop` | `RetentionPass`, `RetentionFires`, `RetentionDone`, `RetentionExits` |
| end of the process, the next one | `Crash`, `Restart` |
| **Migration** | |
| `NewSQLiteStore`; a statement of `migrate` or `ensureColumn`; a look that breaks off; an error | `Open`; `Execute`; `Overlook`; `Rejected` (by the schema), `StoreFails` (by the file) |
| `Close`, or a death in between | `Close` |
| **Dashboard** | |
| `handleAPIRequeue`: checks, `GetJob`, `Requeue` (`GetJob`, `UPDATE`, `GetJob`, event), `GetJob` | `RequeueBegins`, `RequeueReads`, `RequeueGets`, `RequeueUpdates`, `RequeueReadsBack`, `RequeueLogs`, `RequeueReadsAgain` |
| `handleAPIJobs`: `SearchJobs`, `CountJobs` | `WalkReadsPage`, `WalkReadsTotal` |
| `GetJob` and `GetJobEvents`; `GetJobHistories` | `ReadStatement`, twice |

Abstractions. A lease token is a number that is drawn once (the code draws 32
random bytes). In `LeaseProtocol` the row that `LeaseJob` takes is any ready one
and `Prune` removes any set of terminal rows: `DispatchOrder` and `Retention` say
which; leaving that open only adds behaviours. A recovery may start at any time,
as any process may start a worker at any time. The time that a statement uses is
the time at which it executes, although the code reads the clock a moment
before; in `Retention`, where the wait for the lock can be long, the two are
steps of their own. `LeaseDuration` is at least one tick, and then every leased
job has a heartbeat; the code starts none when the lease is shorter than three
nanoseconds and no interval is given. SQLite's quotients of julian days are
doubles, `DispatchOrder` divides exactly. In `WorkerRun` a lease that is held
does not expire unless a renewal fails (`LeaseLost`), which is what
`LeaseProtocol` has in detail. `Dashboard` numbers the jobs in the order of the
listing and has of an event only its number; a request that only reads is checked without other
requests, because it changes nothing and sees other requests as it sees any
operator.

## Runs

| Run | Instance | What it shows |
|---|---|---|
| `lease` | 1 job, 2 slots, 2 recoveries, 1 client, 3 leases, 3 instants, budgets default (clamped to 1) and 2 | fencing, accounting, finality, and the refinement of `LeaseService`, with crashes and store errors everywhere |
| `lease_live` | 1 job, 2 slots, 2 leases | a slot without its lease gives up |
| `event_log` | 1 job, 2 slots, 1 recovery, 1 client, 2 leases, trims to 2 events | with deaths and store errors: undisturbed logs verify, trimmed or not; one acknowledgement at most; where no row is missing, each lease has one event that ends it and each death but the last a requeue |
| `dispatch` | 2 jobs, 2 kinds, 3 priorities, run times absent, past and future, clocks that are ahead, an aging interval of a second | how far a job can be overtaken; equal jobs in turn; run times; the job whose wait is reported is leased before its equals |
| `retention` | 2 jobs, 2 calls of `Enqueue` on one key, 2 prunes of 2 sources, policies by age and by age and cap | everything removed is counted once; one job per key; what a conflict returns; only old finished jobs go |
| `worker_run` | 2 slots of 3 goroutines, 2 calls of `Run`, 1 job with each kind of fault, a retention loop, stops, crashes, restarts | tokens and wait group; one run; the policy decides; `Run` returns; orphans come back |
| `migration` | 2 processes, 3 openings each, a new file, and every file with the tables of an earlier release and any of its columns and indexes | an open store is complete; only a race makes it fail; the file can always be opened |
| `dashboard` | 2 jobs in any state, 2 requests, pages of 1 row, asked for, and of 2, the default, 3 changes by others, trims to 1 event | answers that are true; one requeue per death; what a walk can miss; timelines no older than their row and without gaps |
| `stale_recovery` | 1 job, 2 slots, 1 recovery, 3 leases | a recovery update ends a lease that it did not scan |
| `early_recovery` | 2 ticks per second | what comparing times as texts breaks |
| `history_order` | as `event_log`, without deaths and trims | events in another order than their statements |
| `slow_fault` | 1 slot, 1 job with a slow fault | a heartbeat keeps the lease that the fault is to lose |

Bounds. `MaxTime` stops the clock, `MaxLeases` the drawing of tokens,
`MaxEvents` the events (of each job in `EventLog` and `Dashboard`), `MaxRuns` the prunes, `MaxChanges` the changes by others
and `MaxOpens` the openings.

* Leases: two instants after 0 let a lease of one tick expire, be renewed and
  expire again. Three leases let a job be leased, lost and leased again while a
  third party still acts on the first lease; two recoveries can race on one
  orphan; the budget of 1 is buried at the first failure and the budget of 2
  after a retry. In the event runs a renewal begins only while a job has fewer
  than `MaxEvents` events, so that heartbeats cannot fill the log without end;
  three leave room for a renewal in either lease, and a trim to two cuts off the
  beginning of every history that matters. With one tick per second the text
  order is chronological, so the violation of the recovery run has nothing to do
  with it.
* Dispatch: every property is about two jobs. Five ticks of half a second let a
  job wait two intervals; a skew of two puts its ready time into the future.
* Retention: two jobs let a key be taken over by a second job after a prune, two
  prunes let the sources overlap; three events are an insert's, a change's and a
  late one, and the cap of one cuts.
* Worker: three goroutine ids for two slots, because a goroutine that has given
  its token back may live on beside two others. Two calls of `Run` suffice to
  see that the second is refused, two attempts to see a retry and a burial.
* Migration: three openings of two processes: a failure, a death and a success.
* Dashboard: three changes let a dead letter be requeued, die again and be
  removed inside one request. Two events and a cap of one let a trim take an event
  between the row and the timeline, and leave a later one. A limit of 0 stands for
  a missing one and for one out of range: the page has the default size then.

`CHECK_DEADLOCK FALSE`: a queue whose jobs are all deleted is at rest, a request
that was answered and a process that does not open its file again are too, and
the bounds stop the rest.

Fairness. `lease_live`: a slot executes its next statement, the heartbeat timer
fires, and a handler returns when its context is cancelled; the worker's comment
on `startLeaseRenewal` rests on exactly that. `worker_run`: goroutines are
scheduled, timers fire, statements return (with an error, if they have to), and
a handler returns when it can, a blocked one when its context ends. The
retention loop's `select` has strong fairness for the ended context, since Go
picks among ready cases at random; the main loop needs only weak fairness, as a
context that has ended stays ended. `StopReturns` needs no more. `OrphansReturn`
rests in addition on `RestartFairness`, an assumption on the operator and not on
the code: workers keep being stopped and started, and a start sooner or later
gets as far as its recovery. Without it the property is false, because recovery
runs only when a worker starts. Nothing is assumed of a handler that is left
alone, and no process is forced to live.

## What the code does and the repository does not say

1. `RecoverOrphanedLeases` scans, then updates each row `WHERE state = 'leased'`.
   The update does not ask for the token or the deadline it scanned. If the
   orphan is settled and leased again in between, the new lease ends
   (`stale_recovery`); if it is renewed in between, the live lease ends; and
   since the update writes the scanned count plus one, the attempt counter can
   go back, which grants attempts beyond the budget, or exceed a smaller budget
   set by a requeue, which the archive verifier rejects. `AttemptAccounting`
   holds for the jobs to which that has not happened (`clobbered`).
2. `Requeue` without a limit writes back the limit it read, although another
   requeue may have set one in between.
3. Deadlines and run times with fractions are compared as texts: a lease is
   recovered up to a second early (`early_recovery`), a job is run up to a second
   before its run time, two jobs of one second can change places, and a prune
   removes a job up to a second too young. `LeasedNearRunAt`,
   `SamePriorityInOrder` and `OnlyOldTerminal` say that it is never more.
4. An event is appended by a statement of its own. Another process may append
   first, so that a history is out of order and the archive verifier rejects the
   queue's own export (`history_order`); a process may die in between, so that a
   completed job has no `acknowledged` event; retention may delete the job in
   between, so that the event refers to nothing and stays until a cap trims it.
5. The comment of `GetEventTypeCounts` says that counts never shrink; retention
   shrinks them, as the comment of `EventTypeCount` says.
6. `ModeSlow` waits for its context, and the heartbeat renews the lease
   meanwhile: the job is not orphaned, it holds its slot until the worker stops
   and then loses an attempt (`slow_fault`).
7. Aging counts from the run time or the creation, which nothing changes later:
   a job gains points while it is leased, retried or dead, and a requeued one
   begins with all of them.
8. The comment of `GetOldestPendingReadyTime` (`sqlite.go:791`) calls the ready
   time "the earlier of run_at and created_at, matching the lease ordering", and
   that of `pendingOrderBy` says the same. Both statements take `run_at` whenever
   there is one, also when it is the later: the first half of the comment is
   wrong, the second is what `LeasesTheOldest` says. A mutant with the earlier
   time (`EarliestTime`) violates it. A delayed job is reported with a time in the
   future, so that the metrics print a negative age; the property speaks only of
   times that are a second in the past.
9. A dashboard requeue that changed the row and could not store its event
   answers 409, or 500 when the job has died again by then, although the change
   was its own.
10. `Enqueue` returns an error when it cannot store its event although the job
    is stored; without a key, a caller that tries again enqueues it twice.
11. The second `ALTER TABLE` of two processes that open an old file fails, and
    that command with it; the next attempt succeeds (`AlwaysOpenable`). So does an
    `ALTER TABLE` after a look at the columns that broke off, because neither
    `ensureColumn` nor the scan of the recovery asks `rows.Err()`; a recovery that
    breaks off leaves the other orphans to the next one (`Scan`).
12. A shutdown cancels running handlers and reports what they return as a
    failure, which costs an attempt, possibly the last.

## Proofs

All theorems hold for every value of the constants: every set of jobs, slots,
recoveries, clients, goroutines and processes, every budget, run time, lease
duration, tick, aging interval, age, cap and bound. They rest on the `ASSUME`s
of the modules, which give the constants their shapes; the only ones with
content are that a lease lasts a tick, that an age limit, a cap and a budget are
positive, and that there are more goroutines than tokens. What is counted is
finite: the jobs of `Retention`, the goroutines of `WorkerRun`, and the callers of
`EventLog`, which moreover are of one kind each (a slot is not a client). TLC
evaluates each assumption in some run.

* **Timestamps** (in `CommonLemmas`). `TextOrder`: if one text is not above another, its time is less
  than a second later, and with one tick per second not later. Every theorem
  about times rests on this lemma.
* **LeaseProtocol.** `TypeCorrect`; `LeaseInvariant`, the inductive invariant
  `LeaseInv`. `SingleHolder` is not inductive: that two slots hold one job is
  excluded only because tokens are below `nextToken` (`TokensDrawn`) and no two
  busy slots have the same one (`SlotTokens`). `AttemptAccounting` needs that a
  decision of `fail` (`FailDecisionFresh`) and a scanned row (`ScanFresh`) are
  still right whenever their token still is, that the columns go together
  (`LeaseColumns`), and that every budget that anyone may write back is positive
  (`BudgetPositive`). `SingleHolderHolds`, `FailDecisionFreshHolds`,
  `AttemptAccountingHolds`, `LeaseColumnsHold` follow from it;
  `CompletedIsFinalHolds` is an action property that needs the types alone.
* **Refinement.** `ProtocolImplementsService`: each step of the protocol is a
  step of `LeaseService` or leaves its state alone, where the owners of a job are
  the slots that hold its lease: a fenced update is `Settle` by the owner, a reset
  of a slot that holds is `Abandon`, a recovery update is `Revoke`.
* **EventLog.** `LogImplementsProtocol`: a step with the event log is a step of
  the protocol, or a trim that leaves its variables alone, so all of the above
  holds with it. `AcknowledgedOnceHolds`, from `AckInv`: a job with an
  acknowledged event, or with a slot that still owes one, is completed or
  deleted, and has one such event or one such slot but not both. The step needs
  that no statement brings a done job back (`DoneStays`), that a slot comes to owe
  the event by a fenced update of a leased row alone (`OwesAck`), and that a
  trimmed log is a suffix (`NewestEvents`). `LogTypeCorrect`.
  `EventsBalanceHolds`, from `BooksInv`: the balance speaks of jobs that nobody owes
  an event, so it is not inductive; with the events that are still owed counted
  in (`Ledger`: the slots that have leased, ended or buried the job, the reports of
  recoveries, the clients that have requeued it) it holds at every moment. A step
  of one caller changes each of these sets by that caller at most (`Moves`), and
  the log by one event, so that it keeps the books if its own entries balance
  (`BooksKept`). A recovery is counted once because it reports a job once
  (`OneReport`); a caller that dies with a debt makes the job one that misses an
  event.
  `UndisturbedVerifiesHolds`, from `HistoryInv`: the log of an undisturbed job is a
  chain in which each event can follow the one before and which ends in the state
  of the job, or one event is owed, by one caller, with which it is such a chain
  (`Story`). A change of state comes only when nothing is owed, and owes its event
  (`Opened`); an append settles it (`Paid`); a trim takes nothing but the beginning
  (`StoryTrimmed`). A renewal changes no state, so that it would owe a second
  event if another slot still owed one for the same lease: excluded because a
  slot that owes an event of a leased job has the token of that lease (`Fresh`)
  and no two slots have one token. `ReplayOfChain` says what the recursive replay of
  the verifier computes of a chain.
* **DispatchOrder.** `TypeCorrect`, and the three action properties. The row that
  is leased is before every other candidate (the leased row is the one that the
  step moved), so its sort key is not above that of the overtaken job; the rest
  is arithmetic on truncated quotients, with the sign of the wait as the cases,
  and `TextOrder` where keys tie. `LeasesTheOldestHolds`: when all
  pending jobs are of one kind and priority, the one with the least text
  (`LeastElement`) is a candidate once its time is past, and the leased one is
  ready less than a second later by `SamePriorityStep`, which is also what
  `SamePriorityInOrderHolds` rests on.
* **Retention.** From `KeyInv` - no two stored rows share a key, a call's result
  has the call's key, and a call that conflicted saw a row of the key that is
  stored or deleted - `OneJobPerKeyHolds` and `ConflictHasHolderHolds`. From
  `AgeInv` - a running prune has read a clock that is not in the future -
  `OnlyOldTerminalHolds`. From `CountInv` - in addition no two calls have the
  event of one job still to append, and each such event is owed - `RemovedAddUpHolds`
  and `TypeCorrect`: a prune moves as many jobs and events to the totals as it
  takes from the table, an append adds one to both sides.
* **WorkerRun.** `RunInvariant`, the inductive invariant `RunInv`. The counts of
  `TokensConserved` are not inductive: they hold only from `Recover` on, before
  which nothing runs (`Counters`), and they need that a single call gets that far
  (`OneCall`) and that a call that returned has left nothing behind (`Quiet`).
  That no job is run twice needs that the row of a job in hand is leased and not
  expired (`Holding`). `TypeCorrect` (no counter goes negative),
  `TokensConservedHolds` and `OneRunHolds` follow. `PolicyDecidesHolds` needs
  `PolicyInv` in addition: a job in the queue has failed no more often than its
  payload asks for, and a goroutine on its way to report says what the payload
  asks for at this attempt.
* **Migration.** `OpenInvariant`, the inductive invariant `OpenInv`: what a
  process has passed is in the file, because no statement takes anything away
  (`EffectGrows`), and a process that is about to add a column that is there has
  been raced, because it was not there at its own look, or the look broke off. `OpenedIsCompleteHolds`
  and `FailsByRaceOnlyHolds` follow with `ScriptShape`: a column is looked for
  right before it is added, and the indexes come last. `TypeCorrect`.
  `AlwaysOpenableHolds` is about `Undisturbed`, which runs the whole script on a file:
  by induction from the last statement to the first, a process that stands at a
  statement with all the earlier ones in the file, and before an `ADD COLUMN`
  without that column, is never refused (`Ahead`, `StaysAhead`).
* **Dashboard.** From `IInv`, which says of each request what it has seen, done and
  still to do (`RequeueInv`, `WalkInv`, `ReadInv`), `TypeCorrect`, `AnswersTrueHolds`,
  `OneRequeuePerDeathHolds`, `MissedAtMostLeftHolds` and `TimelineNotBehindHolds`. For
  the walk the jobs that it has passed unseen are counted at every page: a job
  that leaves moves those behind it up by one place at most, a job that comes
  moves none of them up (`PlacesMove`), and a page takes every place that it covers.
  A dead job has one death more than requests that requeued it (`DeathsInv`).
  For the timeline, whatever happens to the log of a job between the two
  statements leaves it `Grown`: an event that is gone has been outlived by later
  ones (`KeptIsGrown` for a trim, `AppendedIsGrown` for an append), unless the
  job itself has gone, and that a request notes (`ReadNotes`).

Only model-checked: liveness (`LostLeaseStops`, `StopReturns`, `OrphansReturn`),
which is beyond the prover, and the four violations. Every other property that a
run checks is a theorem. The induction theorems of the library take an operator as a
parameter, which the provers cannot instantiate; `AllNaturals` and `AllFiniteSets`
say the same of a set that is closed, and carry the proofs about sums, about the
replay and about the script.

## Not modelled

* The unfenced `Acknowledge` and `Fail` and `LeaseJobByID`, which the demo and
  tests call and workers do not.
* Contents: payloads but for their fault policy, error texts, metadata,
  timestamps and ids of events, authentication, templates, flags, the format of
  exports and of metrics. They are conversions or input and output, and decide
  nothing that another part reads.
* The verifier's line-by-line checks (schema version, duplicate ids,
  timestamps), the dashboard's cards and the gauges: one query or one comparison
  each, with no state.
* The commands, the demo and the fixtures: sequences of calls that are modelled.
* Pragmas and the locking of SQLite: a statement is atomic, may fail, and may be
  delayed at will.

## What could come next

1. The other checks of the verifier as operators over whole archives, with the
   export of several jobs as their input.
2. The unfenced calls in `LeaseProtocol`, and what they do to a fenced slot.
3. A composition of `WorkerRun` and `LeaseProtocol`, in which leases expire by
   the clock while a worker shuts down.
4. `LogSpec` as an implementation of a service that keeps a history, so that the
   event log has an abstract specification of its own.
