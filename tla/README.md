# A specification of the review workflow

TLA+ modules that model the review-workflow service, TLC configurations that
check them on small instances, and theorems about them that the TLAPS proof
system checks for every instance. Paths such as `service.go:219` are below
`src/`; `service.go` is `internal/application/service.go`, `store.go` the
Postgres store, `worker.go` is `internal/jobs/worker.go`.

## The system

| Component | State | Operations | Talks to |
|---|---|---|---|
| HTTP transport (`internal/transport/http/server.go`) | none; one goroutine per call | create, list, get, submit, approve, reject, execution-result, audit | calls the service |
| Application service (`service.go`) | none; the row in the local variable `req` | the workflow rules, authorisation, idempotency, the two worker passes | store, executor |
| Domain (`internal/domain/models.go`) | shapes | `ValidateActor`, `NewID` | |
| Postgres store (`store.go`, `db/migrations`) | five tables: requests, reviews, audit log, idempotency keys, job runs | one SQL statement per method, no transaction | |
| Worker (`worker.go`) | none; the listed batch | every poll: a reminder pass, then an execution pass | service |
| Executor (`executor.go`) | the outside world | simulated provisioning, fails on targets containing `fail` | |
| Bootstrap (`cmd/server/main.go`) | one context per process, cancelled by a signal or a failed listener | start-up, listener, one worker per process, shutdown | everything |
| Configuration (`internal/config`) | the environment, read once | `Load` and its helpers | bootstrap |
| In-memory store (`internal/repository/memory`) | maps | test double of the store | tests |
| Migrations runner (`sqlutil/migrations.go`), tracing (`observability/otel.go`) | the schema; a tracer provider | start-up | Postgres, OTLP |
| Operator UI (`ui/assets/app.js`) | actor, list, selection, detail pane, the calls under way | click a card, change actor or filter, create, submit, decide | transport |

What is hard here comes from one decision: an operation is a sequence of
single statements, not a transaction. A call reads the row, checks it, claims
an idempotency key, updates the row if its version is still the one it read,
and then inserts a review and audit entries. Between any two of these another
call, a worker of this or of another process, a failing store, a client that
goes away (and whose context cancels the next statement) or the end of the
process may come. The properties below are about what survives that:

* **the row**: no update is lost, every change is a legal transition of the
  row it replaces, decisions are made once and by somebody allowed to;
* **idempotency keys**: a key admits one change, and an answer means what it
  says;
* **the audit log**: nothing false, and what may be missing;
* **the worker**: reminders are spaced, attempts counted and bounded, the
  schedule is right, and due work gets done.

Around that core there are three more hard places, each with a component of its
own: the page, whose answers come back in any order while its user goes on; a
server process, where a signal finds main, the listener, calls and the worker's
batch each somewhere else; and the in-memory store, which every test of the
service trusts to behave like Postgres.

## Modules

An arrow points from a module to the one it extends.

```
Domain <- Transitions <- Store <- Handlers <- System <- Properties <- History <- StoreCalls
                               <- Worker   <-        (System extends both)
                               <- StoreContract      abstract: MemoryStore implements it,
                                                     StoreCalls is about it
          Transitions <- Lifecycle                   abstract: System implements it,
                                                     the service behind OperatorUI
          Transitions <- Visibility <- OperatorUI
          Transitions <- MemoryStore
Config <- Process

Properties <- MCSystem, MCWarm        StoreCalls and MCWarm <- MCStoreCalls
OperatorUI <- MCOperatorUI            MemoryStore <- MCMemoryStore
Process    <- MCProcess

RowProofs <- SystemProofs <- RefinementProofs <- DecisionProofs <- ExecutionProofs
RowProofs <- OperatorUIProofs, MemoryStoreProofs              ProcessProofs
```

| Module | Models |
|---|---|
| `Domain` | roles, statuses, actors, the row of `requests` |
| `Transitions` | the rules of `service.go` as functions of a row: the row each operation writes, who may ask for it, which rows the worker selects |
| `Store` | the tables and one operator per SQL statement |
| `Handlers` | the five calls that change state, one action per store call |
| `Worker` | the poll and the two passes, one action per store call and one for the executor; the clock is read in the step before the listing |
| `System` | calls, workers, the clock, store errors, lost answers, restarts of one process or of all |
| `Lifecycle` | the abstract specification: every operation one atomic step on the current row |
| `Properties` | what makes the service correct |
| `Visibility` | the reads: the filter of a listing and `canView`, as functions of the actor and the table |
| `OperatorUI` | the page: one action per event handler, per call served and per answer taken, over `Lifecycle` as the service |
| `StoreContract` | the abstract store: the writes the service makes, in the order a store gets them, and what Postgres answers |
| `History` | `System` with a memory of the rows ever stored and of who wrote which version; the property about refused calls |
| `StoreCalls` | what `System` hands to its store, against `StoreContract` |
| `MemoryStore` | the in-memory store, method by method; implements `StoreContract` |
| `Config` | what `Load` and the constructors make of an environment |
| `Process` | a server process from start-up to its end, and its restarts |
| `MCSystem`, `MCWarm` | the instances TLC checks: from an empty database, and from a used one |
| `MCStoreCalls` | the used database with the history of its rows |
| `MCOperatorUI`, `MCMemoryStore`, `MCProcess` | the instances of the page, the two stores and a process |
| `RowProofs` | lemmas about rows and transitions |
| `SystemProofs`, `RefinementProofs` | theorems about the system: types, no lost update, the refinement of `Lifecycle` and what follows from it, the calls of the store |
| `DecisionProofs` | theorems about the system: keys, decisions, who makes them, the audit log |
| `ExecutionProofs` | theorems about the workers: how often the executor is called, and what the job runs say |
| `OperatorUIProofs`, `MemoryStoreProofs`, `ProcessProofs` | theorems about the page, the in-memory store, a process |

### State and actions against the code

A call's `pc` names the store call that comes next, `row` is the Go variable
`req`, `result` the answer. `submit` goes `load` (`GetRequest`), `lookup`,
`claim` (`ensureIdempotency`), `update`, `audit`, `auditAssigned`; a lost race
for the key goes `recheck`, `reload`. A decision goes `load`, `lookup`,
`claim`, `update`, `review`, `audit`, or `replayLookup`, `replayClaim` when the
row already has that decision. An execution result goes `load`, `update`,
`audit`; a creation `create`, `audit`. The local code between two store calls
belongs to the step of the first: that is where the guards and early returns
are. The clock is read there too, so that a row carries a time as old as the
update is late.

A worker's `pc` is the same for the passes, or `wait` between two polls;
`batch` holds the listed rows not yet handled, `pass` the `now` of the pass. A
pass reads the clock first (`BeginPass`, `service.go:258`, `:287`) and lists
later, so that it may list by a time that is past. `executions` counts for each
worker how often it called `Execute`, the one effect outside the database.
Listings return any
set that `ORDER BY ... LIMIT` may return, and the batch is worked off in that
order, rows of equal times in either.

Abstracted from the data: identifiers, keys and comments are members of small
sets. A fingerprint stands for what is hashed; two different comments have two
fingerprints. Time is an integer, `Nil` a nil pointer. Columns nothing reads
are left out. Tables that only grow are sets of records, with the writer and
the row's version added as history: the code has a random id there. The
`Results` are those of `writeError`, and apart from them `empty`, a 2xx answer
with a zero request, and `lost`, no answer.

Failures are `StoreError` and `WorkerStoreError` (a statement that errs and has
no effect, also because the context was cancelled), `ReplyLost` (any write of a
call that took effect and whose answer is lost), `WorkerReplyLost` (the same of
a worker's update; a worker drops or logs the answers to its inserts, so that
losing one makes no difference) and `Restart`: a process stops at any point of
its calls and its pass and starts again. As it is left open which process serves
a call, some calls are cut off with each worker; with all workers gone, all
are.

The page (`OperatorUI`) keeps a sequence of `flights`, the asynchronous
functions that wait for an answer. An event handler starts one; a `Serve` action
answers it from the table of that moment; a `Take` action runs the code after
the `await`. A call that is refused, or fails before or after it was served
(`Break`), ends its function: what is left of it is a toast. `loadRequests` awaits
`loadSelectedRequest` at its end, which is a flight of its own, with two calls
(request and log) that are answered in either order. The service behind it is
`Lifecycle`, which `System` implements, and `Elsewhere` takes any step of it.
Each click makes a new idempotency key, as the code does with `Date.now()`, so
that keys play no part. `smooth`, `acked` and the two counters are history.

A process (`Process`) is `main`'s `phase`, the `listener`, the number of calls
`inFlight`, those of them `holding` a connection of the pool, the `worker`
goroutine and the context, `cancelled` or not. The ten seconds of `Shutdown` pass
at any moment (`Expire`); it returns when they have, or when no call is left, and
cancels none (`Drain`). `pool.Close` is deferred and waits for every connection
to be given back (`Close`). A listener that fails, at once or later, cancels the
context, and the connections it has accepted are still served. Calls
and passes are those of `Handlers` and `Worker` seen from outside. Every store
call of the worker fails once the context is cancelled, and as
`ProcessDueExecutions` drops those errors, its loop goes on. `log.Fatal` skips
the deferred calls; a panic in the worker ends the process at once. `env` ranges
over records of raw values: `Unset`, `Blank`, `Junk` or what the string parses
to.

`MemoryStore` writes its methods as the code does, over partial maps and slices,
and is driven by the writes the service can make (`StoreContract`): a draft under
a fresh identifier, a change of a row read at any earlier time and computed at
any earlier instant (`Computed`), reviews and audit entries about rows that were
stored, job runs also about results that never were, and claims of a key. The
refinement mapping reads a missing entry as an absent row and numbers the
entries of a slice.

`History` records two things the tables do not keep: `seen`, the rows ever
stored, and `writes`, who wrote which version of a request. `StoreCallsExpected`
of `StoreCalls`, which extends it, says of every call and every worker
that the row it is about to write, review or record is one the contract names.
A claim needs no word there, as the contract allows any key, and that a creation
is a draft under an unused identifier is part of `NoLostUpdate`.

A definition whose name starts with `Faulty` is a plausible slip in the
definition after it. No action uses it; each shows that a property would
notice.

## Runs

| Run | Instance | What it shows |
|---|---|---|
| `decisions` | 1 request, 4 calls out of 12 messages, 1 failure, no worker | `TypeOK`, `NoLostUpdate`, `OneDecision`, `DecidedByReviewer`, `KeyHeldOnce`, `AuditComplete`, `AuditIsTruthful`, `RefinesLifecycle`, `HistoryIsKept` |
| `budget` | 1 request, its creation, submission and approval (or calls refused outright), 1 worker, 4 instants, no failure | `ScheduleMatchesStatus`, `JobRunsAgree`, `RefinesLifecycle` |
| `faults` | 2 used requests, 2 more calls (approvals and reported results), 1 worker, batch 2, 1 failure | `RefusalsChangeNothing`, `NoLostUpdate`, `ExecutionsAreCounted`, `AuditIsTruthful`, `ScheduleMatchesStatus`, `HistoryIsKept`, `StoreCallsExpected` |
| `two_workers` | the same database, 2 workers, batch 2, 4 instants, 1 failure | `RemindersAreSpaced`, `AuditComplete`, `ExecutionsAreCounted`, `ExecutionsAreBounded` |
| `liveness` | the same database, and the same with both requests waiting for their review; 1 worker, batch 1, the instants 1 to 3, an approval, 1 failure | `DueExecutionsHappen`, `DueRemindersHappen` |
| `page` | 2 requests, one of them pending, 3 personas, 2 filters, 2 events, 2 steps of others | `ListedCanBeOpened`, `SettledPage`, `AckedIsShown`, `OfferedIsAllowed`, `PageTypeOK` |
| `parity` | 2 requests, 3 versions, 2 entries or keys, 2 instants | `MemoryImplementsPostgres`, `ListingsAgree`, `ExecutionsListedAlike`, `RemindersListedAlike` |
| `process` | 1728 environments, 2 migrations, 2 calls, 3 due requests | `ServesMigrated`, `ServesSoundly`, `CallsCutOffForCause`, `UnrecordedAtMostBatch`, `SignalledProcessEnds`, `ProcessTypeOK` |

Bounds. `MaxTime` and `MaxFaults` bound the clock and the failures, the number
of `Calls` the messages. One request is enough for decisions, as no operation
reads a second one; two are there where the worker's batch matters, with
`BatchSize` 1 to make one wait for the other. Four calls are a creation, a
submission and two that compete; three would leave no race of two decisions.
`MaxAttempts` is 2, so that there is a failed attempt with and one without
another to come, and with `ReminderAfter` and `RetryBase` 1 three ticks are
enough for two attempts and two reminders. One failure reaches every place of
a failure, and a second one adds no step the first does not have. The calls are
interchangeable, hence symmetric, in `MCSystem` and in the safety runs `faults`
and `audit_lost`, the workers in `two_workers`; the runs with fairness have no
symmetry. The runs without a worker end when every call is answered: they
say `CHECK_DEADLOCK FALSE`. A worker never stops, and the other runs check deadlock.

`MCWarm` starts from a database people have used before: `r1` waits for its
review, `r2`, whose provisioning fails, is approved. The calls that brought it
there are finished; it is a state `System` reaches. `MCStoreCalls` starts there
too, with the five rows the two requests have had as `seen` and their writers as
`writes`; a report or the failure makes the worker record a result that was not
stored.

For the reminders of `liveness` the used database is not enough, as only one of
its requests waits for a review. The run therefore starts from a second one as
well, that of the moment before the approval of `r2`: two requests submitted at
the same moment, due for a reminder at the start and again one instant
after each, a batch of one, and a failure or a restart to spend. The
listing takes either of the two, and both orders are explored, so that `LIMIT`
does keep a request out of a batch. The bounded clock is part of the claim:
`DueRemindersHappen` holds because the requests in front come due again only
finitely often. It is false without that; see the starved reminders below.

The page starts loaded, with its first request selected: the first list is the
function `Refresh` starts again, and the theorems about the page are proved from
`PageInit`, with any number of events. Two events are enough for every pair of
functions that race (what they start, and what the answers to those start), and
two steps of others put a change before a list and one between it and the load that follows. `MaxEvents`
and `MaxElsewhere` are the only bounds; at rest with both used up the page
stops, hence `CHECK_DEADLOCK FALSE`. In `parity` three versions let a row be
stale by one and by two and be due for a reminder or an execution, and two
requests exceed a limit of one; `MaxVersion`, `MaxEntries` and `MaxTime` bound
it, and it stops there. The requests are interchangeable, hence symmetric. In
`process` the only bounds are `MaxCalls` and `MaxDue`: three due requests exceed
batches of one and two, and the default batch of 25 is not exceeded. There is
one migration in the repository; two show the order and what a half-applied set
does. Environments differ where the code does something with a value. Restarts
are not bounded: the states repeat.

Fairness of the service. `FairSpec` of `System` asks weak fairness of each
worker's step and of nothing else: `main` starts `Worker.Start` in a goroutine
of its own, its loop does not end while the process lives, and every pass ends
(`worker.go:37`). Clients need never send anything, calls may hang, the clock may
stand still. Restarts and errors are finitely many, by `MaxFaults`: a store that
fails for ever executes nothing.

Fairness of a process. `FairSpec` of `Process` asks weak fairness of `main`'s
own statements and of `Expire`: pings and migrations answer or fail, the ten
seconds of `Shutdown` (`main.go:86`) pass, and `pool.Close` returns once no
connection is held. Nothing is asked of calls, of the statements they hold a
connection for, of the worker, or of whoever sends the signal. Hence
`SignalledProcessEnds` does not say that the process ends: it ends, or it is at
`pool.Close` for good.

### Where the code does not keep a promise

Four runs check a promise the repository makes and find a behaviour that breaks
it.

* `audit_lost`, `AcknowledgedIsAudited`: the README promises an audit entry for
  every transition. A decision is an update and two inserts
  (`service.go:219`, `:222`, `:232`). When the statement after the update fails,
  the call is answered with an error and the transition has no entry; the retry
  with the same key finds the request decided, is answered 200 as a replay
  (`service.go:173`), and writes nothing. Without failures the log is complete:
  that is `AuditComplete`.
* `burned_key`, `AcknowledgedChangeHappens`: a key is recorded before the
  update. When the update is refused, for instance because a reminder raised
  the version, the retry with the same key is taken for a replay and answered
  200 with the request still pending (`service.go:197`). No call with that key
  can decide any more.
* `empty_answer`, `SuccessCarriesRequest`: a repeated decision with a blank
  key, or with a key used for another comment, gets 200 and a zero request: the
  error is shadowed (`service.go:174`, `:177`).
* `replay`, `ReplayIsAnswered`: a replayed approval is refused with a conflict
  once the worker has executed the request (`service.go:185`), where the
  failure page promises the current state.

Other behaviours are worth knowing, and the properties are stated around them.

* With two worker processes, or a result reported by hand, `Execute` may be
  called more often than the row counts: the version check protects the row and
  not the effect. What holds is a bound for each worker by itself:
  `ExecutionsAreCounted` and `ExecutionsAreBounded` allow every one of them one
  call for each attempt and each failure. With one worker and no failure they say that nothing is
  provisioned behind the row's back; with two, that a rolling restart can at
  most double the attempts.
* Results reported by hand carry no idempotency key (`service.go:238`), though
  the architecture page asks for one on mutating actions: a repeated report
  counts as another attempt.
* A job run says `succeeded` from the executor's answer alone, also when the
  row's update was refused, so that `JobRunsAgree` is stated for one worker, no
  failures and nobody reporting results by hand.
* A shutdown does not wait for the worker, and its loop does not look at the
  context: up to a whole batch is provisioned without a record, and again after
  the restart. `UnrecordedAtMostBatch` says it is never more, which rests on the
  listing failing once the context is done.
* A poll interval of zero or less is accepted and brings the process down after
  it has begun to serve (`worker.go:38`), with the calls in flight. The checks of
  `DEFAULT_REVIEWER_ID` and `OTEL_SERVICE_NAME`
  (`config.go:51`, `:60`) can never fail, as both have fallbacks, and a reviewer
  of blanks passes and is trimmed to nobody. A sample ratio of `NaN` passes the
  check of its range (`config.go:63`).
* Reminders can starve. The listing takes the oldest submissions first
  (`store.go:279`), and a request is due again `ReminderAfter` after its last
  reminder. When more requests wait for their review than a batch of the worker
  serves in that time, the oldest are always due again in front, and the later
  ones are never reminded of.
* A shutdown may hang. `Shutdown` gives up after ten seconds but does not cancel
  the contexts of the calls it leaves behind (`main.go:88`), and the deferred
  `pool.Close` waits for every connection (`main.go:50`): one statement that
  never returns keeps the process.
* The page shows answers in the order they arrive. When the answer to an earlier
  click comes last, the pane, labelled "Selected request" (`ui/index.html:124`),
  shows another request than the selected one, while its buttons act on the
  selected one (`app.js:231`); likewise between a list that moves the selection
  and the load that follows it. A list that came back empty may be followed by
  the load of an earlier click, which leaves a pane with nothing selected.
  `SettledPage` and `AckedIsShown` are stated for answers that come in order and
  do not fail.
* The page offers an admin to decide a request of their own, which the service
  refuses; `OfferedIsAllowed` names this one exception. The service in turn lets
  an admin submit a draft of somebody else (`service.go:357`), for which the page
  has no button: what is offered is allowed, not the other way round.
* A reviewer who asks `ListRequests` for a requester by name lists requests that
  `GetRequest` refuses them (`service.go:103`). The page never does, and
  `ListedCanBeOpened` is about what the page asks for.
* The in-memory store omits a request reminded exactly one interval ago, which
  Postgres lists (`memory/store.go:142`), and takes any due requests up to the
  limit, in the random order of a map, where Postgres takes the oldest. A limit
  that is not positive is no limit there and 25 in Postgres; a row that does not
  exist is `ErrNotFound` there and `ErrConflict` in Postgres. The service asks
  for neither. `docs/architecture.md:35` calls the store "fast and
  deterministic".

## Theorems

Proved for every set of requests, users, targets, calls and workers, every
configuration that meets the assumptions, and any number of failures and ticks,
of events and answers on the page, of migrations, calls and due requests:

| Theorem | States |
|---|---|
| `SystemProofs!TypeCorrect` | `Spec => []TypeOK` |
| `SystemProofs!NoLostUpdateHolds` | `Spec => []NoLostUpdate` |
| `RefinementProofs!LifecycleRefined` | `Spec => RefinesLifecycle` |
| `RefinementProofs!HistoryIsKeptHolds` | `Spec => HistoryIsKept` |
| `RefinementProofs!RemindersAreSpacedHolds` | `Spec => RemindersAreSpaced` |
| `RefinementProofs!ScheduleMatchesStatusHolds` | `Spec => []ScheduleMatchesStatus` |
| `RefinementProofs!StoreCallsExpectedHolds` | `RecordedSpec => []StoreCallsExpected` |
| `DecisionProofs!KeyHeldOnceHolds` | `Spec => []KeyHeldOnce` |
| `DecisionProofs!OneDecisionHolds` | `Spec => []OneDecision` |
| `DecisionProofs!DecidedByReviewerHolds` | `Spec => []DecidedByReviewer` |
| `DecisionProofs!AuditIsTruthfulHolds` | `Spec => []AuditIsTruthful` |
| `DecisionProofs!RefusalsChangeNothingHolds` | `RecordedSpec => []RefusalsChangeNothing` |
| `DecisionProofs!AuditCompleteHolds` | `Spec => []AuditComplete` |
| `ExecutionProofs!ExecutionsAreCountedHolds` | `Spec => []ExecutionsAreCounted` |
| `ExecutionProofs!ExecutionsAreBoundedHolds` | `Spec => []ExecutionsAreBounded` |
| `ExecutionProofs!JobRunsAgreeHolds` | with one worker, no failures and no results reported by hand, `Spec => []JobRunsAgree` |
| `OperatorUIProofs!PageTypeCorrect` | `Spec => []PageTypeOK` |
| `OperatorUIProofs!ListedCanBeOpenedHolds` | `Spec => []ListedCanBeOpened` |
| `OperatorUIProofs!SettledPageHolds` | `Spec => []SettledPage` |
| `OperatorUIProofs!AckedIsShownHolds` | `Spec => []AckedIsShown` |
| `OperatorUIProofs!OfferedIsAllowedHolds` | `Spec => []OfferedIsAllowed` |
| `MemoryStoreProofs!MemoryStoreImplements` | `Spec => MemoryImplementsPostgres` |
| `MemoryStoreProofs!ListingsAgreeHolds` | `Spec => []ListingsAgree` |
| `MemoryStoreProofs!ExecutionsListedAlikeHolds` | `Spec => []ExecutionsListedAlike` |
| `MemoryStoreProofs!RemindersListedAlikeHolds` | `Spec => []RemindersListedAlike` |
| `ProcessProofs!AcceptedIsSound` | accepted settings satisfy the assumptions of `Transitions` and `Worker` |
| `ProcessProofs!ProcessTypeCorrect` | `Spec => []ProcessTypeOK` |
| `ProcessProofs!ServesMigratedHolds` | `Spec => []ServesMigrated` |
| `ProcessProofs!ServesSoundlyHolds` | `Spec => []ServesSoundly` |
| `ProcessProofs!CallsCutOffForCauseHolds` | `Spec => CallsCutOffForCause` |
| `ProcessProofs!UnrecordedAtMostBatchHolds` | `Spec => []UnrecordedAtMostBatch` |

`RecordedSpec` is `Spec` with the history of module `History`. What the less
obvious ones do not say: `ListingsAgree` compares sets of rows and no order;
`ExecutionsListedAlike` says that what Postgres may return for a limit the
in-memory store may return too, and the converse only when no more are due than
the limit; `RemindersListedAlike` compares the due requests before any limit.

Assumptions. `NilAssumption`: nil is no time and no row. `UsersAssumption`,
`TargetsAssumption`: non-blank strings, as `ValidateActor` and `CreateDraft`
check. `ConfigAssumption`: the reviewer is a user or, as `NewService` trims
what `Load` let through, empty; the two durations are any integers, negative
ones included; the attempts are positive, as `Load` checks.
`TrafficAssumption`: what the handlers let through. `BatchAssumption`:
`NewWorker` replaces a batch size that is not positive. `WritersAssumption`: a
goroutine that answers a call is not a worker. `BoundsAssumption`
and `MemoryAssumption` type the bounds of the runs; no proof uses them.
`PageAssumption`: the page's personas are actors and its filters statuses.
`ValuesAssumption`: absent, blank and malformed values are no names and no
numbers. `ProcessAssumption` types the instance. `AcceptedIsSound` is what ties
`ConfigAssumption` and `BatchAssumption` to the code: they hold of every
environment `Load` accepts. Only `JobRunsAgreeHolds` has hypotheses of its own,
since without them it is false (see above): one worker, no failures, and
`NobodyReports`: no message of the traffic is a result reported by an actor who
may. Calls that are refused it are allowed, as in the run `budget`.

The argument. `TypeOK` alone is not inductive: that the table holds rows
depends on what calls are about to write, and that depends on what they read.
The inductive invariant is `Inv == TypeOK /\ NoLostUpdate`. `NoLostUpdate` says
of every row in somebody's hands that it is a version of the stored one
(`IsVersionOf`): equal to it, or older. A row about to be written is
`IsSafeWrite`: if its version is the next one, it is a transition of the stored
row. The table only ever `Grows`: a row that changes gets the next version.
From that, both predicates survive the steps of others (`VersionSurvives`,
`SafeWriteSurvives`): if the row was left alone nothing has changed, and if it
was not the version check will refuse the write. This is the whole argument for
optimistic locking, and it is where the version in the `WHERE` clause is used;
`FaultyUpdateMatches` drops it and breaks it. `CallMoves` and `WorkerMoves`
carry it through one step of one actor, and every action is an instance of one
of the two.

`LifecycleRefined` follows: a write that passes the version check is safe,
hence one transition of the current row, hence a step of `Lifecycle`
(`WriteIsAStep`), and all other steps leave the table alone. The mapping is the
identity on `requests` and `now`. `HistoryIsKept`, `RemindersAreSpaced` and
`ScheduleMatchesStatus` are consequences of lifecycle steps, and are proved from
`IsTransition` without another look at the concurrency.

`StoreCallsExpectedHolds` needs two more facts. `SeenRows`: the stored rows are
among those seen, which are rows and never fewer. `Held`: what a call or a worker
read is among them, and what it is about to write is a change of one of them,
computed at an instant that has passed. A row in hand does not become wrong by
the steps of others (`ExpectationsGrow`), however stale, since both sets only
grow; so it is enough to look at each actor's own step, the lemmas whose names
end in `Carries` for a call and in `Bears` for a worker. Together with
`MemoryStoreImplements` it says that the test double serves this service as
Postgres would: the calls that theorem is about are those the service makes, but
for the actor and the kind of a record, which neither store looks at.

`DecisionProofs` looks at every action once and records its shape: a step of a
call is a `CallMove` (it begins, reads, claims, creates, updates, reviews,
audits, or is answered), one of a worker a `WorkerMove`, and the rest `Crashes`
or `Waits` (lemma `Moves`). The invariants are then carried over shapes, not
over actions. Each is a property with what it leaves out:

* `KeyHeldOnce` says that two calls past `claim` do not share a key. It holds
  because such a call's record is in the table (`KeysRecorded`), and a claim
  fails if there is one: the unique index of `db/migrations` at work.
* `OneDecision` needs `Reviewed`: a review in the table, or in the hands of a
  call at `review`, is the decision the row has had since. It rests on
  `TransitionKeepsDecision`: no transition leaves a decided status for another
  decision. `Choosing` says that the row a call to review is about
  to write carries its decision.
* `DecidedByReviewer` needs `Authorised`: whoever is past the check may still
  decide what they are about to write, though they were checked against the row
  of an earlier moment. `PermissionStands` is why: nothing takes the reviewer
  away from a row.
* `AuditIsTruthful` needs `Truthful`: between the update and the insert, the
  version written belongs to one writer (`HeldOnce`), which no entry speaks of
  yet, but for the first of the two a submission makes. A writer takes a version
  when it updates, and the version is new then, so that no two take the same.
* `RefusalsChangeNothing` needs `WritersEntitled`: a call that wrote a version is
  at one of the inserts after its update, or was answered with success, with a
  server error or not at all. A refusal comes before the write, or is what the
  update itself answers when it writes nothing.
* `AuditComplete` is inductive together with `Inv`: a version is given up
  (`DutiesPassOn`) by an entry, or by a failure, which is counted.

`ExecutionProofs` has one invariant, `Counting`. Neither bound is inductive,
because a worker executes on rows it listed, and writes rows it computed, some
time ago. First, a listed row has attempts left, and is current or was
`Overtaken`: as every change of a row that waits for its execution is an
execution (`TransitionCounts`), somebody else has counted an attempt in its
place. The same is said of the computed row. Of the table, `Fresh` says that
nothing counts an attempt before the approval. Second, the calls themselves are
kept in `Slot`, one inequality for each worker and request: a worker has one
call for each attempt the row counts, as far as `MaxAttempts`, and for each
failure. Beyond these, one that holds the result of the next attempt has called
(`Spent`), and one that holds a row of an earlier attempt still owes the call
there is room for (`Owing`). An execution on a current row makes its worker
`Spent`, one on an overtaken row settles what it owed (`SlotWhenExecuted`). When
the row counts one more (`SlotWhenCounted`), by a worker's own update, by that of
another or by a result reported by hand, a spent worker is paid for, and one that
still lists the row owes: a batch lists each request once and its worker holds no
result for it, so that no worker is both. A worker that gives up a result without
an update does so by a failure, since a result of the next attempt follows the
stored row and is not refused (`SpentRow`). As the inequality is one worker's
own, the number of workers plays no part, and one that executes much cannot use
what another leaves. TLC checks `Counting` on the
instance of `two_workers`, and with a call added that approves or reports a
result.

`JobRunsAgree` adds `JobsInv`. Calls never change a count (`Leaving`: the row a
call is about to write has the counts of the row it may replace), and they leave
a row alone that waits for its execution or has its result (`CallsSpare`).
Hence what the one worker holds is `Current`: rows listed for execution are the
stored ones, and the update of a result is never refused (`ResultIsAccepted`).
A step of the worker then works, counts or records (`JobMoves`). The runs of a
request and the one that is owed are as many as the row counts (`Tallied`). As
the runs are a set, this needs that the inserted one is new: those that are
there have attempts below the count while one is owed. That the run which
succeeded is the last (`Outcomes`) holds since nothing is counted on an executed
row.

`ListedCanBeOpenedHolds` needs an invariant about answers under way: every
identifier in a list, or in an answer that carries one, is readable for the
actor who asked. It survives the steps of others because `CanView` only ever
grows: a row changes by transitions of `Lifecycle`, none of which changes the
requester, and only a draft, which no reviewer was shown by assignment, gets a
reviewer. That what the listing selects is readable at all (`ListedIsReadable`)
is where the two rules of `service.go`, the filter at line 98 and `canView`,
meet. `OfferedIsAllowed` needs no invariant: it compares the page's rule for a
button with the service's, on a row the page has and the table still holds.

`SettledPageHolds` and `AckedIsShownHolds` are about a page whose answers have
come in order (`smooth`). At rest it shows what it is about; on the way there, it
is `ComingFresh`: a function is under way that will start over (`Renewal`: a
listing for the present actor and filter, or a change, which ends in one, with
nothing but loads behind it), or the list is right and the last load is of the
selected request (`Settling`), with an answer not older than the last change
acknowledged. That the last one started is the last one answered is what `smooth`
adds. TLC finds no state of the run `page` outside of `ComingFresh`.

`MemoryStoreImplements` rests on `MapsOK`, the types of the maps and of the rows
ever stored. Each method is matched with the statement it stands for: `With` on
the map is `EXCEPT` on the table; an appended entry is the record numbered one
past those about its request, as the entries of a slice and the records about its
request are as many (`CountByWriter`, a bijection). `ListingsAgree` needs no
invariant; the two about the worker need that rows are rows and finitely many.

`ProcessInv` is inductive: on the way up nothing but `main` exists and the
migrations before `next` are applied; calls and the worker live only while
`main` is up, the listener is open only before the shutdown, and past `Drain` a
call is in flight only after the deadline, which is what `CallsCutOffForCause`
needs. For the batch,
executions not recorded and requests still in hand together never exceed the
batch size, and while the context is alive nothing but the request at hand is
unrecorded.

Only model-checked: the three liveness properties, which stay with TLC for good:
liveness under fairness is beyond the prover.

## Not modelled

* The refusals before the service: a missing actor, a malformed body. The health
  checks, which change nothing.
* The order and the scanning of listings, and the audit log as the page shows
  it: texts and layout.
* A store on which two statements of one call see different databases:
  Postgres runs each statement in a transaction of its own, and a single-row
  `UPDATE` is atomic.
* Overflow: versions, counters and times are unbounded; the code's are 64 bits
  wide and grow by one.
* Two processes that run migrations at once: the statements are idempotent, and
  an error one of them gets from the other is a failed migration like any other.
* Spans and exporters, texts and layout of the page.

## Plan

Nothing is left of it: the system is modelled, every invariant and action
property the runs check is proved, and so is every refinement. The three
liveness properties stay with TLC. A change of the code starts in `Transitions`,
`Handlers` or `Worker`; `RowProofs` and `SystemProofs` say first whether it broke
something.
