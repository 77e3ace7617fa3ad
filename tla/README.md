# WorkPulse: TLA+ models and proofs

WorkPulse is a NestJS service for work-time tracking: employees start and stop
work sessions, a desktop client sends activity intervals one by one or in
batches, background jobs raise alerts and write daily summaries, and a
WebSocket gateway announces events. State lives in PostgreSQL (TypeORM 0.3.28)
and in Redis (BullMQ queues). But for the open sockets, nothing is kept in
process memory between two requests, so whatever goes wrong goes wrong *between
two queries* of handlers that run at the same time, or that stop half way.

That is what these modules model: each awaited query of a handler is a step of
its own, together with the code that follows it up to the next query; between
two steps any other handler may run, a query may fail, or the container may
stop. The source paths below are relative to the repository; the services are
in `src/modules/*/*.service.ts`.

## 1. Inventory

| component | state | operations | hard behaviour | correct means |
|---|---|---|---|---|
| Work sessions (`sessions.service.ts`, `work-session.entity.ts`) | rows of `work_sessions`: status, times, two totals, `version` | `startSession`, `stopSession`, `updateSessionTotals`; two getters | read-modify-write over two queries that nothing guards, check-then-insert without a constraint, lost acknowledgements | every successful addition is counted once and for good; a stopped session is frozen; one active session per user - and where overlapping handlers break this, nothing but an outdated write does; every handler ends |
| Activities (`activity.service.ts`, `activity-log.entity.ts`) | rows of `activity_logs` (partitioned, unique index), a database transaction | `logActivity` (two transactions), `bulkUploadActivities` (one) | statements that fail inside a transaction, waits on uncommitted keys, deadlocks, repeated uploads | log and totals agree; uploads are atomic and repeatable; deadlocks only where the sort cannot prevent them |
| Idle detection (`idle-detection.processor.ts`) | reads sessions and logs, writes `alerts` | `process` | two workers at once, stale list of sessions, attempts after a partial failure | no second open alert for the same reason; no alert for a closed session |
| Overtime check (`overtime-checker.processor.ts`) | reads sessions, writes `alerts` | `process` (no producer puts a job into its queue) | as above | at most one alert per user and day |
| Daily summary (`daily-summary.processor.ts`) | reads sessions and logs, upserts `daily_summaries` | `process` | two reads that are not one snapshot, one job run twice at once, attempts | the last summary of a quiet day equals its sessions; its two halves agree |
| Job queues (`jobs.module.ts`, `jobs.controller.ts`) | jobs in Redis, 3 attempts, exponential backoff | `triggerDailySummary`, `triggerIdleDetection`; delivery to the processors of the `api` and the `worker` container | stalled jobs are delivered again | each job is processed, or has used its attempts |
| WebSocket events (`events.gateway.ts`, `events.service.ts`, `ws-jwt.guard.ts`) | `client.data.user` and the rooms of the open sockets | connect, disconnect, `session:request-state`, the two alerts | a connection hook that depends on a guard; the guard and `getActiveSession` are awaited | a client with a valid token is let in |
| Registration and login (`auth.service.ts`, `jwt.strategy.ts`) | `organizations`, `users` | `register`, `login`, `validate` | two saves without a transaction, check-then-insert behind a unique index, emails unique per organization but searched in all | one user per email and organization; no organization without a user but after a failure; who has registered can log in |
| Users and projects (`users.service.ts`, `projects.service.ts`) | `projects` | `createProject`, two lists | lists beside inserts | lists are complete and of one organization |
| Reports (`reports.service.ts`) | none of their own | reads | - | access rules |
| Schema (`migrations/*`) | tables, indexes, four monthly partitions | run once | partitions run out | a failing INSERT undoes its upload |
| Exception filter, guards (`common/*`) | none | an error becomes a status and a code | errors that are no HttpException | the code says what happened |
| Interceptors, request ids, health, configuration | none | per request | - | - |

How they interact: `logActivity` calls `updateSessionTotals`;
`bulkUploadActivities` reads and saves the session row itself, inside its
transaction; the jobs read the tables the handlers write, and hand their alerts to
the sockets of their own process; every request with a token reads the row of its
user first. Otherwise the parts share only the database.

`PROJECT.json` lists these parts under `components`, with what is modelled of
each, and under `hazards` the lines at which they can go wrong.

## 2. Modules

| module | models | |
|---|---|---|
| `WorkSession` | a row of `work_sessions` and what `repository.save` writes of it | operators only |
| `Sessions` | `SessionsService` | state machine |
| `Activity` | `ActivityService`, composed with the handlers of `Sessions` | state machine |
| `Ledger` | what the session table promises: open, credit, close, and overwrite on record; the refinement mapping is at the end of `Sessions` | abstract specification |
| `Jobs` | the BullMQ queues and their consumers | state machine, to be composed |
| `Alerts` | `IdleDetectionProcessor` and `OvertimeCheckerProcessor`, beside the handlers of `Activity`, over `Jobs` | state machine |
| `DailySummary` | `DailySummaryProcessor`, beside the handlers of `Activity`, over `Jobs` | state machine |
| `Accounts` | `AuthService`, `ProjectsService`, `UsersService`, the guards and the exception filter | state machine |
| `Presence` | `EventsGateway`, `EventsService`, `WsJwtGuard` | state machine |
| `MCSessions`, `MCActivity`, `MCAlerts`, `MCDailySummary`, `MCAccounts`, `MCPresence` | constants and symmetry for TLC | model checking |
| `WorkSessionProofs` | the sums in the columns of seconds | lemmas |
| `SessionsProofs`, `LedgerProofs`, `ActivityProofs` | theorems about `Sessions`, its refinement of `Ledger`, and `Activity`; each builds on the one before | proofs |
| `BackgroundProofs` | what every step of `Activity` and of `Jobs` keeps, for the jobs that read | lemmas |
| `AlertsProofs`, `SummaryProofs` | theorems about `Alerts` and `DailySummary`, on `BackgroundProofs` | proofs |
| `AccountsProofs` | theorems about `Accounts` | proofs |

**Rows and totals.** The two columns of seconds are sums. The model keeps where
a sum comes from: a column is a *tally* that says how often each activity is
counted in it, and `Total` is the integer the database stores. This is what
makes "counted twice" and "lost" visible; it forgets nothing the code looks at,
because the code looks at a total only by comparing integers
(`ChangedColumns`, where TypeORM decides which columns to write) and by adding.
Columns nothing changes after the insert are left out. The durations (`Secs`) are
integers: those of a bulk upload are validated by nothing and may be zero or
negative, those of `logActivity` are positive.

**`save()`.** For a row that exists TypeORM loads the row again, compares it
with the entity in memory, and updates the columns that differ, to absolute
values, in a transaction. `SaveLoad` is the load, `SaveUpdate` the UPDATE and
COMMIT. They are one step: no other statement of the transaction lies between
them, and a second UPDATE of the same row waits for the COMMIT. An entity's
field that nobody has changed in memory, but somebody else has changed in the
table, differs too and is *written back* — this is how a stopped session can
become active again.

**Version column.** `README.md` says `save()` throws when the version has
changed, and `updateSessionTotals` has a retry loop for that error
(`sessions.service.ts:127-140`). TypeORM 0.3.28 counts a `@VersionColumn` up and
compares it only when a caller asks for `lock: { mode: 'optimistic' }` in a find; no
caller does. So no `save()` ever throws that error, a second turn of the loop is
never taken, and the models have neither the column nor the retry: overlapping
handlers overwrite each other, in every run.

**History variables.** What overlapping handlers still promise is stated with
`since` (for a handler that holds a row object: the sessions that have changed since
it read) and `raced` (the sessions that have been written to by a handler that had
read too early, `Outdated`). `Alerts` and `DailySummary` add `changed` and `known`,
what was written since a job began and what was in the log then. No action reads
them: `History` and `JobHistory` derive their next values from what a step did.

**Handlers.** `pc[r]` is the query request `r` awaits (`insert`, `totals`,
`load`, `update`, `reply`, and in `Activity` `log` and `item`), `frame[r]` its
local variables. `StartSession`, `StopSession`, `LogActivity`, `BulkUpload` are
the first `findOne` of a handler with the checks behind it; a request enters
with inputs chosen freely. `CallTotals` stands, in `Sessions` alone, for a
caller of `updateSessionTotals`. A request ends `ok`, `rejected` (4xx from a
check), `failed` (a query or a later check), or `lost` (the container stopped).
`reply` separates the COMMIT from the answer: a crash there is the lost
acknowledgement after which a client cannot know what happened.

**Transaction of a bulk upload.** `tx[r]` holds the loop index, the activities
inserted so far and whether a statement has failed. Rows inserted and not
committed (`HeldBy`) block an INSERT of the same key by another transaction
(`WaitsFor`); a cycle of waits is broken by failing one member
(`DeadlockVictim`). After a failed statement PostgreSQL refuses every further
one of the transaction (`poisoned`); a COMMIT of such a transaction is a
ROLLBACK reported without an error, which is why an upload that consists of one
duplicate succeeds and one of two fails. `SaveUpdate(r) /\ CommitRows(r)` is the
COMMIT that makes log rows and totals visible together.

**Partitions.** The migration creates the partition of the month it runs in and
those of the next three (`HasPartition`); nothing creates another. An INSERT with
any other timestamp fails like every failing query. In the runs the last of the
four months ends while the session goes on, so that a batch can begin inside and
end outside of it.

**Accounts.** A row's id is the request that inserted it, and `ask`, the body of
that request, has its columns; only `organization_id` (`org`) is worked out by the
handler. `register` has three queries and no transaction: INSERT of the
organization, findOne of the user, INSERT of the user behind a foreign key and a
unique index (`Admitted`). The hash of a password is awaited, too, and belongs to
the step of the query after it: nothing is read in between. `findOne` of `login`
takes any of several rows. A client knows the ids it has been sent
(`KnownOrganizations`), the tokens it has been given (`TokenHolders`), and may make
up an id (`Elsewhere`). An exception is its code in the answer (`ErrorCode`): this
is all a client can tell apart. Rows are not changed or deleted by any code.

**Presence.** A socket goes from `handshake` to `open` or `refused` in
`handleConnection`. `client.data.user` is set by `WsJwtGuard` alone, which NestJS
runs for message handlers and not for connection hooks, its `@UseGuards` there
notwithstanding; so a socket is always refused, and the actions of an open one
are never taken. They are there as the code has them.

**Jobs beside handlers.** `Alerts` and `DailySummary` extend `Activity`: the jobs
run between any two queries of the handlers, so a job can read the row between a
stop's `findOne` and its save, and the old totals that save writes back afterwards.
`RequestsNext` is a step of the handlers, a crash or the clock. A sum of seconds of a
summary is the set of activities it is made of, which loses nothing, since none is
counted twice in a session (`CountedOnce`, proved).

**Queues.** The `api` and the `worker` container run the same program, so each
process has one consumer of each queue (`Consumers`), which processes one job at
a time. `Take` gives a job to a free consumer and locks it; `Throw` counts an
attempt and delays the job or fails it; `Stall` is what BullMQ's stalled check
does with a job whose lock ran out - because its process stopped (`Recover`) or
was too slow to renew it and goes on all the same (`LockExpires`): it waits
again, once. The consumer that goes on no longer decides about the job
(`Holds`).

**Processors.** `at[c]` is the query consumer `c` awaits, `local[c]` its local
variables: the list it has read and what is left of it, the element the loop is
at, and the time it began. The order of a list is the database's choice. An
alert remembers the process that inserted it (`by`), for the properties only.
`Existing` is the search for an existing alert as it runs: `resolved_at: null`
is dropped by TypeORM from the `where` of the idle job, and nothing ever
resolves an alert. The event emitted after an insert reaches only sockets of the
same process (`Alert` in `Presence`) and is left out.

**Time** is a counter with a bound; timestamps are small integers before the
session's start, in a partition, in no partition, and beyond the clock skew.

## 3. Runs

| run | configuration | shows |
|---|---|---|
| `SessionsOverlap` | 3 overlapping requests, two of every kind and one that starts or stops, 2 sessions of one user, faults | types; nothing counted twice; totals, stopped sessions and the one active session are lost to nothing but an outdated write; refinement of `Ledger`; every handler ends |
| `LostUpdate`, `TwoActiveSessions` | 2 overlapping requests | findings, below |
| `ActivityOverlap` | 2 overlapping requests of every kind, 12 batches, faults | atomic uploads, no duplicate rows, nothing counted that is not logged, nothing logged that is not counted unless raced, nothing counted twice, deadlocks only among equal timestamps, every request ends |
| `ReuploadFails` | 2 uploads one after the other | finding, below |
| `UploadAfterStop` | an upload and a stop that overlap | finding, below |
| `AlertJobs` | 1 job of either queue, 2 processes, 2 users with a running session each, 1 request with uploads, 2 attempts, 1 fault | a process repeats no alert; nobody who worked is called idle; an idle job that ends has overlooked no quiet session |
| `RepeatedAlert` | 1 idle job, 2 processes, 1 fault | finding, below |
| `SecondSessionUnalerted` | 2 idle jobs, 1 process, 2 sessions of one user, 3 requests, no faults | finding, below |
| `SummaryJobs` | 1 job, 2 processes, 2 sessions of one user, 2 overlapping requests, 2 attempts, any number of faults, under fairness | application usage covers the totals; the totals of a quiet day are exact; the job ends |
| `Accounts` | 2 founders with one email and two passwords, 2 overlapping requests of every kind, 2 emails, faults | unique emails, orphans only after failures, honest conflicts, the right user at login, nobody forgotten, complete lists of one organization |
| `ClientsRefused` | 2 sockets of 2 colleagues | finding, below |

**Bounds, and why they are enough.** `Requests`: every race here is between two
handlers; the third of `SessionsOverlap`, whose seconds are 0 so that `logActivity`
refuses them, starts or stops a session: it undoes or hides the effect of the two. `MaxInFlight` bounds how many run at the same time; it is
as large as `Requests` wherever a run asks about overlap. `MaxBatch` 2: order, ties,
repeats, a failure after a success. `Secs` gives requests different durations, and in
`ActivityOverlap` two that cancel each other and one that is zero: then `save()` leaves
a column out. `SessionIds` bounds the inserts (`IdLeft`: `startSession` runs only
while an id is left). `MaxTime` bounds `Tick`; it is 0 where no property depends on
the time a row carries.

For the jobs: one job is enough to have two consumers at work on it, because a
lock may run out while its holder goes on. `Attempts` is 3 in the code, 2 here: a
first, and one after a failure. `MaxFaults` bounds what goes wrong with a job of
`Alerts` (a failed query, a restart, a lock that runs out): one fault of each kind, at
every step, and the attempt after it. Several in a row, a job that goes from one
process to the other and back among them, are met in `SummaryJobs`, where faults are
unlimited, and in the proofs. The handlers have no faults of their own in these
runs (`Faults`): to a job, a handler that fails is one that stops writing, which it may
do anyway. The opened sessions of `AlertJobs` had their last activity so long ago
(`Abandon`) that both thresholds are over when the clock starts; the batches carry
active and idle time, recent and old, and may arrive before, between or after the job's
queries. The duration of an activity is such that one idle activity is idle time
enough. `DayLength` 1 lets midnight fall between any two steps of an overtime job.

`AlertJobs` has one handler at a time beside the job, because two would be too many
for the run: what stale saves of two handlers do under the eyes of an alert job is left
to the proofs, which bound neither. `SummaryJobs` has two that overlap: `r1` logs,
starts or stops, `r2`, whose seconds are 0 so that `logActivity` refuses them, starts or
stops. That is enough for a stop to write old totals back between a job's queries.
`AlertJobs` has symmetric processes and symmetric pairs of user and session, its
findings' runs symmetric requests whose activities are alike; none of them has a
liveness property, so the reduction is sound. `SummaryJobs` has one and uses no symmetry.

For the accounts: the races are between two registrations, or one and a login or
list; what needs a third party (an email in two organizations, a token, an
organization to join) is there from the start in two founders, who have
registered like everybody else and whose answers have arrived. The two free
requests are interchangeable (`Alike`), and the run has no liveness property.
`Elsewhere` stands for every id that is no row's. More requests are covered by the
proofs.

For the partitions: `MonthLength` 2 and a migration three months ago give the
times 0 and 1 a partition and 2 none.

`Terminated` is the stutter of a finished behaviour, `JobsEnded` that of the models
with jobs; deadlock checking is on in every run but `ClientsRefused`, whose sockets are
used up, so no handler can be stuck at a query.

**Fairness.** `FairSpec` has weak fairness for the steps of each started
request: Node's event loop resumes a handler whose query is answered, the
database answers or fails, a blocked INSERT is woken when the other transaction
ends, and `deadlock_timeout` breaks a cycle. Nothing forces a client to call, a
process to stop, a query to fail or the clock to move. `SummaryFairSpec` adds what
the queue does by itself: a free consumer takes a waiting job, the backoff of a
delayed job ends, and the lock of a job whose process stopped runs out. It does
not force a slow process to lose its lock.

**Properties.** `CountedOnce`, `AccurateUnlessRaced`, `OneActiveUnlessRaced`,
`StoppedUnlessRaced` (action property), `EveryRequestEnds` (liveness),
`ImplementsLedger` (refinement) for sessions; `CountedIsLogged`, `LoggedUnlessRaced`,
`AllOrNothing`, `SuccessMeansStored`, `NoDuplicateRows`, `DeadlockOnlyOnTies`
for activities; `NoRepeatByProcess`, `QuietIsAlerted`, `NoFalseAlarm` for alerts;
`UsageCoversTotals`, `QuietDayIsExact` for summaries; `EveryJobEnds`
for the queue; `OneUserPerEmail`, `OrphanOnlyOnFailure`, `ConflictIsReal`,
`LoginIsThatUser`, `RegisteredCanLogIn` and `ListsAreComplete` (action properties)
for accounts; one type invariant per state machine that a passing run checks. What the
documentation or a comment says and the code does not keep is stated as it is said, in
the runs of section 4: `AccurateTotals`, `OneActivePerUser`, `DuplicatesAreSkipped`,
`StoppedTakesNoUploads`, `NoRepeat`, `QuietSessionIsAlerted`, `ValidTokenIsAdmitted`.
Each is stated in words above its definition. Every property of a passing run has a
mutant in `PROJECT.json`: a plausible bug in a mapped definition under which TLC finds
it violated.

The properties "unless raced" say how far the damage of an outdated write goes: it is
to the session it writes, and there is no other way to lose seconds, to change a
stopped session or to have two active ones. A failing query, a crash, a lost answer, a
column that `save()` leaves out, a deadlock or an aborted transaction is none.

## 4. Findings

* **Lost update** (`LostUpdate`): two overlapping `updateSessionTotals` both
  read, add and save absolute values; no version is compared
  (`sessions.service.ts:126`), contrary to `README.md`'s "No Double Counting:
  Ensures accurate totals even with 100+ parallel requests".
* **An upload into a stopped session** (`UploadAfterStop`): the status is checked
  before the transaction and never again, and nothing locks the row, so a stop that
  is committed before the upload's COMMIT keeps neither its rows nor its seconds out
  (`activity.service.ts:191`).
* **Two active sessions** (`TwoActiveSessions`): check-then-insert, and the
  index on (user, status) is not unique.
* **A repeated batch fails** (`ReuploadFails`): "silently skip" does not work
  inside an aborted PostgreSQL transaction; only a batch whose single failing
  insert is its last statement survives.
* **One idle alert for good** (`SecondSessionUnalerted`): the search "for this
  session" is for any idle alert of the user; `resolved_at: null` is dropped from
  the WHERE clause, and nothing resolves an alert. A user alerted in one session
  is never alerted in a later one. `QuietIsAlerted` is what holds.
* **An alert twice** (`RepeatedAlert`): search and INSERT are two statements without
  a constraint. A job loses its lock just before the INSERT, the other container takes
  it over, finds no alert, and both insert one - contrary to "**Idempotent**".
  `NoRepeatByProcess` is what holds.
* **Every client refused** (`ClientsRefused`): the connection hook of the gateway
  reads `client.data.user`, which only the guard sets, and the guard does not run
  for connections. A client with a valid token is disconnected like one without,
  contrary to `README.md`'s event flow.

Seen while modelling, without a run of its own:

* Sessions: the status check of `updateSessionTotals` is on an old row object, so a
  save after a concurrent `stopSession` changes the stopped session or makes it
  active again; and a `stopSession` that read before another handler's addition
  writes the old totals back (the cause is that of `LostUpdate`;
  `StoppedUnlessRaced` says that there is no other).
* Uploads: `duration_seconds` of a bulk upload is not validated. A string makes `+=`
  a concatenation (`activity.service.ts:173`, `:196`).
* Activities: `logActivity` leaves its log row when `updateSessionTotals` refuses
  (two transactions, while the sequence diagram of `README.md` shows one commit).
  The entity declares a unique index on (session, client id), the migration creates
  one that includes the timestamp, so a client id sent with two timestamps is stored
  twice.
* Jobs: nothing ever puts a job into the overtime queue. An alert
  found by the `worker` container is announced to nobody: it has no clients.
* Sockets: `session:update` is never emitted (`emitSessionUpdate` has no caller).
* Accounts: two registrations of one email in one organization at the same time are
  answered with 409 or, when the unique index decides, with 500. A registration with
  a new organization that is repeated after its answer was lost makes a second
  organization and a second user. Wrong credentials are answered with
  `AUTH_INVALID_TOKEN` (`AUTH_INVALID_CREDENTIALS` is never sent), and every 404 with
  `SESSION_NOT_FOUND`; the custom exceptions are never thrown.
* `test-activity-load.js` stops at its second step: the answers are wrapped as
  `{success, data, ..}`, and it reads `data.access_token` one level too high. The
  timestamps of its batch lie before the start of the session.

## 5. Proofs

Every invariant and every action property of a passing run is a theorem, for every
value of the constants and with handlers that overlap without limit, and so is the
refinement of `Ledger`. No theorem assumes more than the constants' types. What follows names the
inductive invariants and says why each part is needed. TLC has checked them on the
instances of the runs.

### Sessions

`SessionsProofs`, for every number of requests, users, sessions and activities,
every duration and clock bound, with any overlap, with and without faults:

* `TypeInvariant`, `TypeCorrect`: `Spec => []TypeOK`. `TypeOK` alone is not
  inductive: `SaveLoad` compares `frame[r].entity` with the row of
  `frame[r].sid`, so the strengthening `FrameOK` says that a handler at `load`
  or `update` holds a row object of an existing session, one at `totals` has an
  existing session, and one at `insert` holds a row.
* `NoDoubleCounting`: `Spec => []CountedOnce`. The table alone is not enough
  for the induction, because a row object in memory may be written at any
  time. `CountInv` says the same of *every* row, in the table
  (`RowsInv`) and in the memory of a handler about to save (`EntitiesInv`):
  `Sound(row, s, R, p, f)` - each activity is counted at most once in it, in the
  column and session it was sent for, and only if its request has settled or is
  one of `R`, the handlers whose unsaved addition this object carries. A save
  then replaces a sound row by columns taken from two sound rows. The
  interesting case is the lost update: the columns of the row and of a stale
  entity can be mixed (one column is written, the other kept), and the proof
  shows that the mixture does not count an activity twice, since each activity
  belongs to one column only (`AddsInv`).

`LedgerProofs`, under the same conditions: what the handlers promise although nothing
keeps their saves apart.

* `TotalsAreAccurate` (`AccurateUnlessRaced`), `StoppedAreFrozen`
  (`StoppedUnlessRaced`). A save writes absolute values worked out from a row that was
  read earlier. `FreshInv` says that as long as nobody has changed that row (it is not
  in `since`), the object is the row plus the activities of the request (`Built`), and
  the columns it will write are those in which the two differ (`Saveable`). `OpenInv`
  says that such a session was not stopped meanwhile, `KeptInv` that what a request has
  been credited stays in its session while that is not on record in `raced`. A save of
  a row that has changed puts its session on record (`RacedBy`), and then nothing is
  claimed of it; of every other session the row is as the save expects it
  (`FreshUpdate`, `UpdateKeeps`).
  Whether a column is written depends on a comparison of integers, not of tallies:
  durations that cancel each other leave it out. `ChangeSeen` of `WorkSessionProofs`
  says that a column is left out only if the integer is as it should be. `Total` is a
  fold; the induction over the set it walks through is carried out on a smallest set
  at which the claim fails.
* `OneActiveSession` (`OneActiveUnlessRaced`): `RivalsInv` carries the answer of the
  search for an active session to the insert: whatever active session the user has by
  then is in `since`, so the insert goes on record.
* `LedgerImplemented`: `Spec => ImplementsLedger`. Initial states map to initial
  states (`LedgerInit`), and a step opens, credits, closes or overwrites one session,
  or is a stutter. The standing of a session and its balance change in one UPDATE. What
  a fresh UPDATE may change is read off `FreshInv` and `OpenInv`
  (`UpdateCreditsOrCloses`), what an outdated one may off `CountInv`: even that one
  leaves every activity counted once, and in one session (`UpdateOverwrites`).

### Activities

`ActivityProofs`, for every number of requests and activities of a batch, every
calendar of partitions, with any overlap, with and without faults:
`ActivityTypes`, `ActivitiesCountedOnce` (`CountedOnce` again, with uploads),
`CountedComesFromLog` (`CountedIsLogged`), `UploadsAreAtomic` (`AllOrNothing`),
`SuccessIsStored` (`SuccessMeansStored`), `RowsAreUnique` (`NoDuplicateRows`) and
`DeadlocksAreTies` (`DeadlockOnlyOnTies`), `LogIsCounted` (`LoggedUnlessRaced`) and
`UploadsAreAccurate` (`AccurateUnlessRaced`). They follow from one inductive
invariant, `ActivityInv`:

* `OpInv`: which handler is at which query, and that only an upload has a
  transaction open.
* `UploadInv`: the rows an upload has inserted are a prefix of its activities in the
  order of the sort; an upload that is poisoned with nothing inserted has met a
  duplicate with its first activity (this is why it can be answered with success),
  and one about to save its totals has inserted everything.
* `LogInv`, `StoredInv`: a committed row is one of a settled upload whose other rows
  are committed, too, or of a `logActivity` past its first transaction; what an
  upload is answered for is in the log, or clashed with what is.
* `UniqueInv`: keys are unique among the rows of the table *and* those inserted and
  not committed. The index looks at both, and the second become the first.
* `WithinInv`: a row, and the object a handler is about to write, count nothing that
  is neither in the log nor held by that handler's own transaction, whose COMMIT
  makes both visible.

What a step does to the tables is stated once (`Moves`, `Stays`), and each part is
proved from that. `SortedOrderSorts` says that the order chosen for a batch is one by
timestamp. `DeadlocksAreTies`: in a cycle of waits take an upload `r` and those
members whose INSERT is at the timestamp of `r` or later. Each waits for a row held by
another, which that one has inserted before the row it waits with, so at a timestamp
that is not later. Unless all timestamps are equal some part of the cycle would not
wait for the rest, and a cycle is what has no such part (`WaitCycle`).

For the last two, `SaveInv` of `LedgerProofs` is kept by the steps of `Activity`, too,
and `OwnedInv` is added: the seconds of a committed row of an upload stay in its
session, unless that is on record as raced. `OpenInv` is *not* an invariant here,
because an upload does not look at the status again: `StoppedUnlessRaced` is neither
checked nor proved of `Activity`, and `UploadAfterStop` shows what happens.

### Background jobs

`BackgroundProofs` has what both composed modules need. Of `Activity`: a step of the
handlers changes neither the user nor the start of a session (`SessionKept`), and
takes no row out of the log and moves none to another session (`LogKept`). Of `Jobs`:
every step keeps `QueueOK` (types; a job that can be taken has an attempt left, so the
count of attempts never passes its limit; a consumer's job carries data) and changes
no job at work into another (`KeepsJobs`). Both proofs below take `ActivityInv` over
as it is.

`AlertsProofs`, for every number of processes, jobs, requests, users, sessions and
activities, all thresholds and bounds:

* `AlertsTypes` (`AlertsTypeOK`, and `QueueOK`), strengthened by `WorkOK` (a consumer at
  work has a job, one about to decide or to insert has a session, and the times it has
  taken are not in the future).
* `NoRepeatWithinProcess` (`NoRepeatByProcess`). The invariant behind it,
  `NoneBefore`, carries the answer of the search from `check` over the queries in
  between to the insert: while a consumer is at `recent` or `save`, no alert of its
  process and queue stands against its user. It holds because a process has one
  consumer of a queue, so nobody else inserts such an alert meanwhile; consumers of
  two processes can still both insert one. For overtime the clock may pass midnight
  between search and insert; the day taken is never later than the day of the row
  (`DayGrows`).
* `IdleAlertsAreTrue` (`NoFalseAlarm`): a row that was in the log when the job began
  (`known`) is still in it at the decision (`LogKept`), with its session and time.
* `NoQuietSessionOverlooked` (`QuietIsAlerted`). A session that is quiet now was as
  quiet, with the same row, at every earlier query of the job (`QuietBefore`): any
  write to it, an old value brought back by a stale save among them, would be in
  `changed`. So its entry in the stale
  list is still right, and `NoneOverlooked` holds: the entry is in the list, is the one
  being looked at, or an alert for the user exists. At the end the list is empty
  (`EndsDone`).

`SummaryProofs`, for every number of processes, jobs, days, requests, users, sessions
and activities:

* `SummaryTypes` (`SummaryTypeOK`).
* `UsageIsComplete` (`UsageCoversTotals`). `GroupsOK`: what a job remembers of a
  user is a sum of activities in the logs of the sessions it remembers, and stays so,
  for a session counts only what is logged (`WithinInv`, in `CountedLogged`) and no
  log is deleted - a later save may well take seconds out of a total again. `UsageOK`:
  the logs, read later, contain it. The order of the two reads is what makes this true.
* `QuietDaysAreExact` (`QuietDayIsExact`). `Fresh`: what *any* job at work remembers of
  a user is his total, if no handler has changed a total of his since any one of the
  jobs at work began - since jobs that overlap share `changed`, the upsert of an older
  job cannot bring back an older sum. `DoneOK`: a job still has the user to do, or his
  summary is exact; `KnownOK`: a user without a session has no summary. A stop that
  writes old totals back between the job's read and its end changes the totals and is
  what the property exempts, like an addition.

### Accounts

`AccountsProofs` proves all seven properties of the run `Accounts`, for every
number of requests, emails, passwords and founders: `TypeCorrect`, `UniqueEmail`,
`NoOrphans`, `HonestConflicts`, `RightUser`, and the action properties `Remembered`
(`RegisteredCanLogIn`) and `CompleteLists` (`ListsAreComplete`). They follow from one
inductive invariant, `AccountsInv`:

* `Control`: a handler is at queries of its own operation, and a token that has been
  checked belongs to a user.
* `Rows`: a row belongs to a request that changes no table any more (`Settled`), and
  what has been answered, or is about to be, is in the tables. This keeps the
  columns of a row fixed, because `ask` and `org` of a settled request are.
* `Private`: while a request is not settled, no other one carries its id as
  `organization_id`. It is why the founder of an organization cannot be told that the
  user exists (`ConflictIsReal`), although `register` looks for one. It is
  inductive because the ids clients know are those of users, who are settled.
* `Carries` and `Owned`: what a registration has as `organization_id` at each query,
  and that an organization has its first user as soon as its registration has
  neither failed nor any query left.

`UniqueEmail` itself rests on the unique index alone; the search before it is not
needed, and not enough. `Remembered` combines it with `Rows`: the row found at a
login with `organization_id` is the one row of that email, so its password is the
one registered.

### Assumptions, and what is not proved

Assumptions: `ConstantsAssumption` (among others, that there are finitely many
requests; an INSERT or UPDATE is one of a request, so the set of those in flight can
be counted), `RowAssumption` and `SummaryRowAssumption` (NULL is no row),
`SessionsAssumption` (among others, that no session has seconds in the beginning and
no user two active ones), `ActivityAssumption`, `JobsAssumption`, `AlertsAssumption`,
`SummaryAssumption` and `AccountsAssumption`, all stated in the modules that declare
the constants and evaluated by TLC in the runs of the modules that extend those.

Only model-checked: the liveness properties, `EveryRequestEnds` and `EveryJobEnds`.
They rest on fairness and on which actions are enabled, which is beyond the prover.
The seven findings are counterexamples, and stay with TLC.

## 6. Not modelled

* The getters of sessions and `getProjectById` (which has no route), and the reports:
  single reads without effect. A report shows rows of `daily_summaries`; what those
  rows say is the subject of `DailySummary`.
* `ping`, and `emitSessionUpdate`, which nobody calls.
* Hashes, the expiry and signature of tokens, and the validation of bodies other than
  that of a new organization's name: decided before the first query, without state.
* The retries of `updateSessionTotals` (lines 127-140): unreachable, as said above.
* Durations that are strings, in a bulk upload: the total they make is no number.
* Undefined or unparsable timestamps of a bulk upload (comparisons with `NaN`);
  the DTO validation keeps them out of the single-activity handler.
* Wording, logging, response envelopes, request ids: per request, without state.
* The load test script: a client, and one that fails at its second step (above).
* The migration as a program: it runs once before the service. Its effects are
  in `Key`, `Clashes`, `HasPartition` and `Admitted`.
* PostgreSQL and TypeORM are modelled from how the code uses them and marked
  external in the map.

## 7. Plan

1. *Done*: sessions, activities, ledger; type correctness and no double
   counting proved for sessions.
2. *Done*: `Jobs`, `Alerts`, `DailySummary`, beside the overlapping handlers of
   `Activity`.
3. *Done*: `Accounts` with its proofs, `Presence`, the calendar of the partitions.
4. *Done*: every invariant, action property and the refinement proved, with handlers
   that overlap.
5. Open: two jobs for one day in `SummaryJobs`, if the state space allows it (the
   proofs cover them). Once the gateway lets clients in: who hears what, in `Presence`.
   Once `save()` or a query compares versions: the retry loop, and the properties
   without their "unless raced".
