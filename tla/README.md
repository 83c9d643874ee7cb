# Formal model of sitewatch

Sitewatch collects telemetry from devices over MQTT, stores it, and raises,
clears and tracks alerts. This directory holds TLA+ modules for its two services
and the dashboard's alerts page, the TLC configurations that check them on small
instances, and proofs checked by TLAPS that hold for every instance.

Contents: [the system](#the-system) · [modules](#modules-and-code) ·
[runs](#what-the-runs-show) · [bounds](#bounds) · [fairness](#fairness) ·
[proofs](#what-is-proved) · [limits](#abstractions-and-limits) ·
[not modelled](#not-modelled)

## The system

| Part | State | Operations | What makes it hard |
| --- | --- | --- | --- |
| MQTT callback (`ingestion/main.go`) | bounded channel `jobs` | enqueue, or drop when full | never blocks; drops silently |
| Worker pool (`main.go`, `store.go`) | local variables of `process()` per worker | take a job, write MongoDB, touch `last_seen_at`, load rules, load active alerts, evaluate, apply | every database call is a point where any other worker, request, shutdown or crash may come; messages of one device are spread over all workers |
| Alert engine (`ingestion/alerts.go`) | debounce streak per rule, in memory, under a mutex | `EvaluateRules` | streaks depend on the order of evaluation and die with the process |
| Retry (`applyDecisionsWithRetry`) | attempt and position | three attempts over the whole decision list | no transaction: part of a list may have committed before an error |
| Alert tables (`infra/postgres/init.sql`) | `alert_rules`, `alerts` | the statements of both services | foreign keys with RESTRICT; no unique index on active alerts |
| API (`api/alerts.go`, `alert_rules.go`, `devices.go`) | one handler per open request | acknowledge, resolve, create, update and delete rules, look a device up | conditional UPDATEs race with each other and with the engine; the lookup that chooses between 404 and 409 is a second call; a process may end between a write and its answer |
| Rate limiter (`api/ratelimit.go`) | bucket per address | allow, evict | the bucket is used after the mutex is released; the sweep works with the time of an old tick |
| Read endpoints (`api/alerts.go`, `devices.go`) | none | lists with paging, telemetry window | ties in the order, rows that move between pages, a cursor read while documents are stored, answers cut short |
| Dashboard (`frontend/src`) | polled copy of the alerts | buttons, refetch, online badge | acts on stale copies; polls, clicks and answers overlap |
| Simulator (`simulator/src`) | timers, offline countdowns | publish, reconnect | not modelled |

How they interact: devices (or the simulator) publish to the broker; the callback
puts messages on the channel; workers write MongoDB and Postgres; the API's
clients change the same two Postgres tables with no coordination but the WHERE
clause of each statement; the dashboard polls the API.

The properties that matter, per part:

- engine: an alert only after `DebounceN` breaches in a row, closed by the engine
  only after `DebounceN` clear readings in a row; readings that bounce do nothing;
- tables: at most one active alert per rule; a closed alert is final; an alert
  points at a live rule of its own device;
- ingestion: nothing evaluated that is not stored; every accepted message is
  worked off; an evaluation repairs what an earlier failure left behind;
- last seen: a reporting device is shown online for the promised time;
- API: what an answer said stays true, and a transition has one winner;
- reads: a walk through the pages misses nothing it could be expected to see, and a
  telemetry answer has no gap;
- rate limiter: it grants what a bucket that is never evicted would grant, and
  forgets idle addresses;
- dashboard: it offers what the API accepts, shows what it did, leaves no row
  disabled, and catches up.

## Modules and code

| Module | Models | Correspondence |
| --- | --- | --- |
| `AlertEngine` | `compareThreshold`, `EvaluateRules`, `BreachTracker` | operators; `Decisions` is the set a call decides on, `DecisionLists` every order the rules query may return |
| `AlertStore` | `init.sql` and every statement on `alert_rules` and `alerts` | one action per statement; constraints are guards; `AlertLog` maps the table to `AlertLifecycle` |
| `AlertLifecycle` | (abstract) what is promised about an alert's life | raised open, acknowledged at most once, closed once by a person or unsigned by the engine |
| `Ingestion` | `main.go`, `store.go`, `alerts.go`, composed with the API's writes | one action per database call or critical section of `process()`; `worker[w].stage` is the program counter, the rest of the record its local variables |
| `MCIngestion` | the instances for TLC | the two rules seeded for `temp-sensor-01` |
| `ApiReads` | `listAlerts` and its parameters | operators that return the set of answers a query may give, one per order of tied rows |
| `DeviceReads` | `getDeviceTelemetry` and its parameters, beside `WriteTelemetry` | `read` is the request: one action per document of the cursor, `CursorEnds` and `CursorBreaks` the two ways out of its loop |
| `PageWalk`, `MCPageWalk` | a client paging through `/alerts` while alerts come and go, and the reads of `DeviceReads` | `walk` is what the client knows, and what it ought to have seen |
| `Api`, `MCApi` | every request that writes, and `getDevice` | `request[s]` is an open request: its stage is the next database call; the status codes are the code's |
| `Dashboard`, `MCDashboard` | `AlertsPage`, `AlertActions`, `useAlerts`, `useAlertMutations`, composed with `Api` | `page`, `fetch`, `observer` and `refetching` are the react-query state the hooks rely on |
| `TokenBucket` | (abstract) one bucket per client, for ever | serves exactly when a token is there |
| `RateLimiter`, `MCRateLimiter` | `ratelimit.go` in the handler chain of `api/main.go` | `LookUp` is `allow()` inside the mutex, `Pass` and `Reject` what follows it; `limiters` is the heap |
| `AlertStoreProofs` | lemmas on the engine's operators and on the statements | cited by all proofs but the limiter's |
| `IngestionProofs`, `PoolProofs`, `OrderProofs`, `SequentialProofs` | theorems about `Ingestion` | types, tables and references; debounce and times; order of messages; one worker |
| `ApiProofs`, `PageWalkProofs`, `RateLimiterProofs` | theorems about `Api` and `Dashboard`, `PageWalk`, `RateLimiter` | see [what is proved](#what-is-proved) |

The stages of a worker and the calls of `process()`:

| Stage | Action | Code |
| --- | --- | --- |
| `idle` | `TakeJob`, `StopWorker` | the `select` of `worker()`, the two parsers |
| `write` | `WriteTelemetry` | the MongoDB insert, then `now := time.Now()` |
| `seen` | `CheckLastSeen` | the critical section of `MaybeUpdateLastSeen` |
| `touch` | `UpdateLastSeen` | its UPDATE; the error is logged only |
| `rules` | `LoadEnabledRules` | returns when no rule is enabled |
| `active` | `LoadActiveRuleIDs` | |
| `evaluate` | `Evaluate` | `tracker.Evaluate`, under its mutex |
| `apply` | `ApplyDecision` | one statement of `ApplyDecisions`, inside the retry |

A database call may succeed, fail, or take effect although its caller is told it
failed (`ReplyLost`). Once the context is cancelled every call fails, and the
retries still run their course. `Shutdown` cancels the context; `Restart` is a
crash or the end of the process in any state followed by a new start: channel,
streaks and `lastSeenSent` are empty, the databases keep their rows.

`arrivals` and `evaluated` are history variables: no guard reads them.

In `Api` a handler is one step per database call, each of which may succeed, fail
or lose its reply. The engine's statements (`EngineRaises`, `EngineResolves`) come
at any time in between; here the ingestion service is only what it does to the
tables, since `Ingestion` treats it in full. `Abandon` ends a request at any point
without an answer: `main()` does not wait for `Shutdown` to finish, and a process
may crash. `answers` is the history of answers whose status is in `Recorded`;
`[call |-> "failed"]` marks an answer given although a call had failed.

In `Dashboard` the requests of `Api` are those of the page. React-query is outside
the repository and modelled from its use: one fetch at a time, an invalidation
replaces the fetch under way, mutations are not repeated, and the `onSettled`
given to `mutate()` runs for the latest call of its hook only. A mutation answered
200 (`Succeed`) returns the promise of the refetch from its `onSuccess`, so it
settles, and its row is enabled again, when that refetch ends (`FetchEnds`), with
rows or with an error; a later invalidation moves the promise on to the newer
fetch. Any other end settles it at once (`Fail`). A fetch stands for its last
attempt.

In `DeviceReads` the cursor follows the index on `device_id` and `ts`: the next
document is the newest one that the query could see and that was not read yet, or
one stored since in a place the cursor has yet to pass. The handler never asks
`cursor.Err()`, so `CursorBreaks` answers 200 with the points read so far.

In `RateLimiter` an evicted limiter stays in `limiters`, so a request that looked
it up before still spends its token there. Time is discrete, and `Cost` units make
a token, so that any rational rate is a natural number of units. `MaxStall` is the
longest time a goroutine is kept from its next instruction.

The operators introduced as "mutant" in the modules are wrong versions of the
definition that follows them. No specification uses them. Substituting one shows
that the property named for it in `PROJECT.json` really depends on that code.

## What the runs show

Runs that pass:

- `sequential`: one worker, a reliable database, rules edited and deleted, people
  closing alerts, and a restart. The two promises of `docs/alert-engine.md` hold
  here: readings that bounce never act (`BouncingNeverActs`), and a rule has one
  active alert at most, unless a rule was deleted while a worker was about to
  insert an alert for it, so that the foreign key failed the insert and the retry
  repeated an earlier create (`DuplicatesNeedARetry`). After each message the
  table agrees with the streak (`EvaluationHeals`).
- `concurrent`: two workers, two devices, the API and rule edits.
  `AlertsReferToTheirRule`, `DebounceHonoured`, `ResolvedIsTerminal` and
  `ImplementsLifecycle` survive every interleaving.
- `retry`: failed calls, a lost reply, rejected messages, a shutdown. Retries
  leave no more than one duplicate per attempt (`DuplicatesBounded`); the engine
  evaluates only what MongoDB holds (`EvaluationsAreStored`); a lost create is
  decided again by the next breaching reading, and duplicates are cleared
  together (`EvaluationHeals`); accepted messages are worked off (`JobsDrain`).
- `clock`: a running clock, a failed call and a restart. A device is shown online
  for at least `OnlineThreshold - LastSeenDebounce` after each report, unless the
  latest UPDATE of `last_seen_at` is missing from the table; then the report that
  UPDATE stood for is less than one debounce window old
  (`ReportedDeviceIsOnline`). No alert closes before it was
  triggered (`ResolvedNotBeforeTriggered`).
- `api`: two requests of any kind, interleaved call by call with each other and
  with the engine, a failed call, a lost reply, and requests that end without an
  answer. What an answer said stays true for ever (`AnswersStayTrue`), with one
  exception the property names: a 404 after a failed call of the same request may
  be wrong, because `transitionAlert` ignores the error of its lookup and
  `getDevice` answers every error with 404. No two requests win the same
  transition (`OneWinner`, the comment at `api/alerts.go:109-113`). A 400 from a
  rule request or a 500 says nothing: the statement may have been executed. A
  `user_id` that is no UUID is answered 500 whatever the row holds. The 409 of an
  acknowledgement covers acknowledged alerts as well as resolved ones; the gloss
  "(already resolved)" in `docs/openapi.yaml:118` names only one of the two.
- `reads`: a client pages through `/alerts` while alerts are raised and resolved.
  It sees every alert that was there at the start, unless another alert has the
  same `triggered_at` (the order has no tie-breaker), an alert left the filter, or
  an answer was cut short (`rows.Err()` is never asked) (`WalkMissesNothing`). A
  telemetry window is answered in order and without a gap, whatever is stored while
  the cursor is read: no document that was there is left out for an older one. When
  the cursor breaks, the answer is shorter, with status 200, but still the newest
  part of the window (`TelemetryIsLatest`).
- `ratelimit`: concurrent requests, eviction and late ticks. The limiter is a
  refinement of `TokenBucket` (`ImplementsTokenBucket`), and idle addresses go
  (`IdleVisitorsGo`).
- `dashboard`: the page, its user, another person, the engine, a failed or
  shortened fetch, a lost reply and abandoned requests. A click is refused with 409 only when
  the row changed after the page read it (`ConflictMeansRaced`): the comment in
  `AlertActions.tsx:11-16`, "a button never offers a transition the API would 409
  on", is true up to such races. A row that the page itself has outdated is shown
  only until the refetch of that mutation ends, and as disabled unless mutations of
  several rows overlapped (`OwnActionsShow`). `busyAlertId` is one variable for all
  rows and both hooks: with overlapping mutations a row may be enabled too early,
  but none stays disabled for good, and without overlap a row is disabled until
  its mutation settles (`BusyUntilSettled`). The page ends up showing the table
  (`PageCatchesUp`).

Runs in which the code disagrees with `docs/alert-engine.md`:

- `duplicate_by_pool`: lines 17-18 promise at most one active alert per rule. Two
  workers load the active set before either inserts; both insert.
- `duplicate_by_retry`: the same promise, with one worker. One message decides
  two creates; the first commits, the second fails, the retry starts over.
- `bouncing`: lines 48-52 say a value bouncing across the boundary never acts. The
  pool evaluates alternating readings out of order, breach after breach.
- `missed_by_restart`: lines 56-59 say a restart never causes a missed alert. A
  breach of exactly `DebounceN` readings with a restart inside raises none.

The first three need the default pool of four workers, a transient database error
or, for a duplicate, the deletion of a rule at the wrong moment; `sequential` and
the theorems about one worker show that without these the promises hold. The
fourth needs only a restart.

## Bounds

| Run | Workers | Rules | Messages | Environment |
| --- | --- | --- | --- | --- |
| `sequential` | 1 | 2 ids, 1 seeded | 4 | `DebounceN` 2, 2 edits, 1 restart, 1 user |
| `concurrent` | 2 (symmetric) | 1, 2 devices | 4 | `DebounceN` 2, 1 edit, 1 user |
| `retry` | 1 | 2 seeded | 3 | `DebounceN` 1, 3 failures, 1 lost reply, 1 shutdown |
| `clock` | 1 | 1 | 3 | `DebounceN` 1, clock to 4, windows 2 and 4, 1 failure, 1 restart |

| Run | Actors | Environment |
| --- | --- | --- |
| `api` | 2 open requests, 2 in all, 2 users (both symmetric) | 2 rule ids, 1 seeded; 1 failure, 1 lost reply, 3 statements of the engine |
| `dashboard` | 3 clicks, 2 at a time | 1 rule, 1 user; 1 failure, 1 lost reply, 2 statements of others |
| `reads` | 1 client, pages of 1 or 2 | 4 rows and documents in all, 3 timestamps, 1 page cut short, cursors that break anywhere |
| `ratelimit` | 2 requests at a time, 3 per address | 2 addresses, one of them with two ports; clock to 5, idle after 3 |

Why they are enough for the cases of interest. Four messages at `DebounceN` 2
raise an alert and clear it, or raise it, have a person close it and raise the
next. Two edits create a rule and delete it again. Three failures are what it takes to
exhaust `maxAttempts` (kept at the code's 3); with a lost reply in addition, every
attempt of a two-decision list may break off in a different place. The second
rule id is free, so that an edit may create a rule, and one kind of edit sends an
operator the schema rejects. The channel holds one message: the full channel is
reached at once, and with a pool its capacity adds no new order of processing.
`DebounceN` is 3 by default in the code; 2 already tells a streak from a single
reading, and the debounce theorem holds for every positive `DebounceN`.
`Max...` constants limit what the environment does and appear in guards only.

Two requests are enough for `OneWinner` and for an answer to be contradicted,
since the engine's three statements raise, resolve and raise again beside them;
the theorems cover more. The dashboard keeps no answers (`Recorded` is empty),
because none of its properties reads them. With three clicks, two in flight, one
mutation settles while another is under way and a third follows. The rate limiter's
burst is one token and its refill half a token per unit, so a bucket is empty,
half full and full within the clock's range; `RpsEnv` is invalid and `BurstEnv`
valid, so both branches of `rateLimitFromEnv` are taken.

Swapping two workers is sound as a symmetry: no constant, action or property
names a worker, and the run that uses it has no liveness property. The same holds
of the slots and the users in `api`.

## Fairness

`Fairness` is weak fairness of each worker's step, and nothing else: the Go
scheduler runs every runnable goroutine, and database calls return, with an error
if need be. Publishers, clients, signals, restarts and the clock may stop at any
time. Only `JobsDrain` needs it.

In `RateLimiter`, the ticker keeps firing and the cleanup goroutine is scheduled
and gets the mutex; nothing is assumed of clients or running requests, so
`IdleVisitorsGo` does not depend on them. In `Dashboard`, the interval timer of a
visible page keeps firing and a fetch ends with an answer or an error; nothing is
assumed of the requests the buttons send, of people or of the engine, whose steps
are finitely many.

Deadlock is checked in every run but `api`: in `Ingestion`, `Waiting` is enabled
exactly when all workers wait for a job or have returned; in `api` the clients may
stop asking, and that is no fault.

## What is proved

TLAPS checks every theorem below for all values of the constants: any number of
workers, rules, devices, users, requests and addresses, any `DebounceN`, any bound
on faults, restarts or edits. Every safety property of the passing runs, and both
refinements, are among them.

`tlapm M.tla` proves a module from nothing in at most about 15 minutes. A leaf
names the backend it needs where the default order wastes time: `Zenon` for
first-order steps, and `SMT, Z3` for a step whose translation for the solver
sometimes exceeds tlapm's fixed limit of five seconds, which depends on what was
translated before it. The second name makes tlapm translate the step again.

| Theorem | Statement |
| --- | --- |
| `TypeCorrect` (`IngestionProofs`) | `Spec => []TypeOK` |
| `ResolvedForGood` (`IngestionProofs`) | `Spec => ResolvedIsTerminal` |
| `TableImplementsLifecycle` (`IngestionProofs`) | `Spec => ImplementsLifecycle` |
| `ReferencesCorrect` (`IngestionProofs`) | `Spec => []AlertsReferToTheirRule` |
| `DebounceCorrect` (`PoolProofs`) | `Spec => []DebounceHonoured` |
| `ReportedDevicesOnline` (`PoolProofs`) | `Spec => []ReportedDeviceIsOnline` |
| `SingleWorkerTimes` (`PoolProofs`) | one worker: `Spec => []ResolvedNotBeforeTriggered` |
| `EvaluationsStored` (`OrderProofs`) | `Spec => []EvaluationsAreStored` |
| `SingleWorkerNeverBounces` (`OrderProofs`) | one worker: `Spec => [](used.faults = 0 /\ used.lost = 0 => BouncingNeverActs)` |
| `SingleWorkerHeals` (`SequentialProofs`) | one worker: `Spec => EvaluationHeals` |
| `SingleWorkerBoundsDuplicates` (`SequentialProofs`) | one worker: `Spec => []DuplicatesBounded` |
| `SingleWorkerOneAlert` (`SequentialProofs`) | one worker: `Spec => []DuplicatesNeedARetry` |
| `AnswersHold` (`ApiProofs`) | `ApiSpec => []AnswersStayTrue` |
| `SingleWinner` (`ApiProofs`) | `ApiSpec => []OneWinner` |
| `ConflictsAreRaces` (`ApiProofs`) | `Spec => []ConflictMeansRaced` |
| `OwnActionsAreShown` (`ApiProofs`) | `Spec => []OwnActionsShow` |
| `BusyRowsAreFreed` (`ApiProofs`) | `Spec => []BusyUntilSettled` |
| `WalkSeesAll` (`PageWalkProofs`) | `Spec => []WalkMissesNothing` |
| `TelemetryReadsLatest` (`PageWalkProofs`) | `Spec => []TelemetryIsLatest` |
| `LimiterTypeCorrect` (`RateLimiterProofs`) | `Spec => []TypeOK` |
| `LimiterImplementsBucket` (`RateLimiterProofs`) | `Spec => ImplementsTokenBucket` |

"One worker" is the hypothesis `SingleWorker`, any two members of `Workers` are
equal: the service with `INGESTION_WORKER_COUNT=1`. None of the five holds of a pool, see
[limits](#abstractions-and-limits).

They rest on the named assumptions of `AlertEngine`, `AlertStore` and `Ingestion`:
`DebounceN` is a positive integer, rule ids are a finite set, the markers for
NULL, no row and deleted row are different from real values, inputs and initial
rows have the shape the schema allows, and bounds are natural numbers. `Api` adds
that an unknown id and a malformed one are no ids of rows, `ApiReads` and
`DeviceReads` that default and largest limits are natural numbers, `Dashboard`
that the markers for no fetch and no request are neither, and `PageWalk` that a walk asks for pages
of one row at least: `listAlerts` accepts `limit=0` and answers with an empty page,
which ends any walk. `RateLimiter` adds
`IdleAssumption`: a bucket is full again before its visitor counts as idle,
`Full + Rate * MaxStall <= Rate * MaxIdle`. The defaults meet it by far (40 tokens
at 20 per second against ten minutes), but `RATE_LIMIT_RPS` takes any positive
number, and below burst over ten minutes an eviction hands out tokens early. TLC
evaluates the assumptions in every run.

*Type correctness* is inductive as stated. Beyond types it says that a worker past
the parsers holds a message they accepted, and that in the `apply` stage its
position lies inside its decision list; outside that stage the position is 1,
without which an evaluation could enter the list at a stale place.

*Debounce* is not inductive: nothing in it says where a decision comes from.
`DebounceInv` adds that each streak counts a suffix of the rule's outcomes, all in
the streak's direction (`StreaksAreSuffixes`), and that every decision a worker
has yet to write, or will write again in a retry, already has its run of outcomes
(`PendingBacked`). Outcomes are only ever appended, so a run once present stays
(`RunsKept`). That is why neither a stale decision, nor a retry, nor a restart can
break the property, although each of them can break `AtMostOneActive`.

*Resolved is final* and *the refinement* follow from one lemma, `TableStep`: every
step of the system changes `alerts` by one of four statements or not at all. Each
statement leaves resolved rows alone and maps, row by row, to a step of
`AlertLifecycle`.

*References* needs `OwnerInv`: from the moment a worker has loaded its rules, each
is either still a row of the worker's device or deleted, and it decides only on
rules it holds. No statement moves a rule to another device or brings a deleted
one back (step `OwnerKept` of `NextOwner`), and the foreign key turns away an insert for a deleted
rule and the deletion of a rule with alerts.

*Last seen* needs `LastSeenInv`: a worker past the critical section of
`MaybeUpdateLastSeen` works on a report less than a debounce window later than
`lastSeenSent` of its device. Only that critical section writes `lastSeenSent`,
and it only moves it forward, so other workers cannot break this, whatever becomes
of their UPDATEs. If the table holds `lastSeenSent`, the online window follows by
arithmetic.

*Stored* counts two things that no step changes together. `StoredInv` says that a
rule has been evaluated at most as often as there are stored messages no worker
still holds: an evaluation releases its message in the same step in which it
appends an outcome. Two workers never hold the same message (`HeldOnce`), because
message ids are their places in the order of arrival and the channel holds exactly
the latest of them (`QueueInv`).

*Bouncing* relates memory to the order of arrival. With one worker the message
under evaluation is the latest one taken off the channel (`InOrder`), and
`BounceInv` says that, as long as no call has failed and nobody edited a rule, a
breach streak of length n means that the latest n readings of the rule to be taken
breached it, that a create yet to be written has its run of `DebounceN` among the
arrivals, and so has every alert. A message dropped by the full channel never
arrived; a restart empties streaks and channel together. The hypothesis on calls
cannot be dropped: when the MongoDB insert of a clear reading fails, `process()`
returns before the engine sees it, and two breaches around it count as
consecutive (TLC finds this with `MaxFaults = 1`).

*Healing* needs `HealInv`: with one worker, the active set loaded before an
evaluation is still the active set, up to alerts a person closed since
(`KnowsActive`); the rules in the `apply` stage have the streaks the decisions
were made from (`FollowsStreaks`); and a rule evaluated is settled or its decision
is still to be applied (`WillSettle`). A failed attempt starts the list over, so
the last conjunct survives it.

*Duplicates*: `DuplicatesInv` counts. A rule occurs once in a decision list, and
while a create is in the list its rule has at most as many active alerts as
attempts have passed it (`CreatesCounted`), starting from none because the engine
creates only where it saw no active alert. With no failed call and no deleted rule
there is one attempt only (`FirstAttempt`).

*Times*: `TimesInv` adds to the property that no alert is younger than the time
`at` of a worker past the MongoDB write, nor than the clock.

*Answers* need `ApiInv`: each answer is true now, with its reason where the tables
alone do not keep it true (a refused rule has an alert referring to it); a request
about to look its alert up did not find it in `fromStatuses`; and requests name
only rows that exist or ids that never will. Every statement of either service
keeps all of that (`StoreKept`): a row never returns to an earlier status, a
signature is never replaced, a deleted rule never comes back. *One winner* then
follows: a second success would need the row in a status that the first answer
rules out for ever.

*The page* reuses `StoreKept`. `PageInv` says of each request of the page that its
transition was offered by the status its row was shown with, and that the row has
left that reach once the request was refused or granted (`Fits`); and that an
answered fetch offers nothing the page has done (`PageFits`). The second needs that
a success replaces the fetch under way, since a fetch begun before it may bring
back the old row. `BusyInv` adds the mutations: a row the page has outdated has its
mutation among those that wait for the refetch (`StaleWaits`); a mutation that
overlapped no other is the only one, so `busyAlertId` is its row
(`OthersOverlapped`); and the row that is busy has a mutation which is the latest of
its hook (`BusyIsFreed`). Settling mutations keeps the last because the callback
that would take the mutation away also clears `busyAlertId`.

*The walk* needs `WalkInv`: an alert not yet seen, alone in its time, has at least
as many newer matching alerts as rows the walk has skipped, so a later page still
has to show it. New alerts only push it further back; one that leaves the filter
would pull it forward, which is the exception the property names. The lemmas below
it say what a page of any order of the rows contains: `Place` that a row's
place is the number of newer rows.

*The telemetry window* needs `ReadInv`, on the points while they are read: they
descend, and no document that the query could see and that is still unread is newer
than one of them (`Unbroken`). A document stored meanwhile changes neither, so the
cursor may break anywhere; the reversal turns the order round and keeps the set.

*The rate limiter's refinement* maps an address without a visitor to a full
bucket. It needs `LimiterInv`: a running request holds the limiter its address has
now (`RunningIsCurrent`), since an eviction needs the visitor idle for longer than
a request may be stalled; and what a bucket holds grows with the time its visitor
has been idle (`IdleRefills`), so that the bucket dropped by a sweep is full. A
sweep with an old tick errs on the safe side (`TimesInPast`).

The proofs of a step have one part per action; where helper facts serve a single
lemma they are its named steps, such as `<1>OwnerKept` in `NextOwner`.

Only model-checked: the liveness properties `JobsDrain`, `IdleVisitorsGo` and
`PageCatchesUp`, since fairness and ENABLED are outside the prover's reach.
`AtMostOneActive` and `BreachNeverMissed` state what the documentation promises;
they appear only in the runs that refute them.

## Abstractions and limits

- Readings and thresholds are small integers; a payload is a device and a
  function from the metrics it carries to values.
- Only registered devices appear. Severity, triggered value and messages of an
  alert, logs and metrics are left out: no decision reads them.
- The backoff between attempts is the gap between two steps.
- Service and Postgres share one clock. `ResolvedNotBeforeTriggered` says nothing
  about skew between the two machines.
- `DuplicatesNeedARetry`, `DuplicatesBounded`, `EvaluationHeals`,
  `BouncingNeverActs` and `ResolvedNotBeforeTriggered` are checked and proved for
  one worker. All fail with two: workers that loaded the same active set each
  insert, and each may retry; a decision taken from an older streak is written
  after a newer one; messages are evaluated out of order; and a slower worker may
  close an alert with the older time of its own message, which nothing promises it
  does not.
- `BouncingNeverActs` is stated for rules nobody edited, since it judges readings
  by the rule as it was seeded.
- `Api` does not tell times apart: a write's timestamp is in no guard of a
  request. The API's 500s and 400s end in no promise and are not recorded.
- The page is checked without a status filter. The real page starts with
  `status=open` and shows the 50 newest matches; what is beyond them it never shows.
- Rate and burst are rational multiples of one unit; the floating-point arithmetic
  of `rate.Limiter` is not modelled.

## Not modelled

- The simulator (`simulator/src`): a generator of development traffic. Each
  reconnect starts one more publish timer, so it may publish more often than its
  interval says; `Enqueue` in `Ingestion` accepts any message at any time.
- `listSites`, `listDevices` and `listAlertRules`: one query over a whole table,
  no parameter but an equality filter, no state.
- The telemetry chart, the site and device pages and the choice of filters on the
  alerts page: they render what a read returned. `DeviceDetail` uses the same hooks
  and the same `runMutation` as the alerts page.
- MQTT connection handling, connection pools, environment variables other than the
  limiter's, correlation ids, metrics, health endpoint and CORS headers: nothing
  there decides what happens to a message, an alert or an answer.
