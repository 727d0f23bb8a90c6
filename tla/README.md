# A TLA+ model of bifrost-platform-plugin-flex-query

The plugin fetches trades and cash transactions from Interactive Brokers' Flex
Web Service into PostgreSQL. A daily trigger puts a job into a queue, one worker
claims it, fetches every configured account, upserts the rows, and retries
according to what IB answered. Operators configure it and watch it through an HTTP
API. This directory holds a model of the pipeline and of what stands around it, the
TLC runs that check it on small instances, and TLAPS proofs of nearly all of its safety
properties.

Source paths below are relative to `src/src/bifrost_flex_query/` of the repository.

## 1. Inventory

| Part | State it keeps | Operations | What makes it correct |
|---|---|---|---|
| Job table (`worker/claim.py`, `scheduler/enqueue.py`, `schema/ddl.py`) | rows of `ops_jobs.job_flex_ingest`: status, attempts, not_before, started_at, error_category, payload_hash | insert, manual insert, claim, reclaim, mark done / retry / failed, defer, release | one owner per running row, attempts within budget, one active row per identity |
| Retry policy (`worker/retry.py`) | none | classify a message, plan a retry | a throttle outranks everything; give up on config errors and spent budgets |
| Worker (`worker/loop.py`, `worker/handlers.py`) | the job in hand, idle count, connection | claim, dispatch, record, mark, defer, reclaim, reconnect and repeat | a job settles once and only with its rows landed |
| Catch-up (`worker/catchup.py`) | none (reads the table and the plan) | enqueue a slot nobody fired | every slot served, none twice |
| Daily trigger (`scheduler/daily.py`) | none | enqueue a slot | deduped while active |
| Ingest API (`api/ingest.py`, `api/manual_ops.py`) | the request being served | enqueue, run-now, manual trigger, upload | respects cooldowns; a manual run never becomes a queued one |
| Freshness (`schema/ddl.py`) | one row per kind | record success / failure | never claims a sync that did not happen |
| Flex client (`client/flex_client.py`, fallbacks in `orchestration/`) | polls made, last and first error | SendRequest, GetStatement, fallback | an unready report is not an empty one; bounded requests |
| Fetch windows (`orchestration/trades.py`, `transactions.py`) | stored days per account | compute window, chunk, fetch accounts, write | no gap behind the last stored day |
| Flex configuration (`orchestration/config_rw.py`, `api/config_summary.py`) | query rows, range days | read, replace in one transaction | both halves or neither land, readers see whole lists, a half write keeps the other half |
| Heartbeat (`worker/loop.py`, `schema/ddl.py`) | one row | written between jobs and on every N-th idle poll | an idle worker falls silent only by a lost write or while the database is away |
| Self-check and queue dashboard (`ops/diagnose.py`, `api/ops.py`, `api/ingest_dashboard.py`) | the report being made | four reads, a verdict per kind | stays true while the queue moves on; agrees with the catch-up |
| Cron calendar (`scheduler/cronutil.py`) | none | previous and next fires | the fires of the wall clock, across changes of time |
| Request counters (`api/http_metrics.py`) | counters, a lock | count, render | each request once; a scrape adds up |
| KPIs, gauges, coverage, notifications, application shell | none | read-only views, best-effort writes | |

Processes share state only through PostgreSQL: the worker, the API's requests and
the trigger each commit one statement at a time. The worker's fetch runs in a
thread with a connection of its own, so nothing holds a lock across it.

What is hard to test here: statements of different processes in between each other;
a worker that dies, or whose connection dies after a commit, so that
`WorkerDb.call` repeats a statement that already took effect; marks that name a
row by id only; a throttle racing a retry, a requeue and an operator; windows that
are computed again, from what a partly failed attempt left behind, at every retry;
two configuration writes whose statements interleave at READ COMMITTED; a report
put together from several reads; a slot's day read off two different clocks.
`PROJECT.json` lists each hazard at its line with the properties aimed at it.

## 2. Modules

| Module | Models | State | Actions |
|---|---|---|---|
| `RetryPolicy` | `worker/retry.py` | none | `classify_flex_error`, `plan_retry` as operators |
| `JobTable` | the SQL statements on the table | none: each statement is a function from table to table | |
| `FlexIngest` | worker, catch-up, trigger, API, freshness | `jobs`, `worker`, `client`, `fresh`, `clock`, histories `landed`, `owed` | one per committed statement, plus faults and time |
| `JobPromise` | the abstract specification of a job's life | `job` | `Open`, `Try`, `Settle`, `Correct` |
| `FlexClient` | one query against IB | the call and its errors | one per HTTP exchange |
| `FetchWindow` | which days a run asks for and stores | `today`, `posted`, `stored`, `run` | start, retry, fetch, write, faults, a new day |
| `FlexConfig` | configuration writes and summaries | `settings`, `rows`, `serial`, `writer`, `answer`, history `applied` | one per SQL statement, `DeleteRow` per row waited for, failure |
| `HttpMetrics` | the counting middleware and `GET /metrics` | `call`, `counters`, `mutex`, `scrape` | record, observe, render |
| `ConfigApi` | the two composed: every configuration request is a counted request | both | both |
| `SelfCheck` | heartbeat, self-check, dashboard, on top of `FlexIngest` | `pulse`, `beat`, `check` and FlexIngest's | heartbeat, one per read of the check |
| `CronCalendar` | `scheduler/cronutil.py` | none: functions | |
| `SlotDays` | the day a slot's job is named after | `cron`, `now`, `active`, `newest`, `due` | trigger, catch-up pass, settle, tick |
| `MCFlexIngest`, `MCFetchWindow`, `MCConfigApi`, `MCSelfCheck`, `MCSlotDays` | constants for TLC | | |
| `FlexIngest_proofs`, `FlexIngest_safety`, `FlexIngest_queue` | theorems about `FlexIngest`: types; ownership, budget and refinement; what is said of jobs | | |
| `SelfCheck_proofs`, `FlexClient_proofs`, `ConfigApi_proofs`, `FetchWindow_proofs`, `SlotDays_proofs` | theorems about the module of that name | | |

`FlexIngest` extends `JobTable` and `RetryPolicy` and instantiates `JobPromise`.
`FlexClient` extends `RetryPolicy`, because whether its error texts keep what the
classifier needs is a property of the two together. `FetchWindow` is separate: the
queue decides when a run happens, the window what it brings. `SelfCheck` extends
`FlexIngest` and adds to each of its steps what it means for the heartbeat and the
sleep between two polls (`PulseAfter`);
`SlotDays` extends `CronCalendar` and keeps of the queue only what dedupes a slot.

**Time.** `JobTable` stores the ticks left until `not_before` (`wait`) and the
ticks since `started_at` (`age`); `Tick` moves both. `clock` holds the day of the
last planned fire and the ticks since. This keeps the state space finite and makes
`now + d` simply `d`. The calendar needs instants: `CronCalendar` counts ticks from a
Monday, and scales hour and day down (the lengths are constants) while weeks keep
their seven days.

**Transactions.** Most statements commit on their own and are one step. Only
`write_flex_config` has several in one transaction. `FlexConfig` keeps what such a
transaction has written in its writer's state until `Commit`: a statement sees the
rows committed when it began, waits for a row another open transaction wrote, and
passes over one that is gone after the wait (PostgreSQL at READ COMMITTED).

**Data.** An error message is the set of marks the classifier looks for. A payload
is its dedupe identity. The rows of a fetch are one fact: all accounts' rows landed
(`landed`), or in `FetchWindow` a set of (account, day) pairs. In `FlexClient` a
report is a set of rows, of which the parsers look at the element, the account, the
date and the amount when they decide whether to keep one. A histogram is its number
of observations. A cron field is a set of parts (step, range, value).

**Faults.** `Crash` (the pod, or reconnects exhausted), `LostAck` (the statement
committed, its answer is lost, the call is repeated: with another row in the case of
a claim), `Swallowed` (exceptions the loop only logs), `RecordOkRaises` (freshness
raised before or after its commit), `ClientGone` (a request dies). In `FetchWindow`:
`FetchFails`, `Aborts`, `WrittenButRaises`. In `FlexConfig`: `WriteFails` at every
statement, and a `Commit` whose answer is lost. In `SelfCheck` a heartbeat may be
lost, in `SlotDays` a trigger.

**Histories.** `landed` and `owed`, `applied` of `FlexConfig`, and `report`,
`requests` and `errors` of `FlexClient` are not in the code; they record what a
property has to compare the state with. None is read by a guard.

**Names of mutants.** An operator called `X_Something` in front of `X` is a
deliberately wrong form of `X`. No action uses it; putting it in the place of `X`
violates the property that `PROJECT.json` names, which shows that the property is
about that code.

## 3. Runs

| Run | Shows | States |
|---|---|---|
| `worker` | one faulty worker, two jobs, run-now: ownership, budget, unique identity, cooldown, refinement of `JobPromise` | 705k |
| `overlap` | two workers during a rollout: no row is handled twice while attempts stay within `stale_running_sec` | 1.27M |
| `manual` | a manual run reclaimed while it runs: done and freshness tell the truth; every row, orphaned ones too, ends `done` or `failed` | 409k |
| `catchup` | two days, a late or missing trigger, an interrupted pass: one catch-up job per day, and with no trigger at all the slot gets its job | 175k |
| `client` | every sequence of IB answers and every mix of rows: honest empties, bounded requests, kept errors, termination | 12.9k |
| `windows` | chunking, explicit and reversed windows, with and without fallback: a success has stored its whole window | 368k |
| `cash_runs` | two overlapping cash runs after an outage, with partial failures: no gap, a done job is complete, an outage is always refilled | 84k |
| `config_api` | two writes of five shapes, a summary, a probe and a scrape: whole lists, all or nothing, half writes that cross, no deadlock, honest counters | 576k |
| `self_check` | the check's reads beside a crashing worker over two days: "ok" and "failed" stay true, three readings of the plan agree, an idle worker is heard in time | 4.10M |
| `calendar` | four crons, twelve days, both changes of time: fires are those of the wall clock, trigger and catch-up mean the same day | 152k |

**Bounds.** Two jobs are enough for one job to interfere with another (claim order,
defer, dedupe, run-now); a third is added where catch-up and trigger compete over
two days. One kind: kinds share nothing but the claim order and the cooldown, which
two jobs of one kind exercise as well. Two attempts separate "attempts left" from
"spent". `StaleAfter` 1 with `RunLimit` 5 lets an orphan become stale while time
still moves under a held job. A throttle is longer than the other delays in the runs
that compare them, equal in `manual`, where they do not matter. In `catchup`,
`FireAgeCap` equals `DayLen`: the slot clock stops inside the catch-up's window, so
the run asks whether the slot is served while the window is open, not whether the
worker is back before it closes. In `FetchWindow`, spans of 1 and 2 days stand for
364 and 366, which keeps their order; `cash_runs` starts on day 4 with day 1 stored,
an outage longer than the default window. `config_api` has two writes because two
suffice for every wait and every crossing; the bodies are a half write of each
field, a replacement with and without range days, and a refused one. In
`self_check` a heartbeat comes with every second idle poll (`ReclaimEvery` 2, `PollLen`
1) and the limit (`StaleBeat` 3) leaves one tick for the database, so that a worker
that waits for it two ticks is silent and one that waits a tick is not; jobs come from
the catch-up alone, and a report is closed before the next planned fire (its reads
lie within one tick). In `calendar` a day has eight hours of two minutes and a
minute two ticks, so that a reader asks inside a minute too; the clock crosses two
weekends, and each cron has a fire on both sides of both changes of time. The
trigger is at most `MaxLate` ticks late, which is before midnight UTC (see below).
No run uses symmetry.

**Deadlock** is checked in every run.

**Fairness.** `WF(WorkerStep)`: the loop is a single thread that sleeps a bounded
time, and Kubernetes restarts the pod. `WF(Tick)`: time passes. Faults end: from
some point on a faulty step only does what a working one would. It has to be said in
that form because a swallowed catch-up with nothing to do *is* a normal step, and
forbidding it would forbid idle polling. Nothing is assumed of the trigger or of
operators. `FlexClient` is fair because every `urlopen` has a timeout; `FetchWindow`
assumes that scheduled runs keep coming, which is what `SlotServed` is about. In
`ConfigApi` a pool thread executes each accepted write, so a statement with nothing
to wait for is executed; no statement is assumed to fail, so `WriteAnswered` really
asks whether the holders of the awaited rows get on.

### Where code and documentation disagree

Each of these runs checks a sentence of the repository and ends in a counterexample.

| Run | Sentence | What happens |
|---|---|---|
| `config_replace` | `config_rw.py`: `accounts` replace `raw_broker.settings_flex` | of two overlapping writes without range days, the later DELETE does not see the rows of the other, and both lists stay |
| `cash_first_run` | `handlers.py`: the job is not done until both accounts are | on a first import the retry no longer asks for the failed account's history |

With range days in every replacing write the settings row, written first, keeps the
DELETEs apart (`LockedReplace` in `config_api`).

Further disagreements that the model shows on the instances named, without a run of
their own:

| Sentence | What happens | Where to see it |
|---|---|---|
| README: run-now is "Refused (409) while the token is in an IB throttle cooldown" | a job deferred by *another* job's throttle keeps its own category and is released without force (`api/ingest.py:127`); so is one throttled between the read and the update | `FlexIngest` with `worker.cfg`: `[][\A c \in Clients, j \in Ids : RunNowRead(c, j, FALSE) => owed[j] = 0]_vars` fails in nine states; `CooldownKept` is about the waits that no run-now ends |
| `schema/ddl.py:261`: the heartbeat is "written on every idle tick and after every job" | it is written on every `reclaim_every_n_idle`-th idle poll (`worker/loop.py:156`) | `SelfCheck`: `BeatDue`; `SilentMeansAway` has the sleeps between two of them |
| README: after 1018 every pending job waits 30 min | `plan_retry` asks for no cooldown when the throttled attempt was the job's last (`worker/retry.py:125`) | `worker.cfg`: `Fail` with category `throttled` and `attempts = MaxAttempts`, the other job stays claimable |
| `catchup.py`, README: a late enqueue for the same day does nothing | it enqueues the day again once the first job is finished (`scheduler/enqueue.py:51`) | `catchup.cfg` with `UtcRollover` 2 (the trigger is late but within its UTC day): a `slot` row after a settled `catchup` row of the same kind and hash |
| `handlers.py`: not done until both accounts are | the trades window counts from the newest day of any account (`orchestration/trades.py:179`) | `cash_runs.cfg` with `Kind = "trades"`, one runner, `FirstDay` 2: `DoneIsComplete` |
| `retry.py`: `config` is a "token / query id / account problem" | the error for a wrong query id has no config marker, is `unknown` and is retried (`client/flex_client.py:698`) | `FlexClient`: `WrongQuery` raises with no tag |
| `catchup.py`: the catch-up's job and a late trigger's are deduped on the day | a trigger after midnight UTC carries the next date (`scheduler/daily.py:99`) | `calendar.cfg` with `MaxLate` 14 and without `MCCronsAssumption`, which excludes it: `OneJobPerFire` |

`NoGap` and `DoneIsComplete` hold in `cash_runs` because its accounts all have stored
rows and its windows fit one request. `cash_first_run` shows what happens without the
first. Without the second (one account, `ChunkSpan` 1, `IbSpan` 2, from day 2 to 5)
`DoneIsComplete` fails too: the older chunk of a window fails, the newer one is
stored, and the next window starts behind the hole. `RequestsAccepted` holds for cash
only: with `Kind = "trades"` and an outage longer than `IbSpan` the window goes out
uncut, whereas the repository's README has both kinds chunked.

## 4. Proofs

TLAPS proves the following for every value of the constants that the named
assumptions allow: table sizes, kinds, workers, requests, delays, budgets, messages,
polls, accounts, days, windows, crons, zones.

| Theorem | States | Needs besides `Spec` |
|---|---|---|
| `TypeCorrect` | `TypeOK` of `FlexIngest` | |
| `ClaimsAreOwned` | `HeldJobRunning` | |
| `BudgetKept` | `AttemptsBounded` | |
| `PromiseRefined` | `PromiseKept`: the pipeline implements `JobPromise` | |
| `IdentitiesUnique` | `UniqueActive` | |
| `CooldownWaitedOut` | `CooldownKept` | |
| `DoneIsLanded` | `DoneImpliesLanded` | |
| `FreshnessIsTruthful` | `FreshnessTruthful` | `OneWorker` |
| `CatchupIsOnce` | `CatchupOnce` | `OneWorker` |
| `CheckObserves` | `CheckSpec => Spec`: heartbeat and self-check change nothing, so that each theorem above holds beside them | |
| `IdleIsHeard` | `SilentMeansAway` | |
| `PlansAgree` | `MissedAgrees` | |
| `OkStaysTrue`, `FailedStaysFinal` | `OkIsTrue`, `FailedIsFinal` | |
| `ClientTypes` | `TypeOK` of `FlexClient` | |
| `EmptyResultsHonest` | `EmptyIsHonest` | |
| `RequestsAreBounded` | `RequestsBounded` | |
| `FirstErrorIsKept` | `FirstErrorKept` | |
| `LateReportsRetried` | `LateReportRetried` | |
| `RunsTyped` | `TypeOK` of `FetchWindow` | |
| `CashRequestsAccepted` | `RequestsAccepted` | `Kind = "cash"` |
| `CleanRunsCover` | `CleanRunCovers` | |
| `CashLeavesNoHole` | `NoGap` | `ScheduledCash`, `[]WindowFits` |
| `ShortHistoryNoHole` | `NoGap` | `ScheduledCash`, `ShortWindows` |
| `DoneCashIsComplete` | `DoneIsComplete` | `ScheduledCash`, `Traders = Accounts`, `[]WindowFits` |
| `ApiTypes` | `TypeOK` of `ConfigApi` | |
| `ListsAreWhole`, `RequestsAllOrNothing` | `WholeLists`, `AllOrNothing` | |
| `HalfWritesKeepOther`, `LockedWritesReplace` | the action properties `HalfWriteKeepsOther`, `LockedReplace` | |
| `ScrapesAddUp`, `RequestsCountedOnce` | `ScrapeAddsUp`, `CountedOnce` | |
| `PreviousFireIsLatest` | `PreviousIsLatest` | |
| `NextFiresInView` | `NextInView` | `OnTwoDays`, `HorizonDays >= 9`, `Shown >= 1` |
| `FireHasOneJob` | `OneJobPerFire` | `BeforeMidnight` |
| `DedupedByFire` | `DedupedByOwnFire` | `BeforeMidnight`, `OncePerDay` |

**Assumptions.** `TableAssumption`, `DelayAssumption` (`from_config` floors every
delay at 30 s), `IngestAssumption`, `CheckAssumption`, `WindowAssumption`,
`ConfigAssumption`, `HttpAssumption` and `ApiAssumption` give the constants their
types; the last three also say that accounts, range days and requests are finitely
many (TLAPS needs that to count rows and requests), that the markers "seed" and
"free" are not requests, and that every request to a configuration route is one of
that route's requests. `CalendarAssumption` gives minutes, hours and days any length
but zero and has an offset, like one of Python's `tzinfo`, and a change of it be less
than a day; it does not say which of the two is summer. `SlotAssumption` has the
clock's first day not after its last.

`LeaseAssumption` is the one that matters: either there is one worker (the
Deployment has `replicas: 1` and `strategy: Recreate`), or no attempt outlives
`stale_running_sec` and no statement is replayed. Without it `HeldJobRunning` is
false, since nothing in the marks' `WHERE` protects a reclaimed row.

Some theorems need a hypothesis of their own, and each is needed:

* `OneWorker`: of the lease's two cases, `FreshnessTruthful` and `CatchupOnce` hold
  only in the first. On the constants of `overlap` TLC finds both violated with two
  workers: the second worker finishes a retried job between the first one's
  `mark_retry` and its record of the failure; and two passes that read the same gap
  both fill it if the first one's job ends in between. `UniqueActive`, `CooldownKept`
  and `DoneImpliesLanded` hold with two.
* `Kind = "cash"`: the trades run does not cut its window, so a long explicit one is
  refused by the client.
* `ScheduledCash` (slots alone ask for windows, none with fallback, the first day is
  stored): an operator may ask for a later window and leave a hole, `fallback: true`
  in a payload may store the query's own period instead, and without a first day
  `cash_first_run` is the counterexample. `WindowFits` (the window `transactions_window` computes fits
  one request, 364 days): of a window of two chunks the later one may be stored while
  the earlier one failed, and the next window starts after it. `ShortWindows` implies
  it from the constants, and `cash_runs` satisfies both.
* `Traders = Accounts`: `read_last_transaction_dates` ignores an account that does not
  trade, so the next window need not reach back to its last day.
* `OnTwoDays` (a cron names two weekdays or more; the horizon is nine days, the code's
  is fourteen): the one fire of a week may be at a time the clock skips when it is put
  forward. A cron on Sundays at the skipped hour, seen from the Sunday before
  (`FirstDay` 13), has an empty `next_fires` even with fourteen days.
* `BeforeMidnight` (the UTC date is the local one until the trigger is as late as it
  may be): otherwise trigger and catch-up name different days, as section 3 shows.
* `OncePerDay` (one time of day, which is not shown twice when the clock is put back):
  a cron with two fires on a day has one identity for both, since the payload holds
  the day alone, and the second is swallowed while the first one's job is active.

The crons of `schedule.yaml` meet the three while the trigger is less than twelve hours
late, and `MCSlotDays` has TLC evaluate them for those of the run.

**Ownership.** `Inv == TypeOK /\ HeldJobRunning /\ ClaimsKept /\ AttemptsBounded`.
`HeldJobRunning` alone is not inductive: the reclaimer would break it unless a held
claim is younger than the lease, and a manual mark would unless the row it names is
a manual one. `AttemptsBounded` needs `HeldJobRunning` (the plan is made from the
worker's copy of `attempts`) and that an audit row has exactly one attempt. That
is `ClaimsKept`. With one worker the reclaimer never runs while it holds a job,
because the same thread does both; with several, `RunLimit <= StaleAfter` keeps held
rows from being stale.

**Refinement.** A step of the pipeline changes each row in one of a few ways
(insert, claim, requeue, give up, mark, defer, release, age). The end of
`FlexIngest_safety` adds the invariant that a running or settled row was tried and
shows that each of these ways is a `JobPromise` move or a stutter of that job; `Inv` excludes marking a
settled queued row.

**What is said of jobs.** `FlexIngest_queue` first shows that each step is one
statement on the table (`OneStatement`) and then works per statement. `UniqueActive`
is inductive beside `Inv`: a row becomes active only by an insert without conflict,
since a retry or a reclaim finds it active already. So is `CooldownKept`:
ownership keeps every mark away from a row that waits. `LandedInv` says what holds between
the fetch and the mark: rows land before a worker or a manual run can come to `done`,
and success is recorded by then. `FreshInv` adds what keeps two writes of one outcome
together: a failure still to be recorded is of a job that is not done, and an audit
row belongs to one manual run. `CatchupInv` says that a catch-up row of the current
day counts as recent, so that the next pass sees it, and that no kind still to be
enqueued has its row.

**Self-check.** Nothing in the model ties time to the heartbeat: a tick may fall between
any two statements of a worker, and `waited` counts those that find it awake (a slow
statement, or `WorkerDb.call` waiting to connect again). That the row is young while a
worker idles has to come from the loop. `BeatInv` says how: at the claim the row is no
older than one sleep for each idle poll counted since, less what is left of the sleep
the worker is in, and the ticks it was awake (`Heard`); the count stays below
`ReclaimEvery`, the poll that reaches it goes on to reclaim and catch-up, and the
heartbeat ends that pass. So no more than `ReclaimEvery` sleeps lie between two
heartbeats, and a silent row leaves an idle worker that did not lose its last write
only the time it was awake: more than `StaleBeat - ReclaimEvery * PollLen`. With the
defaults (12 polls of 5 s, a limit of 180 s) that is two minutes; the reconnects of one
`WorkerDb.call` alone wait up to 135 s, so that after a database outage a worker may be
called silent that is not. A `poll_interval_sec` above 15 s with the default
`reclaim_every_n_idle` leaves nothing: every idle worker is then called silent from
time to time, which the theorem allows because its bound is negative.
`AgeOrder` (ids follow `created_at`) makes
the newest row by id, which the check reads, tell whether any row is recent, which is
what catch-up and dashboard ask. `ReportInv` keeps every verdict from the first read
on; it rests on `LandedInv`, on final rows staying final and on `AuditInv` (only the
run that owns an audit row marks it).

**Flex client.** `ClientInv` relates the chain's step to the errors so far
(`ChainKept`), to the requests sent (`RequestsSpent`) and to the polls left
(`PollsSpent`): polls that ran out in an earlier request have left their mark in the
first error, which the final exception carries.

**Fetch windows.** Lemmas on `split_window` (its chunks cover the window, none is
longer than `ChunkSpan`, a window that fits is one chunk) need division with remainder
and the least element of a set of days. `CoverInv` says that a run without an error has
covered its window with rows and requests still to be sent. `GapInv` says that a run in
progress holds all of an account's rows of its window or none, and that its window
reaches back to every trading account's last stored day, which only grows; so what it
adds is contiguous. `DoneIsComplete` then splits the first attempt's window: what the
last attempt asked for is covered, what lies before it is behind a last stored day.

**Configuration.** `ConfigInv` has the phases of a transaction and what each open one
has written, that row numbers are handed out once, that committed rows hold all of a
request's list or nothing, and that a `DELETE` goes for all rows of a request or none.
`LockedReplace` uses the lock on the settings row, which orders the writes that
carry range days. `HttpInv` says who holds the counters' lock and that the histogram
lags the requests by exactly the request that holds it; `CountInv` that a recorded
request has its answer, which is final by `ConfigInv`.

**Calendar.** The code matches hour, minute and weekday of a converted UTC minute;
the reference (`Walls`, `Fires`) builds wall times from a day and a time of day. Division
with remainder, and that quotient and remainder are the only ones, make the two the
same (`PartsOf`, `PartsMake`, `MatchesWall`), and rounding the start up makes the scan
of `iter_cron_fires` exactly the fires between two instants (`IterIsFires`). With that
`PreviousIsLatest` needs only the bounds of the clock (`ClockInv`). For `NextInView`,
of two days' wall times the clock shows at least one, because what it skips is less
than a day (`OneIsShown`), and two weekdays with their offsets fit into nine days
(`FireAhead`). `OneJobPerFire` is not inductive, since it does not say what day a job
carries. `SlotInv` does: the local day of its fire, whoever enqueued it, and a fire
that waits for its trigger is at most `MaxLate` old, so that `SameDay` applies. The
proof corrected the reference, which had listed too few days on either side: a fire near
the end of a look-back or horizon can lie on the next day of its zone.

Each of these invariants was checked with TLC on a run's constants before it was
proved.

**Only model-checked.** Liveness (`EveryJobSettles`, `SlotServed`, `CallEnds`,
`EverythingLands`, `WriteAnswered`), which is out of the prover's reach under
fairness.

## 5. Not modelled

* The values of a parsed row (signs, times, keys) and the writers in `bifrost_core`:
  a report is a set of rows kept or dropped, the upsert a union.
* The overall verdict, the wording and the actions of the self-check, its lines on
  tokens, data and coverage; the counters in the heartbeat row; the gauges of
  `api/metrics.py`, `api/freshness_kpis.py`, `ops/coverage.py`, `api/raw_peek.py`:
  read-only SQL and its formatting, on which nothing depends.
* `orchestration/notify.py`: a best-effort publish without state.
* `trim_old_jobs`, which nothing calls, and the schema migrations.
* Serialization inside PostgreSQL other than in `FlexConfig`: a committed statement is
  atomic; `FOR UPDATE SKIP LOCKED` is a claim of the first unlocked row.
* Two jobs of a kind whose ids and `created_at` (the start of the inserting transaction)
  come in different orders; a row's id follows its creation in the model, so that
  `MissedAgrees` does not compare the newest id with the newest `created_at`.
* `postgres_ready` in the answer to a configuration write that has nothing to write.
* Cron expressions that do not parse, the texts of cron fields, and the day of month
  and month, which the code does not look at.

## 6. Plan

1. Modelled and checked: all modules above.
2. Proved: every safety property that a passing run checks, as listed in section 4.
3. Left: the liveness properties stay with TLC. Worth modelling next are the gauges and
   KPIs once something depends on them, and a worker's health server if it comes to
   restart the loop.
