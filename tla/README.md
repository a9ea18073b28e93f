# amazing-gitlab-exporter in TLA+

TLA+ models, TLC runs and TLAPS proofs for the exporter in `src/`. The
repository has no tests; every definition is translated from the Go source.

## The system

The exporter polls GitLab and serves what it found on `/metrics`. `main` loads
the configuration, builds everything in `NewExporter` and calls `Exporter.Run`
with a context that SIGINT and SIGTERM cancel. `Run` starts the scheduler (one
goroutine per collector) and the HTTP server, waits for the context, and stops
them in order: server, scheduler, store. Collectors and scrapes share each
collector's state under its own `RWMutex`; collectors call GitLab directly.

| component | source | state it keeps | operations | what is hard about it |
|---|---|---|---|---|
| scheduler | `internal/scheduler/{scheduler,task}.go` | tasks, WaitGroup, cancel; per task a goroutine and a ticker | `AddTask`, `Start`, `Stop`; `Run`, `execute` | a tick and the cancellation at the same time, dropped ticks, join without a timeout |
| exporter | `internal/exporter/exporter.go` | references to the parts | `NewExporter`, `Run` | order of shutdown, failed start, signal in any state |
| HTTP server | `internal/server/server.go` | listener, connections, `ready` | `Start`, `Stop`, `SetReady`, handlers | late listener errors, drain against a deadline |
| snapshot collectors | `internal/collector/{merge_requests, dora, value_stream, code_review, repository, contributors}.go` | `projects`, `observations` | `SetProjects`, `Run`, `Collect` | scrape during the swap, partial failures, cancellation half way |
| vector collectors | `internal/collector/{pipelines, jobs, environments, test_reports}.go` | `projects`, Prometheus vectors | the same | values that a scrape reads outside the lock, reader and writer contention, counters over cycles |
| rate limiter | `internal/gitlab/ratelimiter.go` | `backoffUntil`, token bucket | `Wait`, `UpdateFromHeaders` | a copy used after the unlock, many callers, headers in any order |
| GitLab client | `internal/gitlab/{client,rest,graphql}.go` | none of its own | Get, List, GraphQL calls | pagination, error paths that drop headers |
| tier detector | `internal/gitlab/tier_detector.go` | `DetectedFeatures` | `Detect` and its probes | one failed probe, statuses that prove little; nothing calls it |
| registry | `internal/collector/registry.go` | list of collectors | `Register`, `Collect`, `RunAll` | duplicate series across collectors |
| discovery | `exporter.go` `discoverProjects` | the project list | one pass at startup | pages that shift while they are read, failed pages, duplicates |
| configuration | `internal/config`, `main.go` | the configuration | `Load`, `ApplyDefaults`, flags, `Validate` | four sources, one of them applied twice |
| task queue, webhook | `internal/scheduler/queue.go`, `internal/server/webhook.go` | a bounded channel | `Enqueue`, `Start`; `ServeHTTP` | full queue; not wired |
| store | `internal/store` | key/value pairs | `Get`, `Set`, `Close` | only opened and closed |

What makes each correct: the scheduler joins every goroutine it launched and
keeps every task going until then; the exporter closes the store last, is ready
exactly while it serves, and ends after a signal; a scrape of a snapshot
collector sees one cycle, one of a vector collector the series of one moment
with values that fit together; a cycle that is cut short publishes nothing;
counters do not decrease; a cycle goes forward whatever fails; a limiter wait
honours what the limiter knew when it began, keeps the rate, is not prolonged and
ends; what the command line says is in force; the list of projects repeats none,
misses none that was there to be found and loses no explicit entry; the start
ends.

## Modules

| module | what it is | extends or uses |
|---|---|---|
| `Scheduler` | `Scheduler.Start`/`Stop`, `Task.Run`; one action per statement that others can observe | |
| `Exporter` | `Exporter.Run` with the server, listener, connections, signal, process exit; conjoins `Scheduler`'s actions | `Scheduler` |
| `Lifecycle` | abstract: what `Run` promises (order of events, readiness, store closed with no cycle running) | |
| `SnapshotCollector` | the six collectors that swap in whole snapshots | |
| `SnapshotStore` | abstract: a scrape is one atomic read; `SnapshotCollector` implements it with whole snapshots, `VectorCollector` with the set of its series | |
| `Listings` | GitLab's lists: newest first, cut into pages at the moment of the request | |
| `VectorCollector` | the four collectors that update vectors in place | `Listings` |
| `RateLimiter` | the limiter and the three ways the client calls through it | |
| `Config` | how file, environment, defaults and flags combine; operators, no state | |
| `TierDetector` | `Detect` as a function of GitLab's answers; no state | |
| `Startup` | `main`'s action and `NewExporter`, up to the call of `Exporter.Run`, where `Exporter` begins | `Config`, `TierDetector`, `Listings` |
| `MC*` | values for TLC | the module after `MC` |
| `*Proofs` | theorems | the module before `Proofs`, `TLAPS` |

**Scheduler, Exporter.** `pc[t]` follows a task's goroutine: `spawned`,
`executing` (inside `RunFunc`), `select`, `leaving`, `gone`. `runPC` follows
`Run`. `stopper` and `starter` are the callers of `Stop` and `Start`. The
`select` takes a ready ticker even when the context is done, as Go's does. The
ticker channel holds one tick. A connection is `new` (accepted, nothing read),
then `active` (in a handler): `http.Server.Shutdown` waits for both, at most
15 s (`DrainTimesOut`). `Terminated` lets the exited process stutter, so
deadlock is checked.

**SnapshotCollector.** `kind` chooses the collector. `Visit` looks at the
context and takes up a project; `Calls(kind)` are the calls that this makes, one
`Fetch` each, and `Answers` what each can give: the families it fills, the errors
it counts, and whether it ends the visit. `code_review` loses everything when its
first list fails and half when its second does, `value_stream` computes the totals
from the medians that arrived, `repository` counts two of its four failures, and
so on. A series is `<<project, family, version>>`, the version being that of
GitLab's data at the call; the data may change between two calls for the same
project, so that a snapshot, and even a family that depends on two calls, may be of
several versions. `Collect` copies under the lock and emits without it.
`available` is the outcome of tier detection. In today's program it is always
FALSE, since nothing calls `Detect` (`exporter.go:106`); the model keeps both.

**VectorCollector.** `run.pc` is `project` (about to list), `entry` (at an
item's stage, a call to GitLab in progress), `lock` (waiting in `mu.Lock`),
`locked` (filing a record, one family per step) or `unlocked` (between two
records). `Lock` needs that no scraper is `reading`; a waiting `Lock` keeps new
readers out, as `sync.RWMutex` documents.

A scrape is two activities. `Collect` sends, family by family under the read
lock, the series there are (`CollectFamily`, `CollectReturn`): pointers, not
values. The registry that called it takes them off the channel and reads each value
where it stands (`Gather`), while `Collect` is still at it or afterwards, under no
lock that `Run` takes; then it answers (`Respond`). Values of one answer are
therefore of different moments, in the middle of a record if need be. What the lock does
give is the set of series: `SeriesAreAtomic` is the refinement of
`SnapshotStore` by that set. What the values still promise is
`ScrapesFitTogether`: since a record goes into duration, status and count in an
order, and the registry reads them in an order, an answer times at most one run
that it does not count (none for deployments, which are counted first).
`created_timestamp` may be missing where there is an `id`, as GitLab may leave
the date out. `Run` does not look at the context itself: after a cancellation
every call that takes it fails, and the loops go on to their ends.

**RateLimiter.** Times are ticks left. `call[c].read` is the copy of
`backoffUntil` that `Wait` made. `GetAnswered` tells the limiter of every
answer, `PageAnswered` of good pages, `QueryAnswered` of none. `told` (the
longest pause that the limiter was told of), `learned` (per caller, the same of what it
told the limiter itself or what had been told when its `Wait` made the copy) and `meter`
are history variables for the properties:
`RetryAfterHonoured` is about the pauses of all callers, up to the moment of the
copy, and `stale_backoff` about those that begin after it. The collectors do not go
through the limiter (they use `client.REST()`), so this is about the client's
own functions. The go-gitlab library's internal retries are part of "the
answer".

**Config, Startup.** `pc` is where `main`'s action is: `main` (load, defaults,
overrides, checks), `client`, `store`, `explicit` and `wildcards` (the two loops of
`discoverProjects`), `register`, then `running`, `failed` or `killed` (a signal
before `signal.NotifyContext` ends the process at once). A setting's value is
the name of the source it comes from, so that precedence is visible and the data
are not; `url`, `token` and `listen_address` stand for themselves, `redis_url`
for what has no default, `max_rps` for the numbers, and each collector's name for its
`enabled`. What a source can say of a setting is nothing, the empty value,
something good or something that `Validate` refuses.

A wildcard has the projects of its `owner` and those that its search and archived
settings `match`. The request says only the latter (`Matching`): `owner` is read
for a log line (`exporter.go:206`), which the run `promises` shows against what
the configuration says. `ReadPage` is one turn of the page loop, `PageFails` its
`break`. `visible` is what GitLab would list; it moves (`Appear`,
`Disappear`) only while there is somebody to notice. A project that appears moves older ones to
later places, one that disappears moves them to earlier places, perhaps to a page
that has been read. `owed` and `due` are history variables: what the
wildcard at hand must not miss, and what the completed ones had to find.
`client.Features()` is always `Undetected`, so that `registerCollectors` never
passes the gate of `dora`, `value_stream` and `code_review`.

## Runs

| run | what it asks | bounds | result |
|---|---|---|---|
| `lifecycle` | types, `WaitGroupCounts`, `StoreClosedLast`, `DrainedUnlessTimedOut`, refinement of `Lifecycle`, `ShutdownCompletes`, `TasksKeepRunning` | 2 tasks, 2 connections; nothing else is bounded | holds |
| `failed_bind` | the comment on `Server.Start`: a failed start is fatal | 1 task, 1 connection | **violated** |
| `snapshots` | types, published cycles complete and fresh, refinement of `SnapshotStore`, `AnswersNeverOlder` | 6 kinds, 2 projects for the kinds that make one call per project and 1 for the others, 2 metrics, 2 stages, 1 scraper, 2 cycles, 1 change of the data | holds |
| `error_total` | the help text of `age_scrape_errors_total` | 1 kind, 2 cycles | **violated** |
| `vectors` | types, answers fit together, answers only grow, refinement of `SnapshotStore` by the series, `CyclesMoveOn` | 4 kinds, 1 place, 1 item, 1 status, 2 jobs, 2 cycles, any number of scrapes | holds |
| `vector_progress` | every cycle ends | environments and test reports, 2 scrapers, 1 cycle, 2 items | holds |
| `help_texts` | the help texts of the run counter and of the status gauge: is either true? | 1 pipeline, 2 statuses, 2 cycles | **violated** |
| `rate_limit` | types, `RetryAfterHonoured`, `CallsArePaced`, `WaitsAreNotExtended`, `WaitEnds` | 2 callers, delays 0 and 2, remaining 0, 1, 10, 1 token per tick, bucket of 1 | holds |
| `stale_backoff` | the comment on `Wait`: any header-derived backoff is honoured | 2 callers | **violated** |
| `startup` | types, `ProjectsOnce`, `WildcardsAreComplete`, `EntriesAreTracked`, `CommandLineWins`, `StartupEnds` | 5 projects, pages of 2, no list or one that repeats a project, up to 2 wildcards that overlap; every word of every source, for one setting at a time | holds |
| `promises` | order of sources, tier detection, owners of wildcards: is one of the three promises kept? | one file, an instance that supports everything | **violated** |
| `token_outside_file` | token in a flag, or in the environment without a file: does either way lead to a start? | these two sources | **violated** |

Why the bounds are enough: two tasks let one be launched, run or leave while
the other is anywhere in its loop; two cycles let a scrape straddle a swap and
let a cycle meet another's leftovers; one change of the data tells values of two cycles apart;
two callers let one's answer fall between the other's copy
and its use. Places of the vectors share nothing but the lock, so one stands
for all. Five projects in pages of two give a listing three pages, so that a
project can move over a page boundary in either direction while there is still
a page to come; a second wildcard meets what the first, complete or cut short, has found.
Settings do not influence one another, so that one at a time is enough. `SnapshotCollector` and `VectorCollector` stop at the cycle bound,
hence `CHECK_DEADLOCK FALSE` there; the others check deadlock.

**What the violated runs show.**

- `failed_bind`: `server.go:82-83` says a failed start is logged at Fatal level.
  It is logged at Error level, and after the 100 ms of `Start` nobody reads
  `errCh`: the exporter becomes ready without a listener and stays so.
- `error_total`: `age_scrape_errors_total` is exported as a counter and holds
  the errors of the last complete cycle, so it falls back. The dashboard
  `exporter-activity.json` takes `increase()` of it.
- `help_texts`: each cycle counts the listed pipelines again ("Total pipeline
  runs."), and sets the status it finds to 1 without setting the former one to 0
  ("0 otherwise"). In the last state one pipeline is two runs and in two
  states. Jobs and deployments are treated the same way.
- `stale_backoff`: `Wait` acts on a copy of `backoffUntil`; a call that is
  between the copy and the request ignores a backoff that begins then.
- `promises`: one running exporter that keeps none of three. The README (line
  132) and the example configuration (line 7) put the environment and the file
  before the defaults, but `main.go:101` applies the defaults to what `Load`
  returned: a limit of requests from the file is lost, and without a file the
  environment is only read for the flags. The README (line 40) and the comment on
  `NewExporter` (`exporter.go:71`) have the tier detected, but nothing calls
  `Detect` or `SetFeatures`, and the three collectors behind the gate never start.
  The example (line 231) discovers "by group/user ownership", but the request at
  `exporter.go:198` names no owner, and projects of others are tracked.
- `token_outside_file`: `main.go:119` asks for "--gitlab-token or config file",
  but `Load` has refused a file without a token before the flags are looked at
  (`config.go:279`). The README (lines 86-89) starts the exporter with url and
  token in the environment and no file, but only a file can name projects, and
  without any `NewExporter` fails (`exporter.go:224`).

`help_texts`, `promises` and `token_outside_file` check a disjunction of what the
repository says, which is weaker than each part: the state that violates it
refutes them all at once.

**Fairness.** Goroutines that can run do run (weak fairness). `Leave` has
strong fairness: the `select` chooses uniformly among ready cases, so a task
that comes back to it with the context done takes that case sooner or later.
The tickers and the two timeouts are the clock's. A collection cycle ends
(`Return`, `RunStep`) because every GitLab call gets an answer or an error:
that is an assumption about the network, since most calls have no deadline of
their own. Nothing is assumed of signals, clients, the listener, or of a
scrape or a cycle beginning. A scrape that has begun goes on, because the registry drains the
channel. In `RateLimiter` time passes and `TakeToken` is strongly fair: the
library's bucket serves reservations in order of arrival. In `Startup` the
process goes on, the 60 seconds of the discovery pass, and then a request in
progress fails (`ctxDone /\ PageFails`); before that GitLab owes no answer at all.

## Theorems

TLAPS proves, for every value of the constants:

- `SchedulerProofs`: `SchedulerSafe`. The invariant: types; the WaitGroup is
  the number of live goroutines; `stopper = "returned"` only with none alive;
  nothing is unborn once `Start` has returned, without which a late launch
  could follow the join.
- `ExporterProofs`: `ExporterSafe`, and from it `ExporterTypes`,
  `ExporterWaitGroup`, `StoreIsClosedLast`, `ServerIsDrained`. The
  invariant ties `runPC` to the scheduler's and the server's state: from
  `join` on the server has drained or timed out and the listener accepts
  nothing, from `close` on the scheduler has stopped. `RunImplementsLifecycle`
  shows the refinement: initial states map to initial states and each action to
  an action of `Lifecycle` or a stutter.
- `SnapshotCollectorProofs`: `CollectorSafe`, then `CollectorTypes`,
  `PublishedComplete`, `PublishedFresh` and `ScrapesAreAtomic`. The invariant
  relates the snapshot under construction to the list it was started from
  (visited and still to do make up the list; everything in it is at least as
  new as its start), and a scrape's emitted and remaining families to its copy.
  `AnswersAreNeverOlder` needs more: nothing published is older than any copy, and
  no copy older than any answer, because a cycle makes every one of its calls
  after its predecessor was published.
- `RateLimiterProofs`: `LimiterSafe`, then `LimiterTypes`,
  `RetryAfterIsHonoured`, `CallsKeepPace`, `WaitsNeverExtended`. What the limiter
  was told is covered by `backoffUntil`, which never moves back, and what a
  caller has learned of it by its copy while it waits;
  requests admitted plus tokens left never exceed bucket plus refill.
- `VectorCollectorProofs`: `VectorSafe`, then `VectorTypes`, `ScrapesFit`,
  `AnswersGrow`, `SeriesReadsAreAtomic` and `CyclesAlwaysMoveOn`. It is not enough
  that the vectors fit together after a record, since values are read in the
  middle of one. The invariant says how far they may be apart at each
  step of the record in progress: by the families that it has still to go into
  (`VectorsWillFit`), and a deployment's duration not at all, since it is counted first
  (`CountedFirst`); that no scrape sends while a record is filed (`LockedApart`); and
  of each scrape that what it has read, together with what it has yet to read,
  fits (`ScrapesAreSound`), which is where the order of reading is needed.
  `AnswersGrow` adds that the vectors cover everything read or answered.
  For `SeriesReadsAreAtomic` a series that was sent and not yet read counts as
  seen: reading it cannot make it vanish.
  `CyclesAlwaysMoveOn` shows that every step of `Run` lowers a
  tuple of naturals in lexicographic order (projects, entries, stages, calls,
  records, the way between two), and that no scrape begins while `Run` waits.
- `ConfigProofs`: `FlagDecides` (a good flag, or else its variable, decides);
  `DefaultsAreFinal` (a setting with a default and no flag has its default,
  whatever file and environment say: the general form of what `promises`
  finds); `PrecedenceWithoutDefault` (settings without a default do follow the documented
  order: the default applied twice is the only thing that breaks it).
- `StartupProofs`: `StartupSafe`, then `StartupTypes`, `ProjectsAreTrackedOnce`,
  `CompletedWildcardsMissNothing`, `CommandLineIsObeyed`,
  `EntriesAreAlwaysTracked`, `WildcardsCostBounded` and `GatedNeverRegistered`.
  `EntriesAreAlwaysTracked` rests on `ListInv`: the entries before `next` are in
  the list, and no page takes anything from it. `WildcardsCostBounded` bounds the
  pages of a wildcard by the projects that can exist at all, however the listing moves. `WildcardsAreComplete` speaks of completed wildcards;
  the strengthening `PagesReadAreTracked` says of the one at hand that what is
  owed and listed on a page already read has been found. It survives a change of
  the listing by the lemmas on `Rank`: a new project moves none to an
  earlier place, the loss of one moves only older ones, which are owed no longer.
- `TierDetectorProofs`: `FreeOnlyIfForbidden`, `NotFoundIsUltimate` (an instance
  that answers 404 to every probe is taken for Ultimate), `TierCoversFeatures`.

They assume the named `ASSUME`s of the modules (finite sets of tasks, metrics,
stages, places and projects; numbers that are numbers) and nothing else.

Model-checked only: liveness (`ShutdownCompletes`, `TasksKeepRunning`,
`CyclesEnd`, `WaitEnds`, `StartupEnds`), which is beyond the prover. Of three of
them the part that a single step can break is proved all the same: a cycle's steps always
lower a well-founded measure (`CyclesMoveOn`, for `CyclesEnd`), a wait neither
goes back nor grows (`WaitsAreNotExtended`, for `WaitEnds`), and a wildcard
has only so many pages as there can be projects (`WildcardsCostBounded`, for `StartupEnds`). What remains with
TLC is that fairness makes the steps happen.

## Not modelled

- Data that no property is about: metric values, histogram buckets, label texts,
  logging, the JSON of `/config`, pprof, YAML decoding, URLs sent to GitLab. Two
  contributors of one name (duplicate series) and a project path put into a URL
  unescaped are therefore outside these models; both are listed as hazards.
- Code that nothing runs: the task queue (nothing creates one), the webhook
  handler (not mounted on the mux), `Registry.RunAll`, the tier detector's
  caller, the limiter's `Remaining` and `ResetAt`, the store's `Get`, `Set` and
  last-updated functions, and the List functions of `rest.go`, since the
  collectors use the library's client directly. `Detect` itself is modelled, as
  is the way those functions pass through the limiter.
- A scrape over several collectors: `Registry.Collect` calls one after the
  other, and collectors share nothing. Duplicate series across them would need
  the label texts. The exporter's own metrics go to the default registry, while
  `/metrics` serves the one made in `server.go:48`: they are never scraped.
- In the vector collectors: more than one child per pipeline, queue durations (those
  of child pipelines are sent after the count and not before it), coverage and
  artifact gauges, suites and test cases, which are set in the same records. Entries are recorded newest
  first, so that the gauge with the help "Latest pipeline ID." ends at the oldest
  pipeline of the page; and total and counts of one test report, read one by one,
  may be of two reports.
- In the configuration: the rules of single fields; elements of lists, which
  `Validate` does not reach; keys of the example file that no field has
  (`project_defaults`, where the field's tag is `defaults`); `log.level`, which
  nothing reads.
- Redis beyond whether it could be opened; the chart and the dashboards, which
  hold no behaviour of the program.

## Plan

The components that the program runs are modelled and their safety properties
proved. What would add most from here:

1. The headers of a failed page (`rest.go:57`), once a collector goes through
   the client's own List functions: a page loop in `RateLimiter` with
   listings that shift, from `Listings`.
2. A registry scrape over several collectors, with the label texts that can
   collide, as one model of what makes a whole scrape fail.
3. The task queue and the webhook handler, when `main` wires them: bounded
   queue, drop when full, panics, and their place in the order of shutdown.
