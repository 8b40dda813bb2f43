# Scrapix in TLA+

Specifications of Scrapix, a distributed web crawler written in Rust that
feeds Meilisearch, with the TLC runs that check them and the TLAPS proofs of their main
properties. Paths are relative to the root of the repository, which `PROJECT.json` calls `src/`.

Everything is translated from the Rust code. The documentation is only quoted where the code does
something else (see *Findings*).

- [The system](#the-system)
- [The modules and the code](#the-modules-and-the-code)
- [The runs](#the-runs)
- [Fairness](#fairness)
- [The proofs](#the-proofs)
- [Findings](#findings)
- [What is not modelled](#what-is-not-modelled)
- [Plan](#plan)
- [Running it](#running-it)

## The system

A crawl goes round a loop of services that talk over a message bus, Kafka in production and
in-process channels in the all-in-one binary:

```
 client --HTTP--> API server --URL_FRONTIER--> frontier service --URL_PROCESSING--> crawler worker
                    |   ^                          ^                                  |   |   |
                 Postgres |                        +------- URL_FRONTIER (links) -----+   |   |
                 Stripe   +------------- EVENTS --------------------------------------+   |
                 Redis    |                                                               |
                 ClickHouse                                                               |
                          +---- EVENTS ---- content worker <---- PAGES_RAW ---------------+
                                               |
                                           Meilisearch
```

### Components

| Component | State | Operations | Correct when | Here |
|---|---|---|---|---|
| **Frontier service** `bins/scrapix-frontier-service` | per job: Bloom filter, bounded priority queue, limits, counters; the dispatch channel | consumer: `try_add`; collector: `pop_ready`, `can_fetch`, `start_request`, send, push back; dispatcher: publish, `mark_dispatched`, `complete_request` / `record_error`; shutdown drain | a URL is handed on at most once, none vanishes, caps and depth hold, slots are returned, a queued URL leaves | `Frontier`, `UrlLedger` |
| **Politeness** `crates/scrapix-frontier/src/politeness.rs` | per domain: requests in flight, time of the last, delay, errors, pause | `can_fetch`, `start_request`, `complete_request`, `record_error`, `set_delay`, `pause`, `resume`, `clear_domain` | in-flight counts are never above what is outstanding | `Politeness`, `PolitenessSpec` |
| **Frontier memory** `history.rs`, `recrawl.rs`, `linkgraph.rs`, `simhash.rs` | URL history, link graph, fingerprints | record, decide to crawl again, evict; check and add, cluster | the memory is what was recorded; near duplicates are found | `FrontierMemory` |
| **Crawler worker** `bins/scrapix-worker-crawler` | permits, fetches under way, domains whose sitemap was read | `process_url`: fetch, publish page, links, event | nothing is lost or announced too early between the topics | `CrawlPipeline` |
| **Fetching** `crates/scrapix-crawler` | robots.txt cache, permits, tabs and sessions | fetch with retries, render, extract links | rules are fresh, tabs bounded, links stay inside | `PageFetch`, `Renderers`, `LinkSelection` |
| **Content worker** `bins/scrapix-worker-content`, `crates/scrapix-storage/src/meilisearch.rs` | consumer position and committed offset, storages by account with their buffers, duplicate detector, shutdown flag | handler, `get_storage`, `add_document(_to_index)`, `flush`, commit; `process_page`, block splitter | a document reaches its own index, none is forgotten, offsets follow handling, documents are the page | `ContentWorker`, `PageDocuments` |
| **AI enrichment** `crates/scrapix-ai` | permits | call with retries; read JSON, lists, summaries from the answer | the answer read is what the model said | `SyncRequests`, `AiAnswers` |
| **Message bus** `crates/scrapix-queue` | topics, offsets; bounded channels | send, `process`, `process_concurrent` | what is sent is handled; full channels do not lock up | `ContentWorker`, `CrawlPipeline`, `ScaleToZero` |
| **Job lifecycle** `bins/scrapix-api/src/lib.rs`, `jobs_db.rs` | map of jobs, activity times, dirty set; rows in Postgres | `do_create_crawl`, `cancel_job`, `process_event`, the idle detector, the counter flush, spawned writes, recovery at start-up | billed once per run, a page at most once for each time the consumer joined its group, every silent job ends | `JobTracker` |
| **Event streams** `lib.rs`, `clickhouse.rs` | broadcast ring, subscribers, batches | apply, broadcast, WebSockets, `create_crawl_sync`, batch and flush | a viewer misses only what it lagged behind; callers are answered; events are stored | `EventStreams` |
| **Index and history** `redis.rs`, `delete_stale_documents` | validators in Redis, documents of the index | conditional request, publish, 304, clean-up of a Replace job | a page that is skipped is indexed | `ReplaceCrawl` |
| **Requests the API answers itself** `lib.rs` | balance, permits of the model, URLs found | `scrape_url`, `search_url`, `map_url` | paid for, complete and within limits | `SyncRequests`, `SiteMapping` |
| **Credits and payments** `crates/scrapix-billing`, `stripe.rs` | balance, transactions, settings; customers, cards, invoices at Stripe | check, deduct, auto-top-up, purchase, webhooks, cards | never negative, spend limit, each payment credited, cards in view | `CreditLedger`, `StripePayments` |
| **Schedulers** `configs.rs`, `email_scheduler.rs` | `next_run_at`, attempts | config endpoints, `run_cron_tick`, `process_due_emails` | bounded runs per due time, nothing stays due | `CronConfigs`, `EmailQueue` |
| **Usage reports** `analytics.rs`, `clickhouse.rs` | batches of rows, rows | record, flush, the queries of the pipes | written in the end; reports agree | `UsageReports` |
| **Accounts** `auth/`, `engines.rs`, `rate_limit.rs` | members, invitations, keys, codes, tokens, engines, windows | team calls, OAuth grants, verification, reset, social sign-in, key use, default engine, limits | no act without the right to it, tokens act once, one default | `Teams`, `Access`, `SignIn`, `Credentials`, `OAuthTokens`, `RateLimiter` |
| **Processes** `bins/scrapix`, `main.rs` of each, `idle.rs` | tasks, flags, counters | start, signals, idle watchdog, abort, wake-up | an asked process ends, clean; idle means idle | `Services`, `ScaleToZero` |
| **Command line** `bins/scrapix-cli` | queue, permits; `config.toml` | local crawl; login, refresh, logout | budget kept; the login stays usable | `LocalCrawl`, `CliLogins` |

`PROJECT.json` lists every component with what of it is modelled, and those that are not (prices,
other storage back-ends, the console, command-line wrappers, tests) with the reason.

### How they interact, and what is hard

* **Messages.** URL_FRONTIER carries seeds and links to the frontier, URL_PROCESSING admitted URLs
  to the crawler, PAGES_RAW pages to the content worker, EVENTS progress to the API. Kafka delivers
  at least once to the consumers that commit after handling and at most once to those that commit
  before. Nothing orders messages of different producers. In the all-in-one binary a send waits
  while its topic is full, and the services feed one another in a ring.
* **Tasks and locks.** Each service runs several tokio tasks over shared maps, atomics and mutexes,
  and holds no lock across most awaits. The interesting states lie between two lock acquisitions:
  a URL popped and not yet counted, a job between the detector's scan and the end of its cleanup, a
  limit checked and not yet spent, a storage flushed while a document is added.
* **Statements without transactions.** Most API handlers check with a SELECT and act with a later
  statement: cron ticks, claimed e-mails, default engines, team rules, token exchanges.
* **Spawned work.** The API makes its Postgres writes and credit deductions in spawned tasks, with
  snapshots, in no order.
* **External services** answer late, twice or not at all: Stripe charges and calls the webhook
  besides; Meilisearch, Postgres, Redis and ClickHouse refuse; a site changes between two requests.
* **Crashes and scale-down.** Workers are stopped by a watchdog or by the platform and started by
  the next crawl, the API restarts and recovers what Postgres knows, commands of the command line
  share a file.

`PROJECT.json` lists these hazards one by one, with the line where each bites and the property that
covers it.

## The modules and the code

Every module starts with a comment that says what it stands for and how it abstracts. `map` in
`PROJECT.json` gives the lines that each definition translates. Definitions keep the names of the
code where that reads well; `X_Mutant` (or `X_...Mutant`) is `X` with a bug, and exists to show that
a property would notice it.

`MCCrawl`, `MCPlatform` and `MCHandlers` each put several modules that share nothing into one run:
the variable `subject` names the part that a behaviour is about, `Only(part, step)` lets only that
part step, and the initial states of the other parts are fixed. The states of such a run are the
sum of the states of its parts, not the product.

### `Politeness`, `PolitenessSpec`

`Politeness` holds the state `domains` and one operator per method of `PolitenessScheduler`. All
methods take the lock once, so each is one step. Instants become the time since the last request,
capped at the longest delay: no comparison can tell values beyond it apart. Integer division and
truncated products are the code's. `PolitenessSpec` drives the whole interface on its own with an
`outstanding` counter, what `in_flight` is meant to be: requests are answered in any order while an
operator pauses, resumes, clears or re-configures the domain. `Frontier` instantiates the same
module.

### `Frontier`, `UrlLedger`

| Code | `Frontier` |
|---|---|
| consumer handler, `JobFrontier::try_add` | `Consumer`: `Accept(m)` or `Reject(m)`: limits fixed by the first message, depth, Bloom filter (which may err), `Push` with eviction |
| collector loop: `pop_ready`, per-URL admission, `tx.send` | `CollectorTick`, `CollectorPop(j)`, `CollectorAdmit(e)`, `CollectorDelay(e)`, `CollectorSend`, `CollectorSendError`, `CollectorLoop` |
| dispatcher loop | `DispatcherRecv`, `DispatcherPublish`, `DispatcherMark`, `DispatcherComplete`, `DispatcherFail`, `DispatcherLoop`, `DispatcherClosed` |
| shutdown flag | `Shutdown`, at any moment |
| clock | `Elapse` |

State: `limits`, `queue`, `seen` and the counters are the job frontiers; `batch`, `channel`,
`ready` and the two program counters are what the tasks hold; `domains` is the scheduler. History
variables record what was `published` and why a URL was given up.

`UrlLedger` is the promise: a URL of a job is accepted once, and then handed on once or dropped,
not both. `Frontier` implements it (`KeepsLedger`): pushes, re-pushes, sends, receives, cap checks
and politeness are stutters, and the bounded queue and failed publishes are the drops.

### `JobTracker`

| Code | `JobTracker` |
|---|---|
| `do_create_crawl` | `CheckQuota`, `Register` (with the eviction of jobs), `Heartbeat`, `Started` / `PublishFailed`, `Abandon` when the request is dropped |
| `cancel_job` | `Cancel` |
| `process_event` | `PageCrawled`, `OtherEvent`, and `PageCrawledAgain` for an event that is delivered again |
| the consumer of EVENTS, which does not wait for its commits (`consumer.rs`, 313-318, 406-421) | `Rejoin`: what was consumed since it last joined its group may come `again` |
| idle detector | `ScanIdle`, `Complete(idle)`: the scan and, after the cleanup of stale documents, the completion |
| spawned writes and deductions | `Write(w)`, `DebitJob(j)`, at any later moment |
| counter flush | `FlushStart`, `FlushWrite` |
| restart | `Restart`: forgets the memory and the spawned tasks, loads active rows; the consumer joins its group anew |

The state has three layers that may disagree: `jobs` (memory), `writes`/`flushing`/`debits` (under
way), `rows`/`charged` (database). `fetched` counts what the crawl really did, each page once
however often its event comes.

### `CreditLedger`

One account. A task walks through the places of a handler: `Admit` (the unlocked check), `Deduct`
(`check_and_deduct_credits`, atomic and re-checked), `ReadSettings`, `CheckLimit`, then `Pay` at
Stripe or `FreeTopUp`. Manual top-ups and purchases join in. `Pay`, `PayUnseen` (the answer is
lost) and `Decline` are Stripe. `Confirm` is the look-up of `add_credits_for_payment`, `Credit` or
`CreditFails` the transaction after it. The webhook is `Deliver`, `HookCredit`, `HookFails`.
`Abort` drops a task whose caller went away. Transactions that update the account's row are one
step, since Postgres locks the row; everything read before such a step may be stale.

### `ContentWorker`

| Code | `ContentWorker` |
|---|---|
| `KafkaConsumer::process`: stream, handler, commit | `Take`, `Refuse`, `Return` (position stored), `CommitArrives`; `Crash` resumes at `committed` |
| handler | `Skip`, `Configure` (index settings), `Store` (`get_storage`), `Add` per document, `Send` / `SendFails`, `Announce` |
| flusher task | `FlushTick`, `FlushTake(e)`, `FlushSend` / `FlushFails`, `FlushEnd`, under the lock of the map |
| shutdown, end of `run` | `Shutdown`, `StreamEnd`, `FinalFlush`, `Exit` |

A storage is created for the index of the first job that needs the account and shared by all later
ones; a document for another index is sent directly (`IsDirect`). Documents are pairs of offset and
number; `indexed`, `lost`, `acked`, `handled`, `refused` record what became of them.

### The crawl (`MCCrawl`)

| Module | Code | Actions |
|---|---|---|
| `CrawlPipeline` | the crawler worker between the topics, on Kafka (commit before the handler, sends that fail) or on bounded channels (sends that wait), with all other services reduced to what they take and give | `Poll`, `Spawn` (the permit), `Handle(u)` steps through `process_url`: sitemap, page, links, last the event; `SendFails(u)`, `Crash`, `Restart`, `Quit` |
| `ReplaceCrawl` | several incremental or Replace jobs of one index: validators in Redis, 304, the buffer, `delete_stale_documents` | `StartCrawl`, `FetchPage`, `PublishPage`, `IndexPage`, `ExpireHistory`, `CompleteReplace`, failures of each |
| `EventStreams` | an event's way through the API: applied to the job, broadcast in a bounded ring, batched for ClickHouse; three kinds of followers | `ConsumeEvent`, `BroadcastEvent`, `Subscribe` and `SendSnapshot` (job WebSocket), `FollowJob` and `UnfollowJob` (general WebSocket), `LookAtJob`, `AwaitEvent` and `WaitExpires` (`create_crawl_sync`), `AddToBatch`, `FlushTick`, `QueryHistory`, `Stop` |
| `ScaleToZero` | idle watchdog, shutdown flag, the two consumer loops, wake-up of the machines by a crawl | `SampleCounter`, `TakeMessage`, `RefuseMessage`, `LeaveLoop`, `Wake`, `Kill` |
| `PageFetch` | the fetcher: robots.txt cache with its time to live, concurrent fills, one check for all attempts of a page; time passes while robots.txt is read, in an attempt (`AttemptTime`) and in a backoff (`MaxBackoff`) | `CheckCached`, `AskRobots`, `ServeRobots`, `CacheRobots`, `SendAgain`, `SiteChanges`, `PassTick` |
| `Renderers` | every operation of the DevTools and WebDriver renderers as steps on a tab or session under a permit | `StartRender`, `TakeStep`, `StepFails`, `CloseFails`, `DropRender`, `EndRender` |

### Background tasks and processes (`MCPlatform`)

| Module | Code | Actions |
|---|---|---|
| `CronConfigs` | endpoints of crawl configurations and `run_cron_tick`, on several servers | `SelectDue`, `TriggerDue`, `AdvanceNextRun` as statements of their own, `ReadConfig` / `SaveConfig` of an editor, `CrashServer` |
| `EmailQueue` | `process_due_emails`: a claim counts an attempt, the outcome is recorded after the send | `ClaimDue`, `Dispatch`, `RecordOutcome`, `RecordFails`, `CrashPoller` |
| `UsageReports` | the rows that requests and crawls write, the batches, and the queries of the pipes as operators over the rows | `LogScrape`, `LogCrawl`, ..., `AddRow`, `FlushFull`, `FlushTick`, `InsertFails`, `ServerStops` |
| `Services` | the life of a process: `scrapix all` or one service, with its optional parts, its tasks and what only memory holds, rows whose addition is spawned and has not run included (`adding`); ticks that a stop does not interrupt | `Launch`, `StartService`, `StartFails`, `BindPort`, `ReadMessage`, `BatchRow`, `StartTick`, `TickCompletes`, `EndTick`, `AddUsage`, `Flush`, `LeaveTask`, `Signal`, `IdleExit`, `GetsOn`, `Exit`, `KillProcess` |

### Handlers (`MCHandlers`)

Accounts: `Teams` (each call is `BeginCall`, the check, and its act; and the engines of an account:
clear, then set the default), `Access` (a request from
credential to act, while keys and roles change), `SignIn` (the three look-ups of
`find_or_create_user` beside a password sign-up), `Credentials` (verification and reset by mailed
tokens; a new reset token is made also when the UPDATE that should end the old ones failed),
`OAuthTokens` (exchange as SELECT, UPDATE, INSERTs; hourly clean-up), `RateLimiter` (Redis
and fallback), `CliLogins` (commands that share `config.toml` and trade refresh tokens, which
the server may use up and then fail to replace: `RotateFails`).

Payments: `StripePayments` (customer and cards, handlers against webhooks; item, invoice, finalise,
pay, grant, where two purchases share a customer's pending items), `SyncRequests`
(balance, work, model calls under permits, deduction, answer).

Searches: `SiteMapping` (`map_url`: sitemaps, title waves, levels whose pages arrive in any order,
deadline), `LocalCrawl` (main loop and tasks of `scrapix local`), `LinkSelection` (normalisation,
kinds, domains, glob patterns; pages, redirects and depth in a chain).

Pure algorithms run as state machines over all inputs of a bounded size and are compared with a
declarative definition: `FrontierMemory` (history and graph with eviction, against what was
recorded; union-find and the greedy detector against chains of similar documents),
`PageDocuments` (three handlers of one page with the same steps in different orders; the block
splitter walks the page, and `BlocksAreThePage` says what blocks a page has), `AiAnswers`
(`repair_json` against the pieces of the reply that are JSON; texts that cannot be cut to
length are not sent, `CutFails`).

## The runs

All passing runs finish with every state explored, and every mutant listed in `PROJECT.json` breaks
its property in the run it names.

| Run | Subject | Properties |
|---|---|---|
| `frontier_capped` | one job with page cap and depth limit, 4 keys on 2 domains, queue of 2, batch of 2, channel of 1, 4 messages, Bloom errors, failing publishes | `NoUrlVanishes`, `PageCapOvershootIsBounded`, `KeepsLedger` (refinement of `UrlLedger`) |
| `frontier_two_jobs` | two jobs, 3 keys, unlimited queues, channel of 2, 2 messages each, shutdown at any moment | `SlotsMatchRequests`, `EveryUrlLeaves` |
| `jobs` | two jobs in a map of 1, or one job with up to two restarts or one rejoin of the events' consumer | `BillsMatchRuns`, `NoPageInvented`, `RunningJobEnds` |
| `credits` | 2 tasks, 2 payments, costs 1 and 3, deposit 3, amount 2, threshold 2, limit 3, 4 operations, 2 deliveries, 1 failed transaction | `SpendOvershootIsBounded`, `PaymentsAreCredited` |
| `content` | 2 accounts, 3 pages of 3, 1 and 2 documents, batch of 2, 1 failed request, 1 crash, shutdown at any moment | `OwnIndex`, `NothingForgotten`, `LossIsBounded`, `EveryPageHandled` |
| `crawl` | `PolitenessSpec`, `CrawlPipeline`, `ReplaceCrawl`, `EventStreams`, `ScaleToZero`, `PageFetch`, `Renderers` | `NeverOvercounts`; `CrawlIsAccountedFor`, `PipelineDrains`; `SkippedPagesAreIndexed`; `ViewersMissNothing`, `EventsArrive`; `IdleWindow`; `RulesAreFresh`; `TabsAreBounded` |
| `platform` | `CronConfigs`, `EmailQueue`, `UsageReports`, `Services` | `SlotRunsAreBounded`, `DueConfigRuns`; `EmailsAreHandled`; `ReportsAgree`, `UsageIsWritten`; `EndsClean`, `AskedProcessEnds` |
| `handlers` | the modules of *Handlers* above | `AccountsAreSound` (`Teams`), `TokensAreSpent` (`OAuthTokens`, `Credentials`, `CliLogins`), `AdmissionsAreBounded`, `PaymentsHold` (`StripePayments`), `ActsWereAllowed`, `SignInsAgree`, `UrlSearchesHold` (`SiteMapping`, `LinkSelection`), `BudgetsHold` (`SyncRequests`, `LocalCrawl`), `FrontierRemembers` (`FrontierMemory`), `ContentIsKept` (`PageDocuments`, `AiAnswers`, the duplicates of `FrontierMemory`) |
| `jobs_cancel`, `credits_twice`, `replace_crawl`, `page_events` | the smallest instances that show a finding | expected violations, see *Findings* |

**What the properties say of the parts.**

* *Crawl.* The scheduler never counts a request that is not there. A URL or a page between the
  topics is lost, or reported too early, only for as many sends and crashes as went wrong; and
  however small the channels the ring of services runs dry. A page whose history says that it need
  not be fetched is in the index, but for one page per mishap. A follower of a running job misses
  only what the ring overwrote; what happened is stored and callers that wait are answered. A worker
  is stopped only after an idle time without progress, give or take a sample. No page is fetched
  against rules that forbade it for longer than the cache keeps them, robots.txt is on its way and the
  attempts and backoffs before it took. A browser has as many tabs as
  it has permits, and one more for each fault.
* *Platform.* A due time starts at most one crawl per server and setting, and one more per crash,
  and no enabled configuration stays overdue. E-mails settle and are left alone when sent. Rows are
  written or lost, and the reports over them add up to one another. A process that is asked to end
  does, and what ends by itself leaves no work behind but what came to the API when its flusher had
  gone: additions that were spawned before and had not run, the one event that was being polled, the
  requests of connections that were open, jobs that a tick of the idle detector completed, AI usage.
* *Handlers.* Each property says what a reader of the rule would expect, with the exception that
  the code's missing transaction makes, counted: *unless two requests cleared the flag at once, and
  then no more than overlapped*. The exception is as narrow as TLC allows, and any further deviation
  breaks the property.

**Why the bounds are enough.**

* *frontier_capped.* Four URLs over a queue of two evict; a channel of one makes the collector wait
  in `send` with the dispatcher at work; a cap below the number of URLs and a batch larger than what
  is left make the overshoot happen. `frontier_two_jobs` has one domain that both jobs use with a
  single slot, so one job's URL waits for the other's dispatch.
* *jobs.* With room for one job in the map and two jobs, the creation of the second evicts the
  first, once it is cancelled or completed, while its writes are still under way; one event in all
  is enough for a bill, and nothing is restarted. With one job, events and restarts
  number three together. One event and two restarts are the smallest instance in which a row
  recovered once is recovered again after having been billed; with two events and one restart a row
  lags behind. A rejoin takes the place of two of the three, which leaves the one event that comes
  again. `jobs_cancel` has no rejoin.
* *credits.* Two tasks pass the limit check together; the deposit and the costs leave the balance at
  the threshold with the second operation refused or admitted; two payments of the two kinds and two
  deliveries of each webhook meet a failed transaction. For longer histories the bound is proved.
* *content.* The first page fills a batch and leaves a rest, the second goes to another index of the
  same account (the direct path), the third is a near-duplicate on the other account. One failure
  and one crash at any moment; what more of them do, `LossIsBounded` sums up.
* *crawl.* Politeness: one domain (they are independent), two slots, four requests outstanding, so
  that a cleared domain is filled again while old answers are under way; the code's thresholds 3 and
  10 and twelve errors; robots delays below, inside and above the band. Pipeline: channels of one
  message, one permit, a page with two links of which one is a seed and the other only in the
  sitemap, one failed send or crash, so that a send waits on a full topic while the other channel
  fills. Replace: one page whose versions go to 3, two overlapping jobs, one failure (a page is
  independent of the others until the clean-up, for which `replace_crawl` has two pages). Events:
  one follower of each kind, a ring of 1 that overwrites with the second event, a batch of 2 that
  the events may not fill. Scale to zero: one machine with each of the two consumer loops, an idle
  time of three ticks that is no multiple of the sample time, one message waiting. Fetching: two
  fetches fill one cache entry; an attempt takes two ticks, longer than the one for robots.txt, and a
  backoff one, with one retry. Renderers: two callers and one permit, so that a screenshot's second
  permit is contended; two faults.
* *platform.* Two configurations and a batch of 1, so that a tick leaves one for the next; two
  servers, one editor with two edits, one crash; times 0 and 1 with periods 1 and 2. Two e-mails and
  two pollers with a claim of one, two attempts, one failure. Usage: two callers, one without an
  account, two sites, one crawl, two rows in batches of two, days of two hours, KPIs over one domain
  so that they truncate. Services: all deployments; the API alone may have its database, ClickHouse
  and AI or not, in `scrapix all` only its database is optional (`AllIsSmall`: the services share
  nothing that the other two would change); two pieces of work held, a channel batch of two, one
  open connection, each signal once.
* *handlers.* Two requests at once, three where a third can come between (cards, invoices, sign-ins,
  engines), as nearly all of these races are between two; counts just large enough to come round
  again (four calls of a team with three users, four tokens, four switches of three engines, three
  e-mails, two requests for a reset token whose UPDATE failed or came too early, three pairs of the
  command line's tokens). The rate limiter has six requests against a quota of two, in windows of
  three units. Sites are four pages with a cycle, repeated links and a page two levels down;
  sitemaps refer to themselves and repeat pages; limits are 0, 2, 3 or 5 and depths 0 to 2. The pure algorithms take all inputs up to their size: all pages of up to four of eight nodes
  and three pages of twelve in any order (`PageDocuments`), all lists of up to three documents that
  are empty, answered, failed or cannot be cut, and all replies of up to four brackets and values,
  bare or between words or fences (`AiAnswers`), all four-document batches of two-bit fingerprints
  (`FrontierMemory`), pairs of eleven references from five hosts under five settings
  (`LinkSelection`).

Constants named *bound* in the modules limit the model, not the code. Deadlock is not checked where
a model stops when they are used up or the service ends; `frontier_capped` checks it.

## Fairness

Safety properties are checked and proved for `Init /\ [][Next]_vars`. Liveness rests on:

* `Frontier!Fairness`: the collector and the dispatcher, two tasks of the tokio runtime, go on when
  they can, and time passes. Nothing is assumed of the consumer. `EveryUrlLeaves` makes exceptions for
  a job at its cap, a paused domain (only an operator resumes it) and shutdown.
* `MCJobTracker!MCSpec`: time passes until a silent job is idle, and the detector's loop ticks.
  Nothing forces events, spawned writes or the flush.
* `CreditLedger!FairSpec`: Stripe delivers the webhook of a payment, and the handler of a delivery
  runs. The task that paid may be dropped at any moment.
* `ContentWorker!Spec`: the handler, the flusher and the end of `run` go on when they can. The
  handler's fairness is strong: it waits for the map's mutex, which tokio grants in order of arrival,
  so that the next flush cannot overtake it for ever. Weak fairness would allow that. Nothing makes
  pages arrive, requests succeed or the flag be set.
* `MCCrawl!CrawlFairness`: each service of the pipeline takes and hands on when it can, and a worker
  that stopped is restarted; the API's event consumer, its broadcasts, the spawned batch additions
  and the flush interval run; a caller of `create_crawl_sync` looks at the job when it is due to,
  and its deadline passes. Nothing fails, stops or crashes because it must.
* `MCPlatform!PlatformFairness`: the loops of every server's pollers run, an e-mail's delay ends,
  tasks that add rows and the flush interval run, an insertion is answered, one way or the other. A
  process's loops and tasks are scheduled, its fetches and ticks end, and `main` returns. A periodic
  task leaves its loop under strong fairness: `select!` chooses at random between the stop and the
  next tick, so the ticks cannot come first for ever. Clients need not hang up, and nobody need kill
  anything.

`MCHandlers` states no fairness: its properties are all of safety, and a request may always be
dropped.

## The proofs

`tlapm` checks all theorems for every value of the constants that satisfies the modules' named
assumptions: types of the constants, finite sets where the code has finitely many of something
(servers, engines, requests in flight, records), marks such as `NoLimit`, `Nil` or `NoCard` that
are none of the values they stand beside, and capacities that are not zero. Tasks, messages, pages
and limits are arbitrary; the bounds of the runs are arbitrary too. Every inductive invariant named
below was an invariant of a TLC run before it was proved.

The proofs follow one pattern. Most properties are counts: *at most one, and one more for each thing
that went wrong*. Such a bound is not inductive; the invariant counts besides what is done what has
been checked and is still to be done (a handler past its SELECT, a message in hand, a token on its
way to a file), so that each step only moves a unit from one term of the sum to another, or adds one
together with the fault that explains it.

**`FrontierProofs`.** `IInv` strengthens `OneCopyPerUrl` and `NoUrlVanishes` with where an entry may
be: queue, batch, the collector's hand, channel, the dispatcher's hand, published, given up; that
everything known is in the filter; and that a queue holds its own job's entries. Each step *moves*
an entry from one place to another, and one lemma per action says which (`PopMoves`, `SendMoves`,
...). From `IInv` follow `EachUrlOnce`, `NoUrlLost` and the refinement `ImplementsLedger`, in which
a moved entry is a stutter, a drop or a hand-on. `OvershootIsBounded` needs more: `CountInv` says
that the counter lags behind the published set by at most the entry the dispatcher has in hand, and
`CapInv` bounds *popped* entries by the cap plus what `pop_ready` cannot see, the channel's capacity
and one. `DepthIsLimited` follows from the depth of all known entries (a frontier's limits are
written once), `CountersAgree` from counting the filter. `SlotsAreExact` counts the requests of a
domain in the channel and in both hands: `AppendCounts` and `TailCounts` follow one through the
channel, `SlotTaken` and `SlotReleased` say what the scheduler makes of it, and a stopped task, with
which the channel is dropped, is never started again.

**`JobTrackerProofs`.** `BillInv` orders the life of a job: no bill before its creation is done, a
running job has at most as many bills as there were restarts, and so has one the detector found and
has not completed. That is what makes a slow cleanup, a second scan and a late cancellation
harmless. `PageInv` bounds every copy of a counter, in memory, in flight and in rows, by `Due`: the
pages fetched for each time that the consumer joined its group before, and those consumed since.
What has been consumed and what will come again are pages that were fetched (`DeliveryInv`). `DoneInv` says that until a restart whatever is
recorded as completed, or about to be, has a bill.

**`ContentWorkerProofs`.** One inductive invariant `IInv`: the stages of the handler (`HandlerOK`),
commits behind completed messages (`CommitOK`), every buffered or travelling document with the
engine and index of its page (`OwnDocs`), every document of an announced page, and of the page in
hand, accounted for (`AccountOK`), and the last flush (`ClosingOK`). `OwnIndex`,
`CommittedIsHandled`, `NothingForgotten` and `ExitIsClean` follow.
`LossIsBounded` has an invariant of its own, `LossInv`. A crash loses what is in memory, so that has
to be bounded first: each buffer is one short of a batch, a request in flight holds at most a batch
(`SizesOK`), and what a flusher has taken and the same engine's buffer are full together only while
the page in hand refills it, in which case the handler has no request in flight (`RefillOK`: the
flusher holds the lock that the next `get_storage` would wait for). Without the last part the bound
would be off by a batch. The union over all engines is bounded without induction over the set of
engines: pairs of an engine and a number up to a bound cover it (`FamilyIsSmall`).

**`CrawlProofs`.** The parts of the crawl around the frontier, each under its own specification.

* `PolitenessSpec`, `PolitenessInv`: the types, `NeverOvercounts` and `DelayInBand` together are
  inductive. Every method changes one domain, `DomainChanges` says that it is enough for the new
  state to be `Sound` for the new count, and one lemma per method shows that. That no late answer
  wakes a paused domain (`PauseHolds`) follows from the same lemma about answers.
* `CrawlPipeline`, `PipeInv`: a URL is in one place (`PlacesInv`), so that no delivery overwrites a
  handler's state; a handler has sent whatever comes before its step, and a page is reported no more
  often than it was delivered (`ReportsInv`); what is in hand is bounded by the permits, so a crash
  drops at most one URL for each of them, and whatever is known is live, reported, refused or dropped
  (`LossInv`). One lemma, `CrashesAreFaults`, bounds redeliveries by faults.
* `ReplaceCrawl`: the stranded pages, those the history would skip that are neither indexed nor on
  their way, are a finite set no larger than the mishaps; `StrandedNone`, `StrandedOne` and
  `StrandedBound` say what a step may add, and one step per action shows which of the three it is. A
  clean-up may strand many, and counts as many.
* `EventStreams`, `StreamInv`: what was applied is, for each follower, in its excuse, received, in
  the ring ahead of it, or held by a task that has yet to broadcast it. The property leaves out the
  third and fourth, which is why it is not inductive.
* `ScaleToZero`, `WindowInv`: the watchdog's view trails what happened by at most one sample.
* `PageFetch`, `RulesInv`: the age of whatever a fetch relies on (an answer on its way, an entry, a
  check already made) bounds how long the site has forbidden the page; after the check the attempts
  so far and the wait under way are added (`RetriesAddUp`).
* `Renderers`, `RendererInv`: a call holds exactly what its steps so far took. `HoldingNext` relates
  this for one step and the next, for any of the operations; their lists of steps are well formed
  (`OperationsAreWellFormed`).

**`PlatformProofs`.**

* `CreditLedger`: `NeverNegative` is inductive with types: only `Deduct` lowers the balance, and it
  looks at it in the same step. `SpendOvershootIsBounded` needs `Promised`: credits given away plus
  one amount for each task that passed the limit check stay within the limit and one amount for all
  tasks but one. A check that passes may add a promise only when the sum fits.
* `CronConfigs`, `CronInv`: a tick selects a row once; while a slot is open, its runs and the servers
  that are about to run it or to move the row on are paid for by the offers and faults so far.
* `EmailQueue`, `EmailInv`: a row that a poller holds exists; `SentIsNotClaimed` is an action property
  and rests on it. It is the safety half of `EmailsAreHandled`.
* `Services`, `ServicesInv`: what a service has before it is built, what the flusher's presence means
  for what memory holds, what the event consumer and axum may take after the signal, and which
  services end by themselves. Without a flusher what is held or still to be added is no more than what
  came late.
* `UsageReports`: each row says of its request whether it succeeded (`Told`, `LogInv`), so the
  statuses of any set of rows add up. What a report groups by a key is a family of sums over a
  partition of the rows; `SumOfGroups` adds it up to the sum over all of them.

**`HandlerProofs`.** The specification is `HandlersSpec` of `MCHandlers`, whose parts do not share a
variable: for each of nineteen parts an invariant is kept by its own steps and by those that leave
it alone, and the theorems join the parts as the properties of the run do. The invariants of eleven
parts are proved in the module itself, those of the eight that find and read pages in `PageProofs`.

* *Teams*: who is joining, by an accepted invitation or a sign-up, holds one that names them, since
  nothing but that call takes an invitation away. *Engines*: default engines and requests between the
  two statements number one together, unless two crossed, and never more than the requests.
* *OAuth*: usable refresh tokens, exchanges that will issue one and an unspent code number one, and
  one more for each overlap. Ids are used once, so the parent an exchange has read is still of its
  grant (`ParentsMatch`). *Credentials*: tokens that can be used, and forms that are about to make
  one, number one together, and one more for each form that the last invalidation did not see or whose
  own failed. *Command line*: a pair on its way to the file is in no
  other hand, and has not been rotated; a rotation that fails leaves its token an orphan.
* *Rate limiter*: Redis has counted every request of an interval that its key has not outlived, and an
  interval meets at most two windows of the memory. The statements range over all intervals, past
  and future, since a window that starts later still counts old requests.
* *Cards*: while one request creates the customer nothing names one, and what names one afterwards
  names the stored one (`OneCustomer`). *Invoices*: an item is pending or on one invoice from the time
  that it exists, and a paid invoice has its credits or its webhook.
* *Access*: an account that a call has found is one that it was entitled to at some moment, and every
  later look-up is about the same credential. *Sign-in*: a linked identity was linked by an attempt
  that names the user; an attempt that nobody overlaps finds it as it left it. *Requests that are
  answered at once*: until its deduction a request can be paid for, or another paid since its check.

**`PageProofs`.** What the code computes over queues, sequences, sets and pages, for every input.

* *Local crawl*: a URL is visited first, then in the queue once, or with the main loop, then fetched;
  pages counted or running exceed the limit by at most the permits, by less while another permit is
  taken; and between the report's two copies no task starts.
* *Frontier memory*: what was forgotten is older than everything known and is there only if the
  history is full; links are the same in both directions. That the record to be forgotten is the
  oldest of those known is a conjunct of the invariant (`OldestAreEvicted`), kept by each step.
* *Mapping a site* (`MapInv`): what was found lies within the level that the search has come to, and
  as long as nothing failed or was cut short the levels before it are complete (`Reached`, a function
  on the levels, is never left: `LinkedFrom` of a complete level is the next one). A search that stops
  because a level brings nothing new has found all of them. Sitemaps are unfolded to `MapsDepth` by
  induction over the depth.
* *Links* (`LinksInv`): a link that was taken passed every filter of the setting, its host is a domain
  that was allowed or below one, whatever chain of links led there, and nothing that passes them was
  left out. A glob's meaning is a set of reachable places per symbol (`reach`); the scan keeps one
  place, where the piece before a star first occurs. By induction over the pattern it is never behind
  a place that is reachable (`KeepsUp`), so a match exists if and only if the scan finds one. That the
  scan may take the first occurrence, and skip no `/` unless the pattern has `**`, is the content of
  it.
* *Near duplicates* (`NearInv`): a link leads to a document of greater rank (`Rises`), so the path
  from each document ends at a root within as many links as there are documents; two documents have
  one root if and only if pairs that were compared and matched lead from one to the other
  (`ForestIsRight`, `Closed`). The fixpoint that defines the clusters is a walk that grows until it
  stops, which is the pigeonhole principle.
* *Documents* (`DocumentsInv`): each page that was taken is held, wholly, as an earlier page with its
  text is, or something failed; whatever later pages add or overwrite at its URL keeps that. Documents
  are upserted one by one (`Upserted`), some of them refused: the index holds what it held and what
  was accepted.
* *Blocks* (`BlocksInv`): after t nodes every closed block is what the page has between its heading
  and the next one that cuts, and the current one is what it has up to t; the hierarchy is what place
  t stands under on each level (`Stands`); the blocks' places are 0 and the cuts up to t (`StartsAre`).
  A closed block does not change because the next cut is behind it. At the end the long ones, in order,
  are the long places (`LongOfIs`, `SizeIs`: the size of a list of distinct places is that of the set),
  and the first of them are those that fewer than the limit precede (`RankIs`).
* *Answers* (`AiInv`): what is parsed is a part of the reply (`BetweenIsPart`, `Bare`), a reply that is
  one JSON value is taken as it is, and the outermost brackets of a reply that has one object and only
  prose around it are that object's (`LoneIsRead`: reading it never closes more than was opened). The
  documents whose text could be sent are counted one by one (`OneDocMore`).

**`FoldLemmas`.** The library states induction with an operator as a parameter, which the provers
cannot instantiate. It is stated here for sets: a set of naturals that has 0 and the successor of
each of its members has them all (`CountingUp`, which follows from the pigeonhole principle), and so
for finite subsets (`TakingAway`). From these: a recursion on naturals or on finite sets has a
function that satisfies its equation (`WalkEnds`, `FoldExists`); sums over finite sets, and by group
(`SumRemove`, `SumOfGroups`); least and greatest elements; flattened sequences, prefixes, suffixes
and parts.

These proofs are why the modules say of marks such as `NoHome`, `NoVisit`, `Nobody` and `Ready` that
they are none of the values they stand beside, and of sets such as `Forms`, `Tabs`, `Exchanges`,
`Callers`, `Addresses` and `KnownUrls` that they are finite.

| Theorem | Property |
|---|---|
| `FrontierProofs`: `TypeCorrect`, `EachUrlOnce`, `NoUrlLost`, `ImplementsLedger`, `OvershootIsBounded`, `DepthIsLimited`, `CountersAgree`, `SlotsAreExact` | `TypeOK`, `OneCopyPerUrl`, `NoUrlVanishes`*, `KeepsLedger`*, `PageCapOvershootIsBounded`*, `DepthLimitHolds`, `CountersAddUp`, `SlotsMatchRequests`* |
| `JobTrackerProofs`: `TypeCorrect`, `BilledOnce`, `PagesCovered`, `CompletionBilled`, `BillsMatch` | `TypeOK`, `BilledOncePerRun`, `NoPageInvented`*, `CompletedIsBilled`, `BillsMatchRuns`* |
| `ContentWorkerProofs`: `TypeCorrect`, `ReachesOwnIndex`, `CommitsFollowHandling`, `ForgetsNothing`, `ExitsClean`, `LossesAreBounded` | `TypeOK`, `OwnIndex`*, `CommittedIsHandled`, `NothingForgotten`*, `ExitIsClean`, `LossIsBounded`* |
| `CrawlProofs`: `TypeCorrect`, `SlotsNeverLeak`, `DelaysAreBounded`, `PauseHolds` | `TypeOK`, `NeverOvercounts`*, `DelayInBand`, `PausedUntilResumed` (`PolitenessSpec`) |
| `CrawlProofs`: `PipeTypeCorrect`, `CrawlsAreAccountedFor`, `ReplaceTypeCorrect`, `SkippedPagesStayIndexed`, `EventTypeCorrect`, `ViewersStayInformed` | `PipeTypeOK`, `CrawlIsAccountedFor`*, `ReplaceTypeOK`, `SkippedPagesAreIndexed`*, `EventTypeOK`, `ViewersMissNothing`* |
| `CrawlProofs`: `ScaleTypeCorrect`, `WindowIsKept`, `FetchTypeCorrect`, `RulesStayFresh`, `RendererTypeCorrect`, `TabsStayBounded` | `ScaleTypeOK`, `IdleWindow`*, `FetchTypeOK`, `RulesAreFresh`*, `RendererTypeOK`, `TabsAreBounded`* |
| `PlatformProofs`: `LedgerTypeCorrect`, `BalanceCovers`, `OvershootIsBounded`, `ReportsTellOneStory` | `TypeOK` (`CreditLedger`), `NeverNegative`, `SpendOvershootIsBounded`*, `ReportsAgree`* |
| `PlatformProofs`: `CronTypeCorrect`, `SlotsRunBounded`, `EmailTypeCorrect`, `SentStaysSent`, `ServicesTypeCorrect`, `ServicesEndClean` | `CronTypeOK`, `SlotRunsAreBounded`*, `EmailTypeOK`, `SentIsNotClaimed`, `ServicesTypeOK`, `EndsClean`* |
| `HandlerProofs`: `TeamsAndEnginesAreSound`, `SpentTokensStaySpent`, `LimitersBoundAdmissions`, `PaymentsAreSound`, `OnlyEntitledActs` | `AccountsAreSound`*, `TokensAreSpent`*, `AdmissionsAreBounded`*, `PaymentsHold`*, `ActsWereAllowed`* |
| `HandlerProofs`: `SignInsComeBack`, `BudgetsAreKept`, `FrontierRemembersRight`, `UrlSearchesAreComplete`, `ContentStaysTrue` | `SignInsAgree`*, `BudgetsHold`*, `FrontierRemembers`*, `UrlSearchesHold`*, `ContentIsKept`* |

Those marked * a run checks too; the others hold in the same models, and are proved only.

**Only model-checked.** The liveness properties (`EveryUrlLeaves`, `RunningJobEnds`,
`PaymentsAreCredited`, `EveryPageHandled`, `PipelineDrains`, `EventsArrive`, `DueConfigRuns`,
`EmailsAreHandled`, `UsageIsWritten`, `AskedProcessEnds`): reasoning about fairness and `ENABLED` is
out of the prover's reach. Of `EmailsAreHandled` the safety half is proved. Every invariant that a
run checks is proved, and so is the refinement `KeepsLedger`.

Some definitions have the form they have because the provers can expand it: a choice of the elements
of a list that pass a test is a function by recursion on its places (`LongOf`, `Upserted`) and not
`SelectSeq` or `SetToSortSeq`, a sum is `SumFunctionOnSet`, and brackets of a model's reply have names
(`brace`, `end_bracket`). The
provers cannot show that a literal is in `STRING`: the lemmas about patterns and URLs range over
sequences of strings and of the literal `"/"` (`Words`).

## Findings

Each is a run whose property quotes a statement of the repository and which TLC violates.

* `jobs_cancel`: the end of `do_create_crawl`, and the completion after the detector's cleanup, set
  the status without looking at it: a cancelled job runs, or completes and is billed.
* `credits_twice`: `add_credits_for_payment` looks for the payment outside the transaction that
  inserts it; the call and the webhook may both credit it.
* `replace_crawl`: the dispatcher drops the `incremental` flag, so a Replace job is crawled with
  conditional requests, and the clean-up deletes the documents of the pages that did not change.
* `page_events`: the flush task never flushes the page events' batch.

Noticed while modelling, without a run of their own. Where a property makes an exception for one,
it is the exception that the property counts.

*Frontier and politeness.*

* The comment on `pop_ready` calls the page cap exact; URLs popped and not yet published are not
  subtracted. The overshoot is bounded, and the bound is proved.
* A recrawl decision `Skip` drops a seed without a word (`process_messages`, lib.rs 754-790): a job
  whose seeds are all fresh gets no event and never ends.
* The duplicate detector is shared by all jobs and accounts and does not skip the page itself: a
  page crawled again is a duplicate of itself, and a Replace clean-up then deletes it.
  `check_and_add` ignores `max_fingerprints`.
* The link graph at its limit still adds sources it does not track to `inbound`; a negative age
  becomes a large one in `num_seconds() as u64`, so the page is crawled at once;
  `record_not_modified` has no caller, and `skip_high_error_rate` no use.
* The dispatcher drops `source` and `account_id` of a message besides the flag above.

*Workers and processes.*

* The frontier service and the content worker read with `process`, which never looks at the shutdown
  flag and never ends: they neither exit when idle (docs/deployment/fly-io.mdx:32) nor on a signal;
  the content worker's last flush is never reached; their flusher stops while the loop stays.
  Instead the handler refuses every message and the consumer commits it, so that pages and URLs
  taken while a worker is being scaled down are discarded, where the guide expects redelivery.
* Ctrl-C aborts the services of `scrapix all` though a comment says that each shuts down gracefully,
  and sleeps two seconds where the comment says five; buffered documents and channel contents are
  lost. SIGTERM stops only the API, and the process stays. A service that fails leaves the others
  running without it. After a failed bind the event consumer goes on for ever.
* At shutdown the API waits for open event streams, whose events no longer come; the flusher's last
  flush may precede the last polled event, the last requests, the end of a tick of the idle detector
  (lib.rs:5073-5208), AI usage, and additions to a batch that were spawned before (381, 473). Those
  rows are lost.
* Sitemaps are read once per domain and process of the crawler, so a second job on the domain gets
  none; messages from sitemaps lack the job's limits and account.
* robots.txt is looked at once for all attempts of a page (fetcher.rs:371-431): a retry may go to a
  page that was forbidden minutes before.
* Retryable HTTP status codes are never retried (fetcher.rs, near 147: an answer is not an error).
* A renderer's call that returns early leaves its tab or session behind; `headless` selects
  `with_head`; console logs and script errors are never filled in; `execute_script`, `set_cookies`
  and `find`/`click` do not look at robots.txt.
* Patterns with `*` match any deeper path and are not anchored, though the comment says that `*`
  stops at `/`; a pattern that mixes one `**` with `*` takes the `*` literally. A redirect to another
  host makes that host's links allowed.

*Content.*

* The set of configured indexes is keyed by the name alone, so that the second of two accounts with
  one index name does not get its settings; settings are those of the first job's features.
* A PDF that cannot be decoded is counted by nothing; empty pages get no event; PDF and markdown
  pages publish no history.
* In a `<header>` inside the content root the page's h1 is lost; `has_content(0)` always holds;
  `truncated` is set also when there are exactly `max_blocks`; blocks with equal anchors overwrite one
  another; blocks carry no markdown, AI results or custom fields.
* `repair_json` panics when the last `}` comes more than a byte before the first `{`, and reduces a
  list of one object to the object, which `extract_list` then refuses. The AI client's timeout has
  no use. A text whose cut tokens are no UTF-8 is not sent at all (`TokenizerError`, client.rs:297-299).

*API.*

* A job whose counters were not flushed before a restart comes back with zero pages and, if its
  crawl is over, never ends (`IsIdle`). Row writes are spawned and unordered, so a row may stay
  `running` for a completed job. Pages of failed jobs are never reported.
* The consumer commits an event as it polls it and does not wait (consumer.rs:313-318, 415), and
  nothing recognises an event that comes again: its page is counted and billed twice.
* `forgot_password` ignores that the old tokens could not be invalidated (auth.rs:533-538), so two may
  be live, and the other survives a reset. A refresh revokes the old token before it inserts the new
  pair (oauth.rs:593, 637-653): if that fails the command line keeps a refresh token that is used up.
* `create_crawl_sync` answers a `JobFailed` event with success and a failed job it polls first with
  an error, and waits an hour for a job that was evicted (lib.rs 3733-3797). The general WebSocket
  never sends its replies (4306-4313).
* A scrape is charged for AI work that failed or was skipped. A look-up of the account that fails
  counts as *authentication is not configured*, so the request is not billed (lib.rs 985-987).
* `map_url` resolves links against the requested URL, cuts each level to the remaining budget,
  does not look at its deadline within a level, and leaves its fetches behind when it answers.
* A declined card, or a purchase whose item another purchase's invoice took, makes the automatic
  top-up give the credits away; an item left by a failed purchase is charged with the next. A late
  webhook makes a detached card the default; two first requests create two customers.
* The hourly deletion of OAuth tokens fails while a dead token has a live child (oauth.rs:805).
  A refused request renews the rate limiter's window. `create_engine` ignores a failed clear of the
  default flag. Logging in by password as a user of a provider panics; e-mails are compared as typed.
* The KPI pipe adds up ten thousand domains only; rows with an error and a 2xx/3xx status count
  twice; AI usage by account is always empty.

*Command line.*

* A local crawl ends after 100 ms of an empty queue although fetches are under way; `--concurrency 0`
  waits for ever; a page's depth is its first discoverer's.
* Logging out revokes the access token only, and a refresh under way writes the login back
  (auth.rs:419). The callback listener takes one connection, whichever it is. `config.toml` is
  written without a lock and not atomically.

## What is not modelled

* **Text and numbers without state**: HTML, Markdown and PDF parsing, schema and metadata
  extraction, language detection, URL strings (their parts are modelled where links are selected),
  PageRank's arithmetic, MinHash, prices. Their results are free choices or parameters.
* **I/O**: sockets, TLS, DNS, the browsers, the drivers, the wire formats of Redis, SQL, ClickHouse
  and the AI providers; SQL beyond the statements that race.
* **Unused code**: the partitioner, the multi-level queue, the persistent robots.txt cache, proxies,
  the S3 and RocksDB back-ends, the link-graph messages' other consumers.
* **Reads and writes of one row**: settings, lists of jobs, bulk creation (which repeats
  `do_create_crawl`), invoices; generated API descriptions; the MCP client and the remaining commands
  of the command line, each one request and a print-out; the console.
* **Data abstracted inside the models**: metrics, logs, wording and metadata of messages; the other
  counters of a job; the Bloom filter's bits (it errs at random); Kafka partitions and rebalances,
  except that the API's consumer of events may join its group again (one partition, in order,
  redelivered from the committed offset, or any order and repetition).

## Plan

Done: the crawl loop's core (`Frontier`, `JobTracker`, `CreditLedger`, `ContentWorker`); the rest of
the pipeline, the background tasks, the processes, the handlers, the fetching side and the algorithms;
and a proof of every safety property that a run checks.

Next, in this order:

1. `JobTracker` with `CreditLedger`: the bills of several jobs against one balance.
2. Larger instances of `ReplaceCrawl` (two pages with failures) and of `EventStreams` (a ring of 2),
   as far as five minutes allow.
3. The remaining reads of the API that cross components: job history across memory and ClickHouse,
   bulk creation under the concurrent-job limit.
4. Refinement of `UrlLedger` through `CrawlPipeline`, so that the ledger's promise is stated of the
   workers as well as of the frontier.

## Running it

In this directory, with TLC (and the community modules) and tlapm 1.4.5 on the path:

```
tlc -workers 2 -config MCFrontierCapped.cfg MCFrontier
tlapm FrontierProofs.tla
```

`PROJECT.json` names the module and the configuration of every run.
