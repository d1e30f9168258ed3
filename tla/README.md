# News Caught: specifications

News Caught is a desk for A-share news: a FastAPI backend fetches some sixteen
news sources, stores the items in SQLite, scores them with rules and language
models, raises alerts on the user's stocks and pushes everything to a Vue page
over server-sent events. This directory holds TLA+ specifications of the parts
where threads, processes, the database, Redis and the page meet, the TLC
configurations that check them on small instances, and proofs for TLAPS.
Paths below are relative to `src/backend/app/`, or to `src/frontend/src/` where
they start with `front:`. `PROJECT.json` maps every definition to its lines.

## 1. Inventory

The backend runs as one process (uvicorn with daemon threads, `main.py`) or as
two (web process and `workers/pipeline_worker_main.py`), which then talk
through Redis streams. SQLite in WAL mode has one writer at a time.

| component | state it keeps | operations | talks to |
|---|---|---|---|
| ingest scheduler (`services/news_ingest_scheduler.py`, `news_refresh_lease.py`) | due times, failure and empty streaks in memory; the manual refresh's lease | tick: refresh due sources; hand the backlog to the queue worker | ingestion, `analysis_queue`, lease table |
| ingestion (`services/ingestion/`) | `news_item`, `source_health`, `article_content` rows; duplicate index per batch | parse a feed, gate on relevance and duplicates, fetch detail pages, store each outcome in one transaction | event bus (`news.created`, `news.created_batch`) |
| signal dispatch (`workers/queue_worker.py`, `main.py`) | `analysis_queue`, in-flight leases, `news_item.signal_status` | enqueue on event, scan, acquire, touch, process, commit, announce, release | pipeline, alerts, event bus |
| signal pipeline and topics (`services/news_signal_pipeline.py`) | topics, links, statistics; crawled articles | crawl, classify, match a topic, link, refresh statistics; the prune script | language models, database |
| event bus (`services/event_bus.py`) | failure streak, circuit, last error | `publish`, `publish_batch` | Redis, local handlers |
| stream relay (`services/redis_stream_bus.py`) | position of each consumer | XADD with MAXLEN; poll, inject into the local bus | the other process |
| news alerts (`services/alert_service.py`) | digest windows in memory; `alert`, `ai_alert_deferral` rows | `on_news_batch`, `on_news_impacts`, `sweep_deferred`, `flush_digests` | queue worker, AI funnel, quote producer |
| alert centre (`api/routes/alerts.py`, `front:stores/alertStore.ts`) | `read_at` and `visible_at` of the rows; the page's list and badge | list, count, mark one or all as read; receive a push | alerts, event bus |
| AI funnel (`workers/ai_funnel_worker.py`, `services/ai/`) | `news_ai_*`, `news_impact`, `impact_correction` rows; drafts of the open transaction | gate on spend, infer sectors, screen, read in depth, alert; the user corrects | LLM providers, usage buffer, alerts |
| token accounting (`services/token_usage_buffer.py`, `services/llm_cost.py`) | rows in memory under a lock; `llm_token_usage` | add, flush when full, old or by timer; cost of the month | database, spend gate |
| takeaways (`workers/takeaway_worker.py`) | queue, daily count in memory | drain candidates, fallback scan | LLM providers |
| LLM providers (`services/llm_providers.py`, `api/routes/llm.py`) | configuration rows, the answer cache | chat, stream, embed, analyse with retries and failover; edit configurations | HTTP, usage buffer |
| quotes and price alerts (`services/quote_service.py`, producers) | `price_snapshot` rows, first price and live days | refresh the watchlist, answer on demand, alert | HTTP providers, event bus, alerts |
| market pages (`services/board_provider.py`, `fund_flow_service.py`, `market_chart_service.py`, `market_sentiment_service.py`) | three caches in memory and Redis | read through, fall back, aggregate a mood | HTTP providers |
| watchlist and analyses (`api/routes/watchlist.py`, `services/stock_news_search.py`, `news_analysis.py`) | watch items, `news_stock_mention`, `news_analysis` rows | enter and delete a share, search for its news, analyse an item | web search, LLM providers |
| feed layout (`services/news_feed_layout.py`, `repositories/news_repository.py`) | nothing: computed from the tables | rank, fuse topics into cards, open a card, page the list | page |
| response cache and SSE (`core/simple_cache.py`, `api/routes/news.py`, `api/routes/stream.py`) | rendered replies with a TTL; a bounded queue for each connection | read through, clear on events, subscribe, drop the oldest, unsubscribe | event bus, page |
| page (`front:stores/`, `front:api/sse.ts`, `front:components/layout/AppShell.vue`) | lists, request ids, connection state, timers | load, poll, merge events, page, reconnect | API |
| worker base, health, pools (`workers/base_worker.py`, `services/ops_health.py`, `http_pool.py`) | thread, stop flag, heartbeat and failure times; a row for each worker; shared clients | start, stop with a join timeout, run cycles, report, shut down | all workers |
| housekeeping (`services/cleanup.py`, `backup.py`, `workers/digest_worker.py`) | archives, backups, the day's digest | archive then delete, copy and prune, a digest once a day | database, files |
| scripts (`scripts/`) | none of their own | migrate link hashes, prune topics, measure | database beside the running system |
| portfolio, research, configuration, other stores, views | rows and pure functions | CRUD, aggregation, rendering | all |

What is hard to test here:

* **Interleavings.** Three threads and an event handler share `analysis_queue`
  and the lease table; two refreshes of one source may overlap; all publishing
  threads share one breaker; three threads flush digest windows; the AI funnel
  keeps SQLite's write lock through calls to a model; requests edit or analyse
  rows that they read before another request wrote them.
* **Partial failure.** A batch is rolled back half way, a publication fails at
  the Redis hop, a deferral is deleted and its alert not yet created, usage
  rows leave the buffer and cannot be written, a heartbeat is not accepted.
* **Crash and restart.** Queue, leases, digest windows, due times, quotas and
  the day's digests are memory.
* **Delivery.** Events are trimmed from the stream, dropped from a full queue,
  missed by a page that is not connected yet, or overtaken by other events.
* **Staleness.** ETags, AI mode, cached replies, duplicate indexes, topic
  statistics and cursors are read at one time and used at another.
* **Limits and edges.** A list at its cap, a window of prefetched candidates, a
  time without date, a session across the user's midnight, ends of the pieces of
  a score.
* **Progress.** No pending item may be forgotten, no breaker stay open, no page
  stay offline, no source wait beyond its backoff.

Every such place is listed at its line under `hazards` in `PROJECT.json`, with
the properties that cover it.

## 2. Modules

| module | models | checked in |
|---|---|---|
| `SignalLifecycle` | what the signal pipeline promises about an item | `dispatch_flow`, implemented by `SignalDispatch` |
| `SignalDispatch` | ingestion, scheduler and queue worker around queue and leases | `dispatch_flow` |
| `StreamRelay` (`MCStreamRelay`) | one Redis stream between processes | `relay_flow` |
| `NewsAlerts` | keyword rules, AI mode, deferrals, digest windows | `alerts_flow`, `alerts_expired` |
| `AiFunnel` | cycles of the AI funnel, usage buffer, write lock, corrections | `funnel_flow`, `funnel_spend` |
| `LiveFeed` | a row's way to the page: cache, SSE, loads, polls, reconnects | `feed_flow` |
| `EventBusCircuit` | publication by several threads, breaker and budget | `outbound_flow` (`MCOutbound`) |
| `LlmProviders` | retries, failover, streams, embeddings, answer cache | `outbound_flow` |
| `WorkerShutdown` | start and stop of both processes around the shared client | `outbound_flow` |
| `NewsIngest` | refreshes: fetch, duplicate gate, one transaction for each outcome | `writers_flow` (`MCWriters`) |
| `IngestScheduler` | due table, backoff, manual refresh, shown status | `writers_flow` |
| `HashBackfill` | the migration of link hashes | `writers_flow` |
| `Takeaways` | the takeaway worker and its quota | `writers_flow` |
| `NewsAnalysis` | concurrent analyses of one item | `writers_flow` |
| `FeedParsing` | records and times of a feed, from poll to poll | `content_flow` (`MCContent`) |
| `RelevanceGate` | the relevance rules in their order | `content_flow` |
| `DuplicateGate` | the duplicate index inside a batch | `content_flow` |
| `Articles` | bodies: feed, detail page, crawl | `content_flow` |
| `Topics` | topics, links, statistics, prune script | `content_flow`, `topics_score` |
| `EventCards` | fusion of topics into cards, the detail of a card | `content_flow` |
| `FeedPages` | the paged list: cursor, cap, merged events | `content_flow` |
| `ImpactAlerts` | alerts and digests called for by the AI's verdicts | `writers_flow` |
| `AlertCentre` | alert rows, the page's list of them and its badge | `content_flow` |
| `QuietHours` | local days and the user's quiet hours | in `ImpactAlerts`, `AlertCentre`, `QuoteAlerts` |
| `WorkerHealth` | heartbeats, failure records, alarms | `services_flow` (`MCServices`) |
| `QuoteAlerts` | quotes of a share and the alerts on them | `services_flow` |
| `MarketCaches` | caches of boards, fund flow and candles | `services_flow` |
| `MarketSentiment` | the mood of a market from indices, VIX and boards | `services_flow` |
| `NewsSentiment` | the mood of a market from the news | `services_flow` |
| `StockNews` | watchlist, search for news of a share, mentions | `services_flow` |
| `Digests` | digests before and after the market | `services_flow` |
| `LlmConfigs` | requests that edit provider configurations | `services_flow` |
| `Housekeeping` | archive and delete, backup and prune | `services_flow` |

`SignalDispatch_proofs`, `StreamRelay_proofs`, `NewsAlerts_proofs` and
`LiveFeed_proofs` hold the theorems about the module they are named after
(`NewsAlerts_proofs` also one about `AiFunnel`, which it instantiates with
constants and variables of its own); `Outbound_proofs`, `Services_proofs`,
`Content_proofs` and `Writers_proofs` those about the instances in `MCOutbound`,
`MCServices`, `MCContent` and `MCWriters`.

`MCOutbound`, `MCWriters`, `MCContent` and `MCServices` put the instances of
several modules side by side. The modules of a group have no state in common:
`active` names the one that moves and the others stay in an initial state, so
the exploration is the union of theirs, and each property of the run speaks of
one module (`active = "..." => ...`), or of two in the case of
`SentimentIsSound`. The bounds of an instance stand in the `.cfg`, as constants
of the `MC` module, where also the assumptions about them are: that is what the
theorems about the instances are for every value of. A constant that two
instances share, as the length of the day and the quiet hours, has one value for
both.

In all modules a constant that begins with `Max` or `Last`, and `MaxClock`,
bounds the exploration and stands for nothing in the code, except `MaxLen`,
`MaxAttempts`, `MaxMultiplier`, `MaxPrimeWindow` and the `MaxRetries` of
`LlmProviders`, which are settings of the program like all other constants.
Operators introduced by "Mutation of ..." are not part of any specification:
they are plausible bugs, one for each checked property, kept to show that the
property notices them.

### SignalDispatch

`status` is the column `signal_status`, `queue` is `analysis_queue`, `lease` the
in-flight table (as ticks left). The threads have program counters where the
code has a database commit, a queue operation or a table lock: the scheduler
lists, claims, enqueues; the worker drains or scans, touches, processes (and may
fail), commits, announces, releases. The announcement is `news.updated` and the
alert rules; when the rules raise, the exception is counted and the batch is in
`missed` instead of `matched`. `PublishCreated` is the handler of
`news.created_batch`, which enqueues without a lease. A crash empties queue and
leases. The crawling, rules and language models of the pipeline are the choice
between success and failure.

*`dispatch_flow`*: while the worker works on an id, its lease lasts as long as
the lease duration allows (`LeaseCoversBatch`), `acquire` never grants such an
id again within that duration (`NoRedeliveryInProgress`), memory only names
committed rows and only committed results are announced
(`MemoryFollowsDatabase`). `WorkIsDone` is the liveness: every pending item is
processed, through failed batches and a restart; the alert rules are run for
every processed item or have raised on its batch, unless a crash comes in
between, so that a failure costs alerts of one batch and nothing else; queue and
leases come to rest. All of
it is a refinement of `SignalLifecycle`, with its liveness
(`ImplementsLifecycle`). Two ids, batch size 1 and a backlog of 2 make the batch
smaller than the backlog; a lease of 2 ticks can expire both in the queue and in
processing; one failure and one crash can hit every step.

### StreamRelay

One stream, any number of processes, each with publisher and consumer; a
restarted process is a new incarnation and takes its former one for a stranger,
as the code's instance id does. *`relay_flow`*: an incarnation injects in order
and once, never hears its own events, skips nothing that was not trimmed, and
leaves the backlog alone unless the server was away at its start
(`RelayedInOrder`); what is appended while it listens reaches it
(`EventuallyRelayed`). One process starts twice, MAXLEN 2 with three events
forces trimming, and Redis may fail once.

### NewsAlerts

Three threads call the service. Windows are popped under the lock and written
later, by then another thread may buffer, flush or alert; AI mode is read once
and may be stale; the user trades while hits wait. *`alerts_flow`*: no buffered
hit is lost, no window is flushed twice, on which the dedupe key depends, and
the daily limit holds across workers (`WindowsAreSafe`); hits reach a digest and
every hit is settled by one mode or the other (`HitsComeToAnEnd`). Two items,
windows of 2 minutes and a clock of 3 make the window end once with work in
flight.

### AiFunnel

A cycle goes through its phases, and each call to a model through its steps:
begun, answered or not, accounted for, used. `draft` holds the analysis rows of
the open transaction; from the first outcome that is flushed until the commit
the funnel is SQLite's writer (`Locked`), calls for other items included. The
usage buffer is flushed by the thread that adds a row or by the timer; a flush
that meets the write lock waits, and once `busy_timeout` is over, which needs a
holder that is in a call or itself waiting, drops its rows. The alerts
themselves are in `NewsAlerts`. *`funnel_flow`*: every cycle ends, though its
thread may wait for a lock it holds itself or for the buffer's lock while the
flusher waits for the write lock, and an item chosen for reading is read or out
of attempts, unless the budget is spent (`FunnelSettles`); only the user takes
the user's impacts away (`UserRowsStay`). With two items per cycle the second
call is made under the lock; two attempts, a daily limit of 2 and one failed
cycle or restart give retries on the same day and the next. A budget of two
calls, with rows flushed in twos or by the timer, lets the gate close and usage
get lost.

### LiveFeed

A row's commit, the two halves of its publication (pages, cache; the order
depends on the event), reading and storing a reply, and every step of
the page are separate. The list is the stream of the feed layout, the one
list the page polls. The page has a newest load and one it overtook; request ids
are abstracted to that distinction. `conns` has both ends of each SSE
connection: the client's source and the server's subscription with its queue.
*`feed_flow`*: with no load under way, the page shows the reply to its last load
unless it failed, and it listens to one source (`PageIsConsistent`); once writes
stop, it shows the newest rows as committed, whatever was dropped, missed or
cached stale, it goes live, comes back after a break, and its old subscription
goes (`FeedSettles`; only the TTL and the poll make it so: the race between
storing and clearing does occur). `boot` is how far `bootstrap` of `AppShell.vue`
has come: polls and subscription begin after the status and all initial loads
have succeeded, and a page of which one is rejected is "aborted", has neither and
is excepted by name. Two rows, a list and a queue of one element and two
writes fill list and queue; one upset is a break, a rejected bootstrap, a failed
or extra load, or an event the handler rejects. `usingMock` is FALSE, as in any production build.

### Calls that leave the process: `outbound_flow`

*EventBusCircuit.* Threads publish batches; each event tries Redis (circuit
closed, budget left) and then the local handlers. Time passes in ticks, a call
to Redis takes at most `CallLimit`. A batch is held up for less than the budget
plus one call, the breaker opens only when the last `Threshold` calls of all
threads failed, few calls begin before it opens, a failure is reported
(`PublishingIsSound`). Two threads, threshold 2 and batches of 2 let one thread
succeed between two failures of the other.

*LlmProviders.* A request is a chat, a stream, a batch of embeddings or a JSON
analysis; it posts, retries, fails over once to a backup while the
configurations change in every way `LlmConfigs` allows, and takes or leaves an
answer in the cache. `CallsAreSound`: a call costs at most one retry budget and
one attempt on a backup other than its first provider; no stream is started over
once part of it was handed on; an analysis that posted has the schema of its own
purpose, a cached one that of a purpose with the same key, and vector i belongs to
text i. `CacheKey` is what the code's key tells apart: the classification passes
a scope, the takeaway and the analysis of shares pass none and share a key. Two
configurations and one retry give both a retried and a failed-over call; three
purposes and two texts let answers be mixed up.

*WorkerShutdown.* One process starts its workers and stops them, waiting for
each at most two seconds, then closes the shared clients; each worker may be at
any step of a getter. `PoolIsSound`: an open client is the one the pool holds,
and none is opened after the terminal state. Both processes, four workers and
up to four clients let two threads meet in the getter and a client be created
after the closing.

`EverythingEnds`: a batch reaches the local handlers and the circuit closes, a
call returns or fails, a worker that was told to stop ends although the pool is
closed under it.

### Rows that several writers change: `writers_flow`

*NewsIngest.* Writers run `refresh_all`: parallel fetches with the ETags read at
the start, outcomes stored in the order they complete, for each outcome one
transaction that begins with reads of committed data and takes SQLite's lock at
its first write. `newsRows` is the committed table and `view` what the lock
holder sees. `StoriesAreKept`: what the server may answer 304 for is stored;
while refreshes do not overlap, a story is one row whose source and link agree
and rows are never lost or handed to a source of lower rank. Two writers, two
sources of one story, an irrelevant item and a change of a feed give the
promotion, the duplicate and the stale ETag.

*IngestScheduler.* Two sources, one of them watched; each outcome of a cycle is
stored as its fetch completes (`StoreOutcome`); the streaks and the due table
follow when the cycle ends, unless it raises after some outcomes were stored; the
manual refresh takes its lease and stores its outcome beside it.
`SourcesAreServed`: the watched source is fetched again within its longest
backoff and two cycles, and a source that answers is shown as "ok". Its success
may be stored at the beginning of one cycle, its next fetch is counted from the
end of that, waits for a cycle of other sources and completes at the end of its
own, so for the latter a cycle must take at most a third of the cadence
(`CyclesAreShort`; a request times out, and the cadences are 100 s and more), and
TLC refutes the property with any longer one. A cadence of 3 ticks and a multiplier of 2 show backoff
and empty probing; `MaxAge` 7 is beyond the status threshold.

*HashBackfill.* The script plans, writes in batches of 2 in one transaction
each, retries single rows after a refused batch, and may be stopped and run
again, while the ingestion inserts or promotes a row. `BackfillIsSafe`: a link
the duplicate gate knew stays known, unless its row was touched meanwhile;
without the ingestion nothing fails and a second run changes nothing. Three rows
and four links of two pages collide in every way.

*Takeaways.* Layouts queue what has no conclusion, the worker asks in parallel
within batch limit and daily quota and stores all answers at once.
`TakeawaysAreSound`: a conclusion stays, and the answers of cycles begun on a day
are within its quota unless the process restarted. Two items, a quota of 1 and
two days, with a restart.

*NewsAnalysis.* Threads ask the provider and write the item's one row; a row
that was loaded earlier may have changed, and an UPDATE names only what differs
from what was loaded. `ResultsAreKept`: the last committed result is never lost
to a failed call, results are announced in the order of their rows, and a
success shows as an error only if another thread wrote in between. Two threads,
three calls.

*ImpactAlerts.* A verdict's impacts become alerts on holdings up to the daily
limit, and otherwise hits of three groups of digests; keyword alerts share the
rows, and the user edits list and sectors. Threads are in `NewsAlerts`; here the
entry points run one after the other and the content counts. `VerdictsAreSound`:
what a committed verdict called for is an alert, in a digest or waiting, until a
restart wipes the windows out; the limits hold over midnight and next to keyword
alerts; a row is visible right after the quiet hours and was published exactly
if that was at once. Two verdicts on one holding with a limit of 1, one naming
its sector and one a share not listed; four slots a day, quiet from the last
into the first; digests of two slots, a clock of five; one edit and one fault.

### From feed to reader: `content_flow`

*FeedParsing.* A page of records, the newest first, some malformed or repeated,
polled from time to time by one of three kinds of parsers. `FeedsAreRead`:
nothing is missed while no more records appear between two polls than the parser
reads, and a time given as a clock or a day and clock is completed correctly as
long as it can be. Three slots a day, three days a year and 27 slots cross
midnights and new years.

*RelevanceGate.* A text is a set of kinds of terms in title and body; it grows.
`MoreIsNotLess`: a relevant item stays relevant when it says more, except for
the terms that give others their meaning, and half of a two-part signal is none.
All texts of up to three terms.

*DuplicateGate.* One session and its batches: prefetched candidates, kept up to
date by `register`, or queried item by item; an unflushed update is not seen by
a SELECT. `GateIsSound`: while candidates are prefetched no row is inserted that
has a twin within the window. Batches of three items over times 0, 2 and 3, with
a window of 1 and a prime window of 4, are partly within it; a mirror site and
a grey zone of similar titles are included.

*Articles.* Refreshes bring bodies from the feed or a detail page, the pipeline
crawls what has none. `ArticlesAreSound`: a body is kept unless it came when
another writer had already found none; a failing detail page is fetched only so
often in a window; a processed item has a row. Two refreshers, one item that one
feed has with a detail page and another with a summary, two batches.

*Topics.* A batch classifies, matches or creates topics, links, refreshes
statistics and commits; the prune script reads and writes beside it.
`TopicsAreSound`: no dangling link or doubled key, members share the topic's
subject, statistics lag by at most the last batch and count only own news, what
is processed is linked unless its key cannot cluster. Three news that may be
read in up to two ways each, batches of 2, two prunes and one retried batch.

*EventCards.* Topics of the pool become cards, cards of one event are fused, a
card is opened by its key. The loops of the code are recursive functions, and
all operators take the links that were read, so that a property speaks of the
layout's own links (`layout.from`) and not of those of today. `CardsAreSound`:
comparing only within a type changes nothing, each qualifying topic is on one
card, and a card of the unfiltered layout opens on its own news. Four topics of
two markets, every subset of six links.

*FeedPages.* Keyset pages from the server; the page loads anew, loads more and
takes rows from events. `cache` is the response cache of the route: a request
finds its page there, however old within the 3 s, or reads the tables and stores
what it read, also after a publication has cleared the cache in between. An
entry may be gone at any time, as it expires, is evicted or cleared; that is why
no action clears it. `PagesAreSound`: no row twice, and what the list lacks above
its cursor was lost with an event, cut off for a new row, or has changed since
the server read the page, unless its load has not come back; `was`, the rows as
they were when the page was read, is a history that only the property reads.
Three rows, two of one time, and pages of 1 put the boundary of a page between
equal times; two loads and one change of a label let the second load take the
page that the first one left in the cache.

*AlertCentre.* Requests of the page are served and applied in any order while
alerts are made and pushed. `CentreIsSound`: what the page shows as read is read
on the server, no alert of the quiet hours is shown or marked early, and the
badge is the server's count, with exceptions for the overlaps named in section
4. Two alerts, two requests at once, three in all, a night of one slot and more.

### Services around the news: `services_flow`

*WorkerHealth.* The loop with its throttled heartbeat and failure writes, which
the database may refuse. A cycle takes up to `Longest` ticks, or hangs, and
writes nothing before its end; the pause after it is what it left of the
interval. `WorkersAreReported`: a worker that is well is not reported a heartbeat
interval, a pause and its longest cycle after the last trouble, one in trouble is
reported once the time limit has passed. A time limit of 6 for heartbeat 3,
interval 1 and cycles of up to 2 is exactly the room the theorem asks for.

*QuoteAlerts.* Producer and request fetch and save by separate steps, a read
shows the latest row, a refresh alerts. `QuotesAreSound`: what readers see never
goes back, one alert per session of the share's own market across races,
restarts and midnights, an alert of the quiet hours appears right after them.
Six clock values of four slots a day, two markets and one restart.

*MarketCaches.* `CachesAreHonest`: what is not called stale is within its time to
live; what was fetched once is never answered as missing to a later request; a
failed fund flow is answered as missing for its own time to live only. Two
requests, three fetches and a restart.

*MarketSentiment, NewsSentiment.* `SentimentIsSound`: a better input never
lowers the label, a lost VIX moves it away from what the VIX said, a market is
unknown only if nothing is known; the values lie at and between the ends of the
pieces of the scores; what is learnt of news changes the market they count for
and no other. Two news, three raw markets of which one
is not shown.

*StockNews.* Requests, searches and the pipeline write mentions in a table
without a unique key. `NewsAreRelatedOnce`: news and share are related twice only
if two writers overlapped, a search stores all or nothing, a mention is never
lowered. Two threads, a share with two names.

*Digests.* Slots in two time zones, generation by the worker or a request, the
latest digest in memory and in a file. `DigestsAreSound`: once a day and only in
the window, not missed by a worker that was up and free, the file is the latest
unless generations overlapped. A day of six slots and a clock of nine.

*LlmConfigs.* Two requests edit rows they read before. `AtMostOneDefault`. Two
configurations and four edits.

*Housekeeping.* Archive, delete, copy and prune with a failure between any two
steps. `kind` says whether the table is one of the four that are archived or the
LLM cache, of which nothing is; `attached` are the rows that impacts, corrections,
analyses, mentions or links refer to, which come at any time, also between
archive and delete, and go with the row by `ON DELETE CASCADE`.
`HouseIsInOrder`: no row of an archived table is deleted that is not in a file,
what refers to a row goes only with a row that is in a file, and nothing refers
to a row that has gone; if a batch holds what arrives in a day, a row outlives
its retention by at most a day and a day for each failed cycle; a complete backup
is kept once there was one. A retention of one day, batches and days of two rows,
three rows, one failure, three backups of which two are kept: a failed cycle
leaves more than one batch behind.

## 3. Fairness and deadlock

Fairness is weak throughout and only on what threads and timers do by
themselves: a daemon loop takes its next step, a handler returns, a poll or
timer fires, the TTL runs out, a call ends within its timeout. Nothing obliges
an item to arrive, a user to act, a fault or crash to happen or to stop
(their number is bounded instead). In `SignalDispatch` the loops of scheduler
and worker are `while` loops with bounded waits (`BaseWorker._run_loop`), which
is the reason they are fair; in `AiFunnel` the funnel and a flush under way go
on, since a call ends within its HTTP timeout and a wait for the write lock
within `busy_timeout`, and midnight comes; `LiveFeed` lets a poll begin only
when no load is under way since the poll interval (60 s) is longer than any
load, and each await of the bootstrap ends, in success unless the one upset is
spent on its rejection. In `EventBusCircuit` a publishing thread goes on and time passes, in
`LlmProviders` each step of a call does, in `WorkerShutdown` a stop that was
begun and the worker threads go on; the start of a stop is not fair.

The modules of `writers_flow`, `content_flow` and `services_flow` are checked
for safety only: what they promise about time is stated with counted ticks
(`FetchedInTime`, `TroubleIsReported`, `RetentionHolds`) and needs no fairness.
Writers and threads are interchangeable in the first and the last of these runs,
which use symmetry.
`CHECK_DEADLOCK FALSE` stands where the bounded system really stops: all events
appended, end of the clock, all refreshes done, a page whose bootstrap was
rejected.

## 4. Divergences between code and documentation

Each of these is a run whose one property TLC refutes.

* `alerts_expired`: expired deferrals are deleted in one transaction and
  alerted in the next; a failure in between loses the alert.
* `funnel_spend`: the usage of a call made while the cycle's own transaction
  holds the write lock is dropped after a wait of 30 s, so the funnel goes on
  when the month's budget is used up. Usage that is still in the buffer is not
  held against the code.
* `topics_score`: the statistics of a batch's topics are computed before the
  batch's links are flushed, so a topic counts its news one batch late.

Others were met while modelling; the properties above are stated so that they
say what the code does in spite of them:

* The handler of `news.created_batch` enqueues without a lease (`main.py:51`),
  so an item may be processed twice, contrary to the scheduler's comment about a
  single entry (`services/news_ingest_scheduler.py:214`).
* A consumer that starts while Redis is down resolves its position to 0-0
  (`services/redis_stream_bus.py:136`) and later replays the backlog, which
  line 125 excludes; `BacklogLeft` has the exception.
* Overlapping refreshes may leave two rows for a story, and a promotion between
  them changes the source but not the link of one
  (`services/ingestion/persister.py:441`, comment at 353).
* The detail of a card ignores the market filter
  (`services/news_feed_layout.py:650`, against 557), so the key of a filtered
  card may not be found; `UnfilteredKeysResolve` speaks of unfiltered layouts.
* The relevance rules let a weak sector word hide a stronger rule behind it
  (`services/news_relevance_evaluator.py:722`); `MoreIsNotLess` excepts it.
* The daily quota of takeaways is counted on the day a cycle began, and again
  from zero after a restart (`workers/takeaway_worker.py:134`).
* "Once a day" of the digests holds within one life of the process
  (`workers/digest_worker.py:66`, against line 5).
* The prefetched and the queried path of the duplicate gate differ in what they
  see of unflushed updates (`services/ingestion/dedup_gate.py:253`, 172).
* Market sentiment counts rising stocks in the first boards only
  (`services/market_sentiment_service.py:337`), the best ones of the day.
* A worker with an interval above 300 s is always reported as silent
  (`services/ops_health.py:42`), and so is one whose cycle takes longer than
  300 s less the heartbeat interval and the pause, though it succeeds: a batch of
  50 items that crawls and asks a model, with a lease of 600 s, may
  (`workers/base_worker.py:87-98` writes nothing while a cycle runs).
  `HealthyIsQuiet` is about the worker's own longest cycle, and the theorem on
  health states the room needed.
* When the alert rules raise on a batch, its alerts are lost for good
  (`workers/queue_worker.py:436`, which says so at 437): `WorkIsDone` has such
  items in `missed`.
* A page of which an initial load fails stops its bootstrap
  (`front:components/layout/AppShell.vue:319-331`,
  `front:stores/runtimeStatusStore.ts:35`): neither the polls of line 337 nor the
  connection of line 346 begin, and it stays as it is until it is loaded again.
  `FeedSettles` is about the pages that come further ("aborted" otherwise).
* The takeaway (`services/news_takeaway.py:87-92`) and the analysis of shares
  (`services/news_analysis.py:47-52`) call `analyze_json` on the same title,
  summary and market without a `cache_scope`, so within the cache's life one gets
  the JSON of the other, whose schema is not its own;
  `services/llm_providers.py:124-126` names exactly this danger as the reason for
  the parameter. `AnswersFit` promises a purpose its own schema only where a
  scope is passed or the call has posted.
* `GET /news` may answer with a page that is up to 3 s old, and such a page may
  be stored after the publication of a row has cleared the cache
  (`api/routes/news.py:93-113`): a load answered with it takes a row from the
  list that the stream had delivered, until the next load. `NothingSkipped`
  speaks of the rows as they were when the page was read.
* A source's age is counted from the moment its own fetch completed
  (`services/ingestion/service.py:99-111`), its next fetch from the end of the
  whole cycle (`services/news_ingest_scheduler.py:180-207`): with cycles longer
  than a third of its cadence a source that always answers may be shown as
  "delayed".
* The clean-up's archive has the rows of `news_item` and not what the cascade
  deletes with them: impacts, the user's corrections, analyses, mentions, links,
  signal results and article bodies (`services/cleanup.py:116`,
  `db/session.py:77`); and the LLM cache (178-194) is not archived, by design.
  `DeletedIsArchived` says what is.
* `markAllRead` shows as read also what was pushed after the server marked
  (`front:stores/alertStore.ts:63`), and a marking that overlaps another lowers
  the badge twice (line 56), until the next load and the next count.
* Codes are compared without exchange and leading zeros
  (`services/alert_service.py`, `_match_stock`), so a verdict on 000700 is an
  alert on a watched 00700.HK; in `ImpactAlerts` that is a choice of `ByCode`.
* Clients are not all closed at the end of the web process: a worker that
  outlives its stop timeout may create one after the closing
  (`services/http_pool.py:180`).
* The backup prunes old copies even when there is no source file
  (`services/backup.py:56`).

## 5. What is proved

All for every value of the constants that satisfies the named assumption. Every
invariant and action property of a run that passes has its theorem; what is left
to TLC is liveness, and the three runs that refute a sentence of the
documentation.

`SignalDispatch_proofs`, from `SizesAssumption` alone:

* `TypeCorrect`: `Spec => []TypeOK`.
* `LeaseProtection`: `Spec => []LeaseCoversBatch`. The invariant is inductive
  with `TypeOK`. It needs the history variable `held`, the ticks since the batch
  was timed: each tick adds one to `held` and takes one from the lease, `touch`
  resets both, and no other step shortens the lease of an id in the batch, for
  `release` is only called by the worker at its batch's end.
* `NoRedelivery`: `Spec => NoRedeliveryInProgress`, an action property: an id
  with a positive lease is not grantable, and by the above the ids of the batch
  have one until `held` reaches the lease duration.
* `MemoryTheorem`: `Spec => []MemoryFollowsDatabase`, inductive with `TypeOK`;
  batches on which the alert rules raised included.
* `LifecycleSafety`: initial states and steps of `SignalDispatch` are those of
  `SignalLifecycle` or stutter; it rests on `MemoryTheorem`, as a step that
  announces or processes must find the row in the state the abstract step needs.

`StreamRelay_proofs`, from `RelayAssumption`:

* `RelayTheorem`: `Spec => []RelayedInOrder`. `IInv` adds to the property where
  a consumer stands: between where it began and the end of the stream
  (`PositionSound`), with all it injected behind it (`InjectedBehind`); the
  reply it is handling is a run of consecutive ids, and what lies before its
  first id had been trimmed when Redis answered (`ReplyContinues`). Without the
  last fact one cannot tell that moving the position to the next id of the reply
  leaves no gap, as the stream is trimmed meanwhile. That no backlog is injected
  follows from `BeganLate`, which holds only while no outage has been.

`NewsAlerts_proofs`, from `AlertsAssumption`:

* `WindowsTheorem`: `Spec => []WindowsAreSafe`. The dedupe key of a digest is its
  window, so it matters that a window is popped whole: `WindowsApart` says that
  what was popped or written belongs to windows that have ended and of which no
  hit is left in memory. New hits go to the current window, which has not ended
  (`CurrentWindow`), so no thread can pop an ended window a second time. Only a
  flushing thread holds hits (`OnlyFlushersTake`), and the rollback of a failed
  flush puts back what was taken. The daily limit needs that the day's alerts
  are counted in the step that adds one, for keyword alerts only add to them.

* `FunnelTheorem`: `UserRowsStay` of `AiFunnel`, under its `FunnelAssumption`. The
  invariant adds to the types that whatever is being screened, or will be read,
  has attempts left (`AttemptsLeft`), which keeps the counters in their bounds; a
  reading replaces the rows of the AI only, whenever it asked for corrections.

`LiveFeed_proofs`, from `LimitsAssumption`:

* `PageTheorem`: `Spec => []PageIsConsistent`. `NewestDecides`: once the newest
  load has ended the page does not show an older reply, since a late reply with
  an old request id is dropped. `LastSourceOnly`: only the connection made last
  may be connecting or open, for `connect` closes its predecessor; and
  `UpsetsPayForSources`, each connection after the first is paid for by an
  upset, keeps the connections within `Conns`. A page is live only by an open
  source, because the status is applied before there is one.

`Outbound_proofs`, from `CircuitAssumption`, `CallsAssumption` and
`PoolAssumption`:

* `PublishingTheorem`: `Spec => PublishingIsSound`, for the breaker.
  `BatchesInBounds`: a call begins only within the budget, and nothing is on the
  clock outside a call. `StreakIsRecent`: the counter of failures is the tail of
  the history of outcomes, which is what makes the counter a streak although
  threads interleave. `ProbesAreCounted`: every call begun since the circuit
  opened has failed or is under way, so their number is below the threshold plus
  the number of threads.
* `CallsTheorem`: `OneSpec => []CallsAreSound`. The invariant is one of each call
  by itself (`SoundCalls`) and of the cache: posts within the retries
  (`Within`), chunks handed on by one attempt (`OneAttempt`), an answer of the
  call's own purpose, or from the cache one of a purpose with the same key
  (`Fits`). Configurations may change arbitrarily between two
  steps. The order of a batch of vectors, sorted by index and checked against
  its length, is proved by counting the items before each (`VectorsFit`).
* `PoolTheorem`: `OneSpec => PoolIsSound`. The second look under the lock makes
  `NoClientLost` inductive: a client is created only where the pool has none,
  and the closing forgets exactly the client it closes.

`Services_proofs`, from `HealthAssumption`, `ConfigsAssumption`,
`HouseAssumption`, `SharesAssumption`, `TasksAssumption`, `DigestsAssumption`,
`CachesAssumption`, `QuotesAssumption`, `MoodAssumption` and `CoverageAssumption`:

* `Reported`: a worker of which no cycle succeeds is reported once the time limit
  has passed, for every interval, throttle and length of its cycles.
* `RoomForAHeartbeat`: if the time limit is no shorter than a heartbeat interval,
  a pause and the longest cycle, `WorkersAreReported` always holds. The inductive
  invariant `HealthInv` adds two facts to the types: good news reaches the row
  within that time, or all has been well for as short a time only
  (`GoodNewsArrives`: the age of the row never runs ahead of the worker's own
  heartbeat clock), and a row that says "ok" is at least as old as the trouble
  (`NoFalseSignOfLife`). The bound on the time limit is used in the last step
  only: without it a healthy worker is reported, which is the divergence above.
* `ConfigsTheorem`: `OneSpec => []AtMostOneDefault`. A request may write a row
  that it read long ago; the invariant adds that a request holds a row it read
  (`SoundRequest`), and the steps that set a default clear all others under the
  same write lock.
* `HouseTheorem`: `OneSpec => []HouseIsInOrder`. That nothing unarchived is
  deleted from an archived table, nor anything that refers to an unarchived row,
  rests on `ArchivedFirst`. The bound on retention rests on an ordering:
  rows come in the order of their ids (`InOrderOfArrival`), at most `Inflow` of
  them in a day (`DaysAreLimited`), so a batch by id, which holds a day's rows,
  takes all rows of the oldest day (`BatchTakesTheOldest`, by cardinality), and
  the oldest age falls by the day that midnight adds (`OldestFirst`). The bound
  that was checked before, on rows that would be deleted at all, was not
  inductive and said less; TLC checks the new one. That a complete backup is
  kept needs that the newest file is the one being written (`NewestIsOurs`).
* `SharesTheorem`: `OneSpec => NewsAreRelatedOnce`. What a thread has looked up
  still holds when it writes, unless it is marked as outrun (`LooksHold`); the
  marking is what "two writers overlapped" means, and the theorem shows that
  nothing else lets a second row for a news and a share in.
* `DigestsTheorem`: `OneSpec => DigestsAreSound`. The dates on which a slot was
  triggered only grow (`DatesGrow`), generations that do not overlap write in
  their turn (`WritesAreInTurn`), and a worker that is up and free has checked the
  slot within a tick (`FreeWorkersCheck`), which is shorter than the grace.
* `CachesTheorem`: `OneSpec => CachesAreHonest`. An entry is as old as its data and
  lives no longer than its kind may (`EntriesAreYoung`); a request that found no
  boards began before any were fetched (`RequestsKnow`), so its answer takes
  nothing back.
* `QuotesTheorem`: `OneSpec => QuotesAreSound`. There is one alert for each date of
  the market (`OneOfEachDate`), and the slots of a session in succession have one
  date, by induction over the time between them. What a caller holds at each of
  its steps is in `Alarms!TypeOK`, and only newer quotes are saved.
* `SentimentTheorem`: `OneSpec => SentimentIsSound`, action properties of
  `MarketSentiment` and `NewsSentiment`. Little of it is induction over steps; it is
  about what is computed. A sum over a set grows with its terms (`TotalGrows`), the
  division and each piece of a score do (`QuotientsGrow`, `MomentumGrows`,
  `VixFalls`, `AdvanceGrows`), as many boards are taken as there should be, since
  the order of boards is total (`FirstOnes`), and losing an input moves a weighted
  mean away from it (`LabelWithout`). At most one market has three of five of the
  mentions (`MostIsOne`), and one more mention leaves it to that market
  (`MostWithOneMore`).

`Content_proofs`, from `CentreAssumption`, `PagesAssumption`, `TopicsAssumption`,
`OldTopicsAssumption`, `GateAssumption`, `ArticlesAssumption`, `TermsAssumption`,
`FeedAssumption` and `CardsAssumption`:

* `CentreTheorem`: `OneSpec => []CentreIsSound`. The badge is only right
  relative to what is on its way: `ExactIsExact` says that an exact badge is the
  server's count, less what was pushed and not yet received and what became due
  without a push, or one more while a marking that nothing disturbed is on its
  way back. It needs that an answer under way is still true of what is read
  (`AnswersAreTrue`), that a request around which nothing happened is the only
  one (`CalmAreAlone`), and that nothing is shown, pushed or read before its time
  (`AlertsOnTime`). Rows become due with time alone, which is why the invariant
  has to name those the badge has not heard of.
* `PagesTheorem`: `OneSpec => []PagesAreSound`. What the list, a load and a further
  page lack is accounted for (`ListIsWhole`, `LoadIsWhole`, `MoreIsWhole`): a row
  above the cursor is listed, or has changed since the server read the page, or
  the page missed the event, or it was cut off. The cached pages are whole in the
  same sense, each relative to the rows it was read from (`CacheIsWhole`).
* `TopicsTheorem`: `OneSpec => []TopicsAreSound`. The keys of the topics that are
  visible differ, a candidate's words are those of its row, and an id that was
  touched is never given again (`SessionIsSound`, `RowsAreSound`); the script only
  drops topics nothing can be linked to any more (`ScriptIsSound`); and what the
  statistics lack is owed by the batch under way (`StatisticsAreSound`).
* `GateTheorem`: `OneSpec => GateIsSound`. The index of the batch is the candidates
  of the rows as they are, those of the batch included, and reaches as far back as
  any item of it needs (`IndexCovers`); rows that are not visible yet came with
  the batch (`ChangesWereSeen`); links are unique.
* `ArticlesTheorem`: `OneSpec => ArticlesAreSound`. A decision to write was taken
  when there was no whole body, or the news is in `raced` (`DecisionsHold`); what
  is crawled had none (`BatchHolds`); and the failures that count and the fetches
  under way are together fewer than the attempts and the threads
  (`FailuresAreFew`).
* `RelevanceTheorem`: `OneSpec => MoreIsNotLess`. Each text has a first rule that
  applies to it, the rules are numbered, and adding a term lets only that rule or
  an earlier one be the first; each of those either lets the item pass or is one of
  the exceptions the property names.
* `FeedTheorem`: `OneSpec => FeedsAreRead`. The page is in the order of its records,
  which have times of the past (`PageIsDated`), and what was published since the
  last poll is on top of it (`NewOnTop`); the rest is arithmetic on days and
  slots: a clock that is not too far ahead has one completion in the past day.
* `CardsTheorem`: `OneSpec => []CardsAreSound`. The layout is the cards of its own
  links, and an opened card is one of them (`CardsInv`); all the rest is about
  the loops. They are recursive functions, unfolded and followed by induction: the
  loop over cards of one type gives what the loop over all gives, since fusing
  leaves the type of a card as it is; each topic is in the card of one key, so
  keys differ; and cutting the news of a card to a few changes neither keys,
  types nor shares, so that the whole card is found under the key of the cut one.

`Writers_proofs`, from `SchedulerAssumption`, `CyclesAreShort`,
`PowersAssumption`, `QuotaAssumption`, `VerdictsAssumption`, `IngestAssumption`,
`ResultsAssumption` and `BackfillAssumption`. `PowersAssumption` says that the
powers of 2 are positive numbers: arithmetic, but the provers do not know `^`.

* `SourcesTheorem`: `OneSpec => []SourcesAreServed`. The time since the watched
  source was last fetched is bounded together with what is left of its wait
  (`WaitIsBounded`): until it is due, by the longest backoff and a cycle; once it
  is due, by the age of the cycle that was running when it became due, and by one
  tick more if that cycle raised. `SuccessIsRecent` says the same of the age of
  its last success and its cadence, with the cycle in which that was stored in
  addition (`OutcomeKeeps`: storing an outcome keeps it). `CyclesAreShort` is used
  only for the status "ok": with cycles longer than a third of the cadence the
  page may show "delayed" for a source that answers every time.
* `TakeawaysTheorem`: `OneSpec => TakeawaysAreSound`, an action property. A
  running cycle fits into what is left of the quota of the day on which it began,
  and that is the day being counted even after midnight (`AskingInv`); a day that
  has not come has no answers (`WithinQuota`). That a batch is no longer than its
  limit (`FirstOfCount`) is a theorem about cardinalities: of two news in it the
  later has more before it.
* `VerdictsTheorem`: `OneSpec => []VerdictsAreSound`. The invariant adds that the
  rows are of the kinds that are written (`RowsAreRows`) and that no window has
  ended unflushed (`WindowsAreOpen`); that a step covers what it owes is shown for
  each of the entry points.
* `StoriesTheorem`: `OneSpec => StoriesAreKept`. The table changes only by the commit
  of the thread that holds the lock, ids and stories stay (`LockIsHeld`,
  `TablesAreSound`); what an ETag stands for is told by the table (`TagsAreTrue`);
  and what a lookup found is exact only as long as no refreshes overlapped
  (`AloneIsExact`), which is why the property makes that exception.
* `ResultsTheorem`: `OneSpec => ResultsAreKept`. Ids are used once (`IdsAreOwn`), a
  thread that loaded the row of today knows it (`LoadsAreCurrent`), the last
  result that was committed is stored (`LastIsStored`), and only the holder of the
  write lock is ahead of what was announced (`OrderIsKept`).
* `BackfillTheorem`: `OneSpec => BackfillIsSafe`. The hash of an untouched row is of
  its link (`OldHashesAreKnown`), the hashes that are planned are free
  (`NothingIsInTheWay`), and a group that is done has an earliest row with its hash
  (`GroupsAreServed`, `CleanIsServed`): each set of rows has one, as numbers are
  well-founded.

Where a proof needs induction over data, it has it: a property of numbers is
written as the set of the numbers that have it, and a set of naturals without a
least element is empty (`WFMin` with `NatLessThanWellFounded`), which gives
induction over numbers, over the subsets of a finite set and over the steps of a
loop. A recursive function `f[x \in S] == ...` is shown to exist in the same way
and unfolded from then on. So no module declares a RECURSIVE operator, and folds
and sorting of the community modules, which the provers cannot unfold, occur only
where no proof depends on what they compute.

Left to TLC: liveness, as fairness and ENABLED are beyond the provers. That is
`WorkIsDone` and the liveness of `ImplementsLifecycle`, `EventuallyRelayed`,
`HitsComeToAnEnd`, `FeedSettles`, `FunnelSettles` and `EverythingEnds`. A theorem
about an instance leaves the other instances of its run free: `OneSpec` lets only
the active one move, and each proof looks at its own variables alone.

## 6. What is not modelled

`components` in `PROJECT.json` gives status and reason for each part. In short:

* the patterns by which names of shares are recognised in titles, and the
  wording of alerts and digests;
* the dashboard, sentiment and search lists of the page and its mock mode; the
  other stores, each of which holds the reply to one request;
* the rows of the market overview, the search of shares, the computation of
  candles; portfolio figures, candidates and research summaries, which are
  numeric aggregations within one request;
* rules on single sites, character sets and HTML; editorial scores, names of
  topics and the columns of the layout; prompts, prices and wording;
* the error counters and other sections of the health page; the work of the
  orphan drain; VACUUM;
* configuration, authentication, logging, database set-up, views and charts,
  the benchmark: no protocol state.

Daylight saving time is not modelled: market offsets are constants.

## 7. Plan

1. Proofs: the safety of all that is modelled is proved; with a prover for
   ENABLED, the liveness of `SignalDispatch` and `StreamRelay` would be next.
2. `SplitDispatch`: ownership of the queue and the orphan drain over
   `StreamRelay` and `SignalDispatch`.
3. `AiFunnel` composed with `NewsAlerts` and `ImpactAlerts`: the verdicts of
   the one are the impacts of the others.
4. `WatchlistPage`: optimistic edits and quote batches of `watchlistStore`.
