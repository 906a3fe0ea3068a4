# Verification of kimimeter

kimimeter is a usage dashboard. Machines that run an agent archive their sessions
(`wire.jsonl` files) to an R2 bucket; a FastAPI server mirrors the bucket into
Postgres, answers aggregate queries, serves raw transcripts and tells open browser
tabs when there is something new. This directory holds TLA+ modules of the server and
of the browser client, TLC configurations that check them on small
instances, and proofs, checked by TLAPS, of what holds for every instance.

Paths below are relative to the repository (`src/app.jsx` is the client).

## 1. The system

| Component | State it keeps | Operations | Hard behaviour | What makes it correct |
|---|---|---|---|---|
| Ingest (`backend/ingest.py`, tables of `schema.sql`) | tables `projects`, `files` (with `records`, `tool_uses`), `ingest_runs`; locals of a run | `run_ingest`: open the run, read `files`, list the bucket, fetch markers, plan, fetch and parse on a pool, one transaction per file, upsert projects, delete orphans, close the run, broadcast | three triggers overlap; the bucket moves between listing and fetching; the listing is paged; a failing call ends the run between two transactions; restarts, upgrades | tables come to mirror the bucket and stay so; whatever is stale is recognisably stale; no live row is deleted; a bad file harms no other; changes are announced |
| Server lifecycle (`backend/app.py`) | scheduler jobs, the one-shot start-up job | start, cron at :15, `POST /admin/ingest`, `/health`, shutdown | start-up and cron jobs on the scheduler's threads, the manual run on the event loop | a restart leaves nothing half done; shutdown is prompt |
| R2 client (`backend/r2.py`) | none | `list_keys` (generator over pages), `get_object`, `get_stream` | the listing is not atomic | - |
| Live updates (`backend/events.py`, `/api/events`, two effects of `src/app.jsx`) | subscribers, a bounded queue per stream, scheduled callbacks, the shutdown event; the client's `dashNonce` | subscribe, broadcast from any thread, put on the loop, deliver, heartbeat, unsubscribe; reconnect, refetch | thread against event loop; full queues; cancelled `q.get`; broken connections; shutdown | no announcement to a subscribed tab is lost; only running generators are targets; all end at shutdown |
| Transcript cache (`backend/cache.py`, `get_transcript`) | bodies by etag in LRU order, byte count | get, put, idle eviction, size eviction | the object is rewritten between the row's etag and the download | invisible but for speed; exact bookkeeping; the cap holds |
| Wire parser (`backend/parse.py`, `pricing.py`), browser parser (`src/parser.js`) | locals of one file | a fold over lines, for two formats: turns, usage, tool results, model attribution, cost | order of lines, missing timestamps, model cut-offs, two implementations of one algorithm | billing rows and turns as the reference says; the two agree |
| Read API (`backend/api.py`) | none | dashboard, sessions, projects, models, context growth | dedup by uuid across files, pagination, filters | each call counted once; every session on one page |
| Sessions and login (`session.py`, `auth.py`, `login.py`) | cookies, the user's secret, failures by address | login, guest login, logout, check of each request | windows and expiry at their boundary; read-modify-write of the user's document | a cookie is good for its lifetime and no longer; the window counts what it says |
| Connection pools (`backend/db.py`) | two library pools | borrow, return | at their limit | - |
| Dashboard client (`src/app.jsx`) | identity, route, selection (`activeProject`, `activeRange`), `dashNonce`, last answer, loaded transcript | select, navigate, fetch on change, open, drop or merge transcripts; reshape the answer, cluster hours into sessions | no request is ever cancelled; each effect has its own dependency list; components come and go with their state | what is shown answers what is selected; every aggregation adds up to the same records |
| Charts (`src/dashboard-charts*.jsx`), cache views (`src/views`) | `hover`, tooltips, checkbox overrides, model selects, answers of their own fetches | bins, curves, stacks, EMA and per-turn statistics; hover, check, select | answers change under the mouse and under choices made earlier; a handler recomputes what the drawing computed | what is drawn accounts for every call; choices stay; the mouse is told what is under it; the page stays up |
| Synthetic data, `scripts/plots` | - | a demonstration data set, offline plots | none | - |

How they interact: the ingest thread and the event loop share Postgres, the hub
(`_subscribers` under a lock, `call_soon_threadsafe` towards the loop) and nothing else.
API handlers are coroutines without an `await` around their database and bucket calls, so
on the event loop one handler runs at a time - `POST /admin/ingest` included - and the
interleavings that matter are those with the scheduler's threads, with the bucket's
writers, with the network and with restarts. In the browser, callbacks run one at a time to
their end and React then renders; what interleaves is the user, the answers and the runs
announced. The transcript handler reads a row that
ingest writes and an object the archiver writes. The client learns of a run only
by `ingest_done`.

`PROJECT.json` lists all hazards at their lines, with the property that covers each.

## 2. Modules

| Module | Models | Extends / uses |
|---|---|---|
| `Ingest` | `run_ingest`, its callers and its environment | - |
| `MCIngest` | projects and circumstances of the small instances | `Ingest` |
| `IngestProofs` | five theorems | `Ingest`, `DataLemmas` |
| `LiveUpdates` | hub, generators, one tab | - |
| `TranscriptService` | what the transcript endpoint promises (abstract) | - |
| `TranscriptCache` | `_IdleLRU` and `get_transcript` | `SequenceFilter`; instantiates `TranscriptService` |
| `MCTranscriptCache` | body sizes of the small instance | `TranscriptCache` |
| `TranscriptCacheProofs` | four theorems | `TranscriptCache`, `DataLemmas` |
| `WireParser` | `parse.py`, `pricing.py` | - |
| `BrowserParser` | `parser.js`, reading beside `WireParser` | `WireParser` |
| `MCParsers` | the lines a file may have | `BrowserParser` |
| `ParserProofs` | six theorems, four about `WireParser` and two about both parsers | `BrowserParser`, `DataLemmas` |
| `Access` | `session.py`, `login.py`, `auth.py` and the users table | `SequenceFilter` |
| `MCAccess` | symmetry of the small instance | `Access` |
| `AccessProofs` | six theorems | `Access`, `DataLemmas` |
| `DashClient` | `App`, the effects that fetch, the requests under way | - |
| `ClientProofs` | six theorems, three about `DashClient` and three about `LiveUpdates` | `DashClient`, `LiveUpdates` |
| `Overview` | what the overview page makes of an answer, and the mouse on it | `SetSums`, `StableSort` |
| `MCOverview` | records, model names and rates of the small instance | `Overview` |
| `OverviewProofs` | four theorems | `Overview`, `DataLemmas` |
| `ToolPanels` | the panels that fetch for themselves | `SetSums` |
| `MCToolPanels` | the answers of the small instance | `ToolPanels` |
| `ToolPanelsProofs` | four theorems | `ToolPanels`, `DataLemmas` |
| `SequenceFilter` | the elements of a sequence that are in a set | - |
| `SetSums` | the sum of a function over a set | - |
| `StableSort` | a sequence or a set sorted by integer weights | - |
| `DataLemmas` | what `Min`, `Max`, `Keep` and `Sum` return, and bounds on a rounded quotient | `SequenceFilter`, `SetSums` |

Operators named "Mutant of X" stand before X and are used by nothing: they are the
plausible bugs (a guard dropped, an order changed) under which the named property of
`PROJECT.json` "mutants" must fail, so that each property is known to depend on the code.

### Ingest

Contents are numbers. The archiver's writes are numbered by `clock`; an object's etag,
`last_modified` and body are the number of the write that made it, 0 is "no object". An
append-only log never returns to an old content, so equal etags mean equal contents. Three facts
of the code are kept apart by this: the etag *listed*, the body *fetched* later, and what
the bucket holds *now*. A row of `files` is `[etag, body, parser_version]`, where `body`
stands for the `records`, `tool_uses` and turns that were parsed from it.

`scenario` says what the mirror works under: which keys, triggers and markers there are, which files
cannot be parsed, how many workers and keys per page, how much may fail. It is chosen once from the constant
`Scenarios`, so that one run of TLC covers several and the proofs cover any set of them.

`run[r]` holds the locals of trigger `r`'s run under the source's names (`existing`,
`paths` = `project_paths`, `todo`, `batch`, `results`, `err`), and `phase`, where it stands:

| Phase and actions | Code |
|---|---|
| `Start`, `StartFails` | insert into `ingest_runs` (31-38), outside the try block |
| `ReadExisting` | snapshot of `files` (47-54) |
| `ListPage` | a page of the listing (62-69, `r2.py` 86-93); the bucket may move between pages |
| `FetchMarkers`, `BadMarker` | marker bodies, then the plan (73-131) |
| `NextChunk`, `Fetch`, `FetchFails` | chunks of `workers * 4`, futures in any order, all results before the first is stored; one by one when `workers == 1` (139-152) |
| `Persist` | the transaction of a file (263-352) |
| `UpsertProjects`, `DeleteOrphans` | 163-182, 184-194 |
| `Finish`, `FinishFails`, `Announce` | 199-206, 219-222 |
| `CallFails`, `Abort` | any exception inside the try block: the run is wound up with `err` |
| `Restart` | the process ends anywhere and starts again, perhaps with another `PARSER_VERSION` |

Each `with db.viz_conn()` block commits once, so each is one action; Postgres makes it
atomic. At most one run per trigger exists: APScheduler runs a job once at a time, and a
manual run holds the event loop. `last_ingest` is what `/health` reports; it and `dirty`
(the tables changed since the last `ingest_done`) are written where the code writes or
announces. `met` is history: another run was inside its try block while this one was.

### LiveUpdates

One tab (tabs share nothing) whose `EventSource` may have an old request on the server
beside the current one. A queue is its length, since the client reads no payload.
`callbacks` are the `_put_all` closures with the targets they captured. `gen` follows the
generator: `new` (response started, nothing run), `top` (top of the loop), `wait` (in
`asyncio.wait`), `got` (the task of `q.get` has a payload, the generator has not woken up), `closed`; `Cancel` is the framework ending it where it stands once the connection has gone. `told` and `current` are history variables used only by
properties. A broadcast, a put, one turn of the generator, and each client callback are
one action each: nothing else can run within them, as they hold the lock or run on a loop
without awaiting. `Heartbeat` may come though the queue is not empty: a put only wakes the getter, and
when the timer wins before its task has run, `q.get` is cancelled and leaves the payload where it is.
Once the task has run (`got`), `asyncio.wait` reports it as done and there is no heartbeat.
What `DashClient` has too begins with `Live` (`LiveSpec`, `LiveTypeOK`), as `ClientProofs` extends both.

### TranscriptCache and TranscriptService

`TranscriptService` says: a reply to a request that found etag `e` is a version of that
session's object at least as new as `e`. `TranscriptCache` refines it: `items` is
`_items` in order, `size` is `_size`, `put` evicts idle items, then the old item of
the key, then the oldest until the new one fits, as the code does. `Hit`, `Download` and
`DownloadFails` are the ways a request ends; the bucket and the row may change before any of them.

### WireParser and BrowserParser

A file is a sequence of lines, read one by one, so every prefix is a state. The format is
decided by the first line that tells (`parse_file` looks ahead); the module guesses `fmt` and
only a guess the whole file confirms reaches `EndOfFile`. A line is a record of what the code
reads of it: kind, time, id, error flags, characters of text, calls, usage, model; 0 and ""
are what the code takes for missing. A malformed line that ends in a complete object is `torn`, with that
object's kind as `tail`; `is_error` is the second spelling of a result's error flag. The variables are the locals of `_parse_legacy` and
`_parse_kimi_code` under their names; a turn is its `status_lines`, as nothing else of it is
used. Each kind of line is an action, and what the two formats share (`StartTurn`, `AddUsage`,
`AddCalls`, `AddResult`) is an operator. `ctx_turns` is a set of points with their `idx`.

`BrowserParser` steps beside it on the same line. `js` holds the locals of `parser.js`; its
open turn is left out, for nothing it returns depends on it. `AsRead` is what the browser makes of a
line before it handles it, where that differs from the backend: `_iterJsonObjects` recovers the object at the end of a
torn legacy line (`parser.js` 75-93, 136-142; `parse.py` 149-152 skips the line), and a
`tool.result` has failed by `isError` or `is_error` (504; `parse.py` 499-501 knows the first). On these lines
the two disagree, and `RecordsAgree` says exactly how. The texts of the Inspector
(`computeStats` and its like) are layout.

The properties are stated over `lines` alone: which line begins a turn, which usage is
the last of its turn, which prompt is unanswered. They say nothing of the parser's locals,
so they are a second, declarative reading of the format.

### Access

`login` is the one `login_post` under way, with the locals it carries from statement to
statement: `LoginPost` (rate limit, user id, `user_exists`), `LoginVerify` (`load_user_config`,
password), `LoginWrite` (secret, `write_user_config`), `LoginMint` (cookie). The handler has no
`await`, so no other handler runs meanwhile, but `UpstreamWrites` (the user-management
program), a failing query, `Restart` and the clocks may. `users[u]` is a config, with the
keys this program reads; a random secret is the next number of `minted`, and a token
carries the number it was signed with. `Answer` is the middleware: it keeps no state and
reads the users table at every request, so it is an operator that properties apply in
every state. `real` is time that passes, `now` what `time.time()` says, which may be up to
`MaxBack` behind; `born`, `boot` and `wrong` are history. Left out: the clock being set
*forward*, and a token read by a second server process (there is one).

### DashClient

One tab. The variables are App's state under its names, the last answer of three kinds of
fetch - the dashboard, *a* panel (tool usage, latency, errors, heatmap: each with its
own model select and the same dependencies) and the cache page - and the requests under way.
React is one operator, `Rerender`, with which every step ends: an effect runs when its component
appears (`Mounted`) or its dependencies (`Deps`) change, a component that goes loses its
state, and the request of an effect says what is selected at that moment (`Query`). No effect
cancels a request, so `flight` grows; `Deliver` applies an answer whatever has been selected since.
An answer is its status and the query it answers: drawn by rows, empty, an error body,
or lost; what each fetch does with each status differs (`Outcomes`, `Deliver`). A query
includes the number of runs announced when it was sent. `flight` is a set, so two superseded requests with
one query are one request; no property counts them. `network` says whether the requests of a chart end in their order;
that is no promise of the browser, so half of the run is
under `"any"`, where only the weaker property can hold. In both a request may be lost or refused, and the cache page be
answered by an error; `newest`, `settled` and `failed` are history.

`Load` and `Loaded` are the transcripts a user opens or drops. `StatsDefined` and
`MetaReturned` are facts of the repository: `window.computeSessionStats`, called at
`src/app.jsx:194`, `278` and `295`, is defined nowhere, and `loadFiles` reads `meta` of a
result that calls it `meta_events`. So `Loaded` always ends in its exception branch and
`tx` is never set; the other branch is there to be taken if either fact changes, and the
proofs cover both.

### Overview

Answers of `/api/dashboard` arrive under a page with a mouse on it. `Records` are billing
records; `hourly` and `session_rows` are the server's two aggregations, the second cut off at its `SessionLimit` dearest
rows (`LIMIT 500`), `backendDashToShape`
the client's reading, and everything drawn is an operator of `synth`: bins and
cumulative line of `TimeSeriesPanel` (`bins`, `cumPts`), the token breakdown, the costs by
model, the clusters of hours (`computeSessions`) and the sessions list, the burn-rate
dots and curves (`sessionData`, `densify`). Times, pixels and prices are integers, multiplied out where the
code divides: `mid2` is twice a middle, `barW20` twenty times a width, and each definition says so.
The state is what outlives a render: `hover` of the `HBar` under the mouse, the model
select, and whether the page is `up`. `Rendered` is a render: it throws when the row
under the mouse is not there any more, and nothing catches it.

### ToolPanels

A behaviour follows one panel: tool usage, tool errors, context growth, response sizes, reply
latency or the activity heatmap. `data` is the memo made of its last answer (`pivot`),
`overrides` what the user has clicked, over `Defaults` that move with the answers. What is drawn
(`layers`, `share`, `series`, `perTurnStats`, `linePoints`, `byCell`) and what the
tooltip says (`usageTip`, `errTip`, `ctxTip`, `lineTip`, `heatTip`) are separate operators
because they are separate code: handlers sum again what the drawing summed. A share is kept as its
numerator and its `height`, so nothing is rounded; a value between two points of a line is rounded as the
code does (`between`). `AnswersAssumption` is what the queries of `api.py` guarantee of their rows: each
group has counted at least one (`COUNT(*)` with `GROUP BY`), and of calls no more have failed than were made;
and no tool or model has the name of a line that the panels add. The heatmap's third metric, output tokens, behaves as its cost.

## 3. Runs

| Run | Instance | Shows |
|---|---|---|
| `ingest` | three circumstances. *Alone*: the cron run, keys of two projects, 1 worker, 1 key per page, one key unparsable, malformed markers, 2 bucket writes, 1 failing call, 1 restart or upgrade. *Overlap*: cron and start-up run, 2 keys of one project, markers that change, 2 workers, 1 key per page, 1 bucket write. *OneFile*: the same with one key, 2 bucket writes, 1 failing call. Fair | `TypeOK`, `StaleRowIsDetectable`, `ProjectSpansFiles`; `SuccessMeansMirrored`: a run that met no other and gets to its end leaves exactly what it listed; `LiveRowsStay`: only a run that met another deletes a live row; `Converges`: tables mirror the bucket in the end whatever overlapped, and a bad file holds up only those after it; `NamesFresh` |
| `ingest_unannounced` | 2 keys, one run | *violated*: `ChangesAnnounced` |
| `live_updates` | 2 requests, queues of 2, 4 commits; fair | `TypeOK`, `SubscribersRun`, `AnnouncedIsOnItsWay`, `AnnouncedIsAsked`, `ShutdownDrains` |
| `live_updates_gap` | 2 requests, 1 commit | *violated*: `LastCommitAsked` |
| `parsers` | all files of up to 5 lines from a menu: 9 lines of the legacy format, 10 of kimi-code, 5 and 7 more where a file begins, and in places 1 and 4 two of each that the parsers read differently or not at all | `TypeOK`, `EachUsageInOneTurn`; `LastLineWins`: a turn's context and a call's result are their last lines'; `RecordsFollowLines`: the records are the usage lines, each once, at its own price, and latency, text and (legacy) label are what the lines say; of both parsers `RecordsAgree` (usage, latency, failed calls) and `ChartCoversBackend`: on the last usage lines of turns the two charts are the same |
| `parsers_label` | the same, up to 2 lines | *violated*: `WireModelWins` |
| `transcript_cache` | 2 sessions, 4 versions (sizes 1 and 2, the last larger than the cap of 3), 4 clock readings | `TypeOK`; `CapHolds`: the byte count is that of the items, and within the cap unless one item alone exceeds it; `EvictsLeastRecentForRoom`, `Implements` |
| `access` | 2 users, 2 passwords, 1 address, 1 token, 3 secrets, 2 starts, 3 s; maximum age 1 s, skew 1 s, window 2 s, 2 failures, clock set back by 1 s | `TypeOK`; `LimitIsExact`: no more wrong passwords in a window than the limit, and nobody locked out by fewer; `CookieLifetime`, `SecretsApart`, `RevokedForGood`, `LoginKeepsSessions` |
| `dash_client` | 1 project, 2 ranges, 1 model, 1 transcript, 2 clicks, 1 run; user or guest, ordered or arbitrary network | `TypeOK`; `SettledAnswersSelection`: if the last answer of a chart was that of its newest request, the chart shows what is selected now; `QuietShowsSelection`: in an ordered network every chart that waits for nothing does, unless its newest request failed or the cache page shows an error |
| `overview` | answers of up to 3 of 8 records: 3 sessions of which the server lists 2, 3 names of 2 models, gaps of every width | `TypeOK`; `TotalsAgree`: sums by hour, model, cluster, token kind and bar agree with the records, those of the server's sessions with the records of the sessions listed, of which none is cheaper than one left out; a bar holds what is in its time; `SessionsPartition`; `UnderMouse`: the mouse finds the bar under it and the session nearest to a point of a curve |
| `overview_hover` | the same | *violated*: `StaysUp` |
| `tool_panels` | 2 to 3 answers for each of 6 panels, which promote, demote and drop tools and models; 1 band and 2 error lines instead of 7 and 5 | `TypeOK`; `ChartsAccount`: each call in one band of its bucket, error lines that add up, ordered percentiles; `ChecksFollowUser`; `TipMatchesChart` |

**Bounds.** Two bucket writes after the initial contents are what a race needs: one between
listing and fetching, one after; with the initial contents any subset of the keys. With two files under two overlapping
runs there is one write, which already lets either run be the one with the older listing.
Two keys in one project make a span that two files share; the third is in another project, behind
the first two in the listing. Page size 1 puts a bucket write between any two keys, two workers make a
chunk of both files, one worker a chunk of each. Two overlapping runs suffice for each
interleaving the properties speak of (a run acts on its own locals and the tables only). Four
commits overflow a queue of two; two requests are the old and the new one of a reconnect.
Five lines hold two turns, one with two usages; the
times of the menu lie on both sides of both cut-offs and go back; unknown, foreign and
invalid lines come in the first two places, where they can decide the format or the first
time stamp; the lines the parsers read differently come first, and after a turn may have begun and a call been made.
The label of a line can be told wrong with two lines. Four versions over a cap of three make every branch of `put` occur. In `access` three seconds are
one more than the maximum age and the correction together, three secrets are the guest's and either two
of one user, or one of each, or one and the next guest's; one token is enough, for no property compares
two, and a login that finds no room for its token still writes the table. In `dash_client` two clicks are a selection and its revision, or a selection and a
navigation, with an announced run between any two: three requests of one chart may be under way. In `overview`
three records make two bars of one model, a session of two hours or three sessions; times lie on both sides of
both gaps; bars of 1, 2 and 4 on a plot 60 pixels wide put several pixel positions
on each bar, which is wider than a pixel as the property requires; curves have 4 points per
gap, so that the middle one decides between two sessions. `SessionLimit` is 2 in place of 500, so that three
sessions exceed it. `tool_panels` lowers the numbers of bands and lines so that
two tools suffice to push one into "Other"; its answers have ties, a bucket without calls
and files that end at different turns. Counters (`clock`,
`faults`, `restarts`, `commits`, `now`, `clicks`, `dashNonce`) are bounded by the `Max...` constants and the fields of `Scenario` in the guards,
and by nothing else; the proofs need none of these bounds. `CHECK_DEADLOCK FALSE` is set
where the system may really stop: a server that has shut down, a world whose bounded
clocks are used up, a user who has clicked enough. Where ingest is checked, the cron job keeps the system going and
deadlock is checked.

**Fairness.** `Ingest`: a run that has begun goes on and the scheduler fires its jobs
(weak fairness of `Step(r)` for each run and of `Start` for cron and start-up,
`app.py` 31-45). Not fair: the archiver, manual runs, failures, restarts. Hence the
liveness properties speak of a bucket that comes to rest, which the bounded clock
ensures, with markers that stay readable. `LiveUpdates`: the ingest thread's broadcast, the
loop's callbacks, each generator (`Loop`), the reconnecting `EventSource` and the tab's
effects are weakly fair; commits, broken connections, shutdown and heartbeats are not, so
`ShutdownDrains` does not rely on the 15 s timer. `Get` is strongly fair: the timer is set anew at each round of the
loop and may win once or twice, but does not for ever win against a task that is ready to run. `shutdown` is the event being set;
when uvicorn reaches the lifespan's exit is not decided by this repository.
`TranscriptCache`, `Access`, the parsers and the client's modules state safety
only and need no fairness: a user does nothing by necessity, and an answer may never come.

**Findings.** The four violated runs state a sentence of the repository and show the
code doing otherwise; `PROJECT.json` "findings" quotes each sentence.
1. `ingest_unannounced`: a run that stores a file and then fails is not announced, nor is the next one, which has nothing left to do.
2. `live_updates_gap`: a run announced while the tab is between connections, or before its generator subscribed, is never shown to it.
3. `overview_hover`: the mouse rests on a bar, the next answer has fewer bars, `rowTip(rows[hover])`
   throws while rendering, and React takes the page down.
4. `parsers_label`: `parse.py` says that the model a usage line names is authoritative, record by record, and has the
   rules for it (`_model_for`), but passes `None` and the session's first time stamp (523; 245 for the legacy format,
   whose lines name no model): a session that switches is billed under its first model.

**Observed while modelling**, not a run of their own:
- Ingest: of two overlapping runs the one with the older listing may delete the other's new
  row (the exception of `LiveRowsStay`; `Converges` shows the damage is
  temporary). With pooled fetches an unparsable file holds up files listed *before* it
  that share its chunk; sequentially it does not.
- Parsers: the browser bills what it recovers from a malformed legacy line and the backend skips, and takes
  `is_error` for a failure where the backend does not (see `AsRead`). The Inspector's chart has points the stored one
  has not: for each usage line of a turn, and for those outside all turns. The browser parser
  puts the text count at the end of the file into each record, labels kimi-code records
  with the raw id, for which its price table has only the default, has a later K3 cut-off
  (`parser.js:24`, `parse.py:42`), and skips lines at which the backend raises.
- Sessions: a login writes back the whole `users.config` it has read (`login.py:141`), and so undoes a change that the
  user-management program made in between; `StaleWrite` is the exception of `RevokedForGood` and `LoginKeepsSessions`.
- Read API: `file_count` counts rows of a join with records (`api.py:466`); `list_sessions` has the
  project filter in two legs and binds it once (`1351`); the page cursor is strict (`1359`); the
  model filter is missing from the leg of records without uuid (`917`).
- Client: an opened transcript is never shown (see `DashClient`). The tool-usage tooltip throws
  at both ends of the grid, which are no buckets (`dashboard-charts-extra.jsx:1779`). A
  tool checked by hand that has since fallen into "Other" is drawn in both and has no
  checkbox any more (`1617`); `ChartsAccount` names the exception. `TokenBreakdownPanel` keeps a
  selected model the next answer does not have, and is empty (`app.jsx:591`). The cache
  page shows the error of an older request over newer data, also when both arrive in order (`cache-view.jsx:18-24`);
  `QuietShowsSelection` names the exception. When all
  middles of sessions coincide, the burn-rate panel falls back to the range of the hours, in which that
  middle need not lie (`dashboard-charts.jsx:611`); `CurveNamesNearest` excludes it.

## 4. Proofs

All proofs hold for every value of the constants that satisfies the modules' named
assumptions (sets of any size, any bounds), and rest on nothing else.

**`DataLemmas`.** The library's induction theorems take a predicate as a parameter, which no
installed prover can instantiate. Induction is therefore done over a *set*: `CountingUp` says that
a set of numbers that contains 0 and with each number the next one contains all (a consequence
of the least element of its complement), `Gathering` that a set of finite sets that contains {}
and with each set the one with an element more contains all parts of a finite set. What is to be shown of
each `n` is made a set, `{n \in Nat : ...}`, and so the recursive
function inside `Keep`, the fold inside `Sum` and the one inside `Bytes` are shown to exist and to
do what they should. The sums have the laws the charts need: the sum over a disjoint union, of
two functions, of one within another, of a nonempty set of positive terms, and, `SumByClass`, that a sum
may be taken class by class.

**`IngestProofs`.** `TypeCorrect` proves `TypeOK`, with one step per action. `StaleRowsDetectable` and
`ProjectSpans` use the inductive invariant that ties contents to the clock.
- `StaleRowsDetectable`. That a row with other records than the live object has another
  etag is not inductive: a bucket write gives an object any later number. What is
  inductive: nothing anywhere exceeds `clock`; in every listing, result and row,
  *the etag listed is no newer than the body fetched* (`etag <= body`), since the fetch
  comes after the listing and the bucket's numbers grow; and a body fetched is no newer
  than the object, if the object still exists. From `etag <= body <= bucket` equality of
  etag and bucket forces equality of body and bucket, which is the property.
- `ProjectSpans`. A span that contains a file's date never loses it, because
  `LEAST`/`GREATEST` only widen it (`UpsertCovers`); a file is stored in the same
  transaction that merges a span containing the etag listed for it (`PersistSpans`), which needs
  the run's listing to hold every key of its chunk.
- `RunsMirror` and `LiveRowsKept` speak of runs that met no other inside its try block. Nothing in the code
  keeps the cron job, the start-up job and a manual run apart, and without this condition both properties
  are false (TLC shows it). `Alone` says, phase by phase, what a run that has met no other
  knows of the tables: until it plans, its snapshot `existing` is the table; a key that the listing
  has passed without finding it has no row, or one that is not of the object there is by now
  (`Unlisted`); a listed key that is not still to be fetched has the row the listing calls for
  (`Planned`). While it has met none, no other run is in its try block (`AllAlone`), so that only its own steps and the
  archiver's touch what it knows: `OutsideAlone` and `ArchiverAlone` show that nothing
  else disturbs this, though the bucket moves all the time.

**`ClientProofs`, the hub and its tab.** `LiveTypeCorrect` and `OnlyRunningSubscribed` prove types and `SubscribersRun`.
`NoAnnouncementLost` proves `AnnouncedIsOnItsWay`: strengthened by "a tab told of a run listens to
some request", a full queue may drop the payload because `queue[c] = QueueSize > 0` already
is a payload on its way, a heartbeat leaves the queue alone, and every other step moves a payload from callback to
queue to the hands of `q.get` to stream to pending effect. `LiveUpdates` shares no variable with
`DashClient`; the module extends both.

**`TranscriptCacheProofs`.** `_size` is the bytes of the items because each branch of `put` subtracts what it
removes; for that, `Bytes` is shown to add up over concatenation and removal. `put` and `touch` are
both "a choice of the old items, in their order, with one behind" (`Picks`), for which each part of the invariant
`Stored` is proved once: the cap (`Capped`), order of last use and no etag twice
(`Ordered`), and where the bytes are from (`Sourced`). With `Versions` - the version of an item
is one of its session's, and no older than the etag it is kept under - every way a request
ends is a step or a stutter of `TranscriptService` (`StepImplements`), which is
`CacheInvisible`. `LeastRecentGo` needs of `put` what it drops *and* that the last item dropped
had to go: without it the rest would not have fitted.

**`ParserProofs`.** `TypeCorrect` and `UsageCountedOnce` share an inductive invariant: locals
have their types; the turns' line numbers ascend (over all turns, and the open one last),
are at most the number of lines read, and each is a record's. The bound is what makes
ascending inductive: the next line's number exceeds all of them (`NextUsage`), while a
boundary only adds an empty turn (`EmptyTurn`). That each number finds a record is what the
type of `ctx_turns` rests on (`RepresentativeType`).
The other properties speak of `lines` alone on one side, so the argument has two halves. For each
operator they use (which turn a line is in, which prompt is unanswered, which
usage is the last) a lemma `...Step` says how it changes when a line is added, and for what the parser holds
`TimesRead` and `TurnsRead` say, for all actions at once, what that line does. The invariant relates
the two: `Carried` (usage, price, times, text, and the label where dates alone decide it: `RecordsSayLines`), `Turned` and `Errors` (turns and
results: `LastLineDecides`). That turns over are over for good is a property of the lines
(`OverStep`). For the browser `Beside` says what its locals have in
common with the backend's after every line - which updates it has beyond the backend's, and whose result is the last
as either hears it (`AllAsRead`) - and `BesideEnd` what that leaves of the
two results: `SameRecords` and `SameChart`. The menu of lines is a constant of which nothing is assumed but types.

**`AccessProofs`.** That signing secrets stay apart is not inductive: a login carries a config
it read earlier and may write it back when the table holds another. The invariant says
of every place a secret can be (row, token, the login's config, `_GUEST_SECRET`) whose it is: a
secret at two places has one owner (`OneOwner`) and none exceeds `minted` (`Drawn`).
`OwnersKept` reduces each step to "what it moves was that owner's already, or is the next number".
`SecretsStayApart` follows even for stale writes. `RevokedStaysRevoked` and
`SessionsKept` use it for single steps: unless the write is stale, the only value a secret changes to
is none or one no token has. Both state the exception, `StaleWrite`, because the code has it:
`write_user_config` sends the whole config back at *every* login (`login.py:141`), so a
secret cleared or a password set by the other program between the read and the write is undone.
Its docstring speaks of the first login only, and `db.py:5` of read-only access.
`CookiesLive` rests on `Dated`, which ties a token's `iat` to the time that has really passed since its birth,
by how far the clock has been set back. For `LimitHolds` the invariant `Lists` relates, for each
address, the list the code keeps to the list of all wrong passwords (`Remembers`): every
one of the last window is in it, at the same distance from the end (so nobody gets a try too many), and each
element is there for a wrong password of its own (so nobody is locked out by fewer). `KeepRemembers`
shows it for the comprehension that drops the old ones, `ClockRemembers` for a clock set back.

**`ClientProofs`, the requests of a tab.** `TypeCorrect`, `SettledShowsSelection` and `QuietIsCurrent` are about `DashClient`. `QuietShowsSelection` speaks of answers, but what makes it true is
on the requests: the newest request of a chart is for what is selected (`NewestIsCurrent`),
and in an ordered network a chart on the page has either been answered, has such a request
under way, or is one that a request has failed (`NoneForgotten`; on the cache page the error then hides the
rows, `RerenderErrors`). Both are inductive together with the types and
`SettledAnswersSelection`. The key fact is `QueryFollowsDeps`: where an effect does not run, what its URL says
has not changed, which is what a dependency list left incomplete would break. Every action ends in `Rerender`, so
each part is proved once for it (`RerenderFresh`, `RerenderSettled`, `RerenderWaits`); `QuietStep`
and `DeliverStep` hand over what the actions pass to it. The theorems hold for any sets of projects,
ranges and models and any number of clicks and runs.

**`ToolPanelsProofs`.** The state is little and the operators on it are large, so the invariant is short
(`Drawn`: the panel shows the pivot of an answer, finitely many boxes have been clicked) and the work is in
what a pivot is (`PivotIsFine`). `ChecksFollow` is a matter of sets. `ChartsComplete`: a call is in the band of its tool
or of Other, never both, as `Boxes` and `Defaults` are made from one `own`; Other and the aggregate add up
because the tools are partitioned (`SumByClass`); a tool in Other was beaten by `UsageTop` others in
every bucket, by what a cut-off sort returns; the ends of the chart, where shares go on in a straight line and are
cut off at 0, are drawn when the bucket there is (`EdgeShows`: the shares of two buckets have one sum,
so they cannot all be cut off); percentiles are in order because the j-th
of a sorted list grows with j and the rounded index with the percentage
(`NthMonotone`, `PickMonotone`). `TipsMatch` compares two computations of one thing: the parts of a share,
the point of a line, and a rounded value between two points, which integer division keeps between its
ends (`BetweenIs`, `Segment`).

**`OverviewProofs`.** Answers replace one another and the mouse moves, but what is drawn is a function of the
answer. The inductive invariant therefore says only that there is one: types, and `synth =
backendDashToShape(synth.records)`. The rest is about the definitions, for any set of at most
`MaxRecords` records, any rates, gaps, bin and plot widths:
- sorting by integer weights permutes the places of a sequence, because the number of places before one
  is different for each (`RankRises`, `PlacesAre`), leaves a sequence in order as it is
  (`SortedStays`), and lists each element of a set once (`SortedSetLists`, `SumOfList`);
- the hours are a list of the classes of the records by bucket and model (`HourlyIs`, `EventsHold`), the
  server's sessions one of the classes by session, or of the part of them that the limit leaves (`SubSeqIs`, `ListedBy`; `LimitLeavesOut`: none of it cheaper than one left out), the bars one of the classes by name and by kind of token; that a sum may be taken class by class
  (`SumByClass`) is what makes their totals the same (`TotalsCorrect`). The clusters the client makes
  of the hours when the server names no sessions are classes too, by the cut before an hour (`ListHolds`);
- `SessionsCorrect`. After n hours the clusters are the parts between cuts 0 = c(0) < c(1) < ... = n,
  with no gap inside and a gap at each cut; each hour either moves the last cut by one
  or adds one (`ClusteredCuts`, by `CountingUp`). Only with the end of the
  last cluster moved along (which `ClusteredKeepingEnd` forgets) is the gap measured from the hour before;
- the last bar's end is behind the last hour because of the +1 of `rangeOf`, so that the line's pointer gets
  through all of them (`ReachedIs`, `Widths`); a bar is a difference of the line at its two ends (`BarsAdd`);
- `MouseCorrect`. The index of the bar is a rounded quotient, and `DivBetween` bounds what is rounded;
  that a bar is wider than a pixel and narrower than its pitch keeps the mouse within half a bar of the
  middle (`NearestBar`, `BarFollows`). A point of a curve between two sessions lies at s parts of `DenseSteps` between them, so the
  nearer one is told by comparing 2s with `DenseSteps`, and all others are further off because the middles are sorted
  (`NearestEnd`, `CurveFollows`).

**Only model-checked.** Liveness (`Converges`, `NamesFresh`,
`AnnouncedIsAsked`, `ShutdownDrains`), which is outside what the prover does: it needs fairness and ENABLED.
Every other property of a passing run - invariants, action properties and the refinement of
`TranscriptService` - is stated by a theorem.

## 5. Not modelled

- Two Postgres transactions waiting for each other's row locks: the server ends one, which is `CallFails`.
- The etag of the `file://` mode (mtime and size), used for fixtures: it can miss a rewrite of the same size.
- In `Ingest`, the columns of `records` and `tool_uses`: a parsed file is its version. What is in them is `WireParser`'s subject, uuids, tool names and rounding left out.
- Layout, colours, formatting, logarithmic values and the moving average of rates; `detail-pane.jsx`
  and `context-growth-view.jsx`, and of `app.jsx` what the Inspector shows: they are reached
  only with a loaded transcript, and none is ever loaded.
- The project picker's pages (they only hide chips) and the summary's `limitHits`, which are always empty.
- The plot script, the synthetic data, static files, the connection pools (two library pools): no state of this program's own.
- The read API as a module: its aggregations are in `Overview` (hours, sessions); pagination,
  the rollup by project and the deduplication by uuid are single SQL statements, read and noted above, but not modelled.

## 6. Possible extensions

- `ReadApi`: a `records` table that an ingest run rewrites between two calls; deduplication and
  `list_sessions` page by page against the set of sessions.
- `Mirror`, an abstract specification ("each key is absent, stored or recognisably stale") that
  `Ingest` is shown to implement.
- `Overview` follows one page; the panels of `ToolPanels` and the hover of the time series
  have states of their own, and one React tree that any of them takes down.
