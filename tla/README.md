# Radar Imobiliário Floripa: specifications

TLA+ models of the program in this repository, the TLC configurations that check
them on small instances, and proofs of what matters most for all sizes. Paths
below are relative to `src/apps/api/radar/` unless they start with `apps/` or name
a document.

## The system

A FastAPI service collects listings of houses, flats and auction lots around
Florianópolis, files them under canonical properties, computes price percentiles
per neighbourhood and writes twelve financial analyses per property. A Next.js
dashboard shows the result and triggers collections.

| Component | Code | State it keeps | Operations |
|---|---|---|---|
| Listing ingestion | `services/ingestion.py`, `models/listing.py`, `models/property.py` | `properties` (unique fingerprint), `source_listings` (unique source + source_id), `price_history`, `auction_details`, `bank_owned_details` | `persist_raw_listing` |
| Manual registration | `services/properties.py`, `routes/properties.py` | the same tables | `create_manual_property` |
| Fingerprints | `services/fingerprint.py` | none | hash of place, type, area and price band |
| Market statistics | `services/market_stats.py`, `models/market.py` | `neighborhood_stats` (unique city, neighbourhood, type) | `compute_neighborhood_stats` |
| Deal persistence | `services/deal_persistence.py`, `models/analysis.py` | `deal_analyses` (no unique key) | `analyze_and_persist_all` |
| Analyzer, scoring | `services/analyzer.py`, `renovation.py`, `scoring.py` | none | costs, return, score, decision |
| Market endpoints | `routes/market.py` | none | `POST /market/compute`, `/market/analyze` start a thread task; `GET /market/stats` reads |
| Scrape jobs | `workers/scrape_jobs.py`, `scrapers/base.py`, `models/scrape.py`, `workers/run_scrapers.py` | `scrape_runs`; one session a run | run a scraper, record the run, refresh statistics and analyses, send an alert |
| Page scrapers | `scrapers/{brognoli,chaves_na_mao,loft,loft_partner,quintoandar}.py` | URLs seen in a run | one page, many listings |
| Lot scrapers | the other `scrapers/*.py` | URLs met by `discover` | discover URLs, parse one listing each |
| Scraper endpoints | `routes/scrapers.py`, `auth.py` | queued runs, in memory | check the token, queue a run, list runs |
| Deals endpoints | `routes/deals.py` | none | list and show analyses, or preliminary ones |
| Settings | `routes/settings.py` | the investor profile, in memory | read, replace |
| Alerts | `alerts/` | none | email, ntfy, Telegram |
| Shell | `main.py`, `config.py`, `db.py`, `schemas.py` | engine and connection pool | wiring |
| Dashboard | `apps/web/` | status of the trigger buttons, timers, the history as rendered | trigger, wait, clear, reload |

**How they interact.** A scraper run is a coroutine on the event loop of the API, or
a process of its own (`workers/run_scrapers.py`, README.md:125-137). It calls
`persist_raw_listing` for each listing and, when it stored any, computes the
statistics and the analyses itself. `POST /market/analyze` and `/market/compute`
do the same in threads of the API, at the same time. The manual endpoint writes
the ingestion tables from the event loop. They share nothing but the database
(PostgreSQL, READ COMMITTED) and the connection pool of their process. The page of
the scrapers sends its clicks through server actions of Next.js; a trigger is
answered at once, its run is a background task in the memory of the API, and the only way
back to the page is the history, read when the page is rendered.

**What is hard.** `persist_raw_listing` and `create_manual_property` contain no
`await`: on one event loop each is a step of its own, but two processes
interleave them statement by statement. Uniqueness is left to the indexes: an
insert waits for a rival's transaction and fails when it commits. ORM updates write
only the columns that differ from a possibly stale read. The analyses of a property are
deleted and inserted with nothing that makes two workers exclude each other.
The price is part of a property's identity: a listing that is repriced out of
its band (R$ 10,000 wide) changes property and leaves the old one behind. Jobs
commit piecemeal and an exception ends them in the middle. A page of a site is read
card by card with exceptions and `continue`s between the statement that remembers a
URL and the one that uses it. Answers, timers and clicks of the dashboard come in any order. `PROJECT.json`
lists each of these hazards at its line, with the properties that watch it.

**What makes each component correct.** Ingestion: a listing is stored once, its
history ends with the price shown and gains a row when the price changes, the run
that created it is the one that counts it as new, details follow the listing, it
hangs on the property of its price band. Pipeline: an analysed property stays
analysed, with one set of analyses, made from its cheapest current listing and the
current statistics; every property on offer is reached; jobs end. Scrape jobs: the
recorded outcome tells what happened and a run that stored something is followed
by a refresh; a run ends once, and an accepted click becomes such a run. Scrapers: a success
has stored what it was shown, from each address once, and says so of no run that met a wall. Dashboard: buttons come back, and the history shows no outcome that
is not on record. Analyzer: a cheaper price never makes a deal look worse, scenarios and financing modes are
ordered as their names say, and nothing worth keeping is hidden behind demo data.

## Modules

| Module | Models | Composes |
|---|---|---|
| `Listings` | identities, price bands, shapes of rows (no state) | |
| `ListingStore` | what ingestion promises: a store that takes a listing in one step | `Listings` |
| `Ingestion` | `persist_raw_listing` and `create_manual_property`, one SQL statement a step | `Listings`; refines `ListingStore` |
| `IngestionProofs` | theorems about `Ingestion`, for any sessions on any loops | `Ingestion` |
| `IngestionLoopProofs` | theorems about `Ingestion` on one event loop | `IngestionProofs`, `ListingStore` |
| `Percentile` | `_percentile` as an operator | |
| `InductionProofs` | induction over finite sets and naturals, folds and sums, in a form the provers can use (no model) | |
| `PercentileProofs` | theorems about `Percentile` | `Percentile`, `InductionProofs` |
| `DealPipeline` | `compute_neighborhood_stats` then `analyze_and_persist_all`, one SQL statement a step | `Listings`, `Percentile` |
| `DealPipelineProofs` | theorems about `DealPipeline` | `DealPipeline`, `PercentileProofs` |
| `RunLedger` | what `scrape_runs` promises: a run begins once and ends once, or is lost | |
| `ScrapeRun` | `run_scraper_async`, the loops of `BaseScraper.run` and of the page scrapers, one stretch between two database calls or awaits a step | stands above `Ingestion` and `DealPipeline`: storing a listing and refreshing are steps of it; refines `RunLedger` |
| `ScrapeRunProofs` | theorems about `ScrapeRun` | `ScrapeRun`, `RunLedger`, `InductionProofs` |
| `Links` | `_extract_listings` of the five page scrapers, link by link, as operators | |
| `TriggerPanel` | the trigger buttons and timers of the page in the browser | |
| `Collection` | from a click to the row in the history: panel, request, queued run, pages and lots, crash and restart of the API | `TriggerPanel`, `Links`; refines `RunLedger` |
| `CollectionProofs` | theorems about `Collection` | `Collection`, `RunLedger`, `InductionProofs` |
| `Analyzer` | `analyze_property`, `compute_score`, `decide`, and what `GET /deals` shows of a property | computes what a batch of `DealPipeline` holds |
| `AnalyzerProofs` | theorems about `Analyzer` | `Analyzer`, `InductionProofs` |
| `MCIngestion`, `MCDealPipeline`, `MCScrapeRun`, `MCCollection`, `MCAnalyzer` | instances for TLC | |

### Ingestion

A *session* is a database session working on one listing. Sessions of scrapers run
`persist_raw_listing`, sessions of the manual endpoint run
`create_manual_property`; `LoopOf` places each on an event loop, and `LoopFree` lets a
routine start only when no other routine of its loop is under way.

| Model | Code |
|---|---|
| `category`, `listings`, `history`, `details` | committed rows of the tables; a property is identified with its fingerprint (unique, never updated, never deleted), a listing with (source, source_id) |
| `mine[s]` | rows inserted and flushed (or pending, for details) and not committed; other sessions do not see them but wait for their keys |
| `seen[s]` | the listing row read at ingestion.py:13-17, whose columns the ORM compares with the new values |
| `FindProperty`, `InsertProperty` | `_get_or_create_property` (63-83), properties.py:10-34 |
| `FindListing`, `InsertListing` | ingestion.py:13-17, 35-49; properties.py:36-53 |
| `FindDetail` | `_upsert_bank_owned_detail`, `_upsert_auction_detail` (86-136) |
| `Finish` | the UPDATE (21-30), history (33, 51), `commit` (59); a detail conflict rolls all back |
| `Answer` | properties.py:12-14 |
| `Rollback`, `Abort` | the handler of base.py:68-71, the end of a session, a process that dies |

A fingerprint is a pair of a *home*, which stands for everything hashed besides the
price, and the band of the price. The hash is taken to be injective on these.
`Commit` is one step: the row lock taken by the UPDATE orders the ends of two
transactions on one listing, and nothing is read after it.

### DealPipeline

A *worker* is a task that runs the pipeline, in a thread or a process. `Take` is the
environment: a scraper stores a listing, on the property of its band (what
`Ingestion` guarantees on one event loop, `BandFollowsPrice`). A job is
`Collect`, `ReadStat` per group, `CommitStats`, then `List`, and per property
`Pick`, `ReadMarket`, `DeleteSees` and `DeleteRows` (a DELETE first finds the rows
committed by then, then waits for those another transaction is deleting),
`Analyse` (insert the twelve rows and commit). `Crash` can end it anywhere. The twelve
rows of a property are one *batch*, which carries the price and the statistics it
was made from. `quiet[w]` is an observer: no one else wrote since the job of `w`
began; it lets a property speak of what a job leaves when nothing disturbed it.

`Unanalysable` is the condition under which `analyze_property` raises. In the
base scenario (10 months) the return is raised to 12/10; with a return below -100%
the base is negative, Python's power is complex and `Decimal` refuses it. The costs
that are in both the total and the capital cancel (the investor's defaults are 25%
down and the financing costs 4%), which leaves 0.94 of the resale value against
0.71 of the price. The light renovation is computed first and has the lower resale
value. Parking, floor and carrying costs are left at values that do not matter
for it.

### ScrapeRun

A *task* is a scraper run that has been triggered; `ProcessOf` places it in the API or
in a process of its own. `turn[p]` is the task that has the event loop of `p`, from
one `await` to the next; database calls are synchronous and keep the loop. `held` and
`lent` are the connections of the pool in the hands of tasks and of threads.

| Model | Code |
|---|---|
| `row` | the task's row of `scrape_runs`: status and `items_new` |
| `new`, `produced`, `failed` | `stats["new"]`, `new + updated > 0`, `stats["errors"] > 0` |
| `seen`, `pending` | listings on the pages read, and those of the page in hand still to be stored |
| `dirty`, `covering` | observers: what was stored after the last refresh read it |
| `InsertRun`, `RefreshRun`, `BeforeTryRaises` | scrape_jobs.py:29-34; `db.refresh` begins a transaction that keeps its connection across the first awaits |
| `Fetched`, `FetchFails` | one page (page scrapers) or one lot (`BaseScraper.run`), discover and parse together |
| `Persist`, `PersistRaises`, `Caught` | `persist_raw_listing` (`Ingestion` has its statements), the handler around a URL |
| `CloseRun`, `CloseRaises`, `FailRun`, `FailRaises` | scrape_jobs.py:37-61 |
| `Refresh`, `Analysed`, `RefreshRaises` | scrape_jobs.py:65-75 (`DealPipeline` has its statements) |
| `NoAlert`, `Alert`, `Sent` | `_notify_new_deals`, `send_email` |
| `Lend`, `Return` | threads of `POST /market/*` and requests, which use the same pool |

A call that finds no connection in the pool is not enabled, which is the loop blocked, until a
thread returns one or the call raises (the pool's 30 s). `Lend` has no task to wait
for: threads come and go as they like. Some page scrapers remember the URLs they
have met (`MarkingTasks`), QuintoAndar does not; a page shows any set of
listings whose cards can be used, a lot at most one.

### RunLedger, Links, TriggerPanel, Collection

`ScrapeRun` looks at runs from the inside of their process; `Collection` at runs from the
user's side, with what they make of the pages of a site. The two are linked by `RunLedger`: both
implement it, each by a refinement mapping (`Life`, `Ledger`) from its rows and program counters
to the life of a run. `Collection` may therefore take a run for
something that begins, works and ends once, and `ScrapeRun` shows that the loop, the pool, the
refresh and the alert do not change that.

| Model | Code |
|---|---|
| a link: `url` and `text` | an anchor and what can be used of the card around it: a picture only, a price "sob consulta", a price of which no `Decimal` can be made, a listing |
| `Marked`, `ReadLink`, `Extract` | `_extract_listings`: `seen_urls.add` comes before the checks (chaves_na_mao.py:89), between them (loft.py:87), after them (brognoli.py:85, loft_partner.py:110) or nowhere (quintoandar.py) |
| `SourceId`, `StoredIds` | the source_id a scraper makes of a URL, often the same of several (mega_leiloes.py:168-170, chaves_na_mao.py:133-140, loft.py:124-126, lanceja.py:173-175, brognoli.py:91); the listings a run has stored, one for each |
| `Signs`, `Noticed`, `Refused` | a status of 401, 403, 429, another error, the words of a wall; which of them raise: `raise_for_status` in four page scrapers, caixa.py:73-75, blocked_public.py:25, none elsewhere |
| `status`, `timers`; `pending`, `clearing` | `statusMap` of one source and its `setTimeout`s; `analysisPending` and its |
| `Click`, `Answer`, `Expire`, `Ask`, `Asked`, `Clear` | `trigger`, `runAnalysis` (apps/web/components/scraper-triggers.tsx:20-41) |
| `HearQueued`, `HearError`, `HearGarbage` | apps/web/app/scrapers/actions.ts:10-20; the last is the rejected `res.json()`, which takes the page away (`view = "broken"`) |
| `Accept`, `Deny`, `Newest` | routes/scrapers.py, auth.py; a request the browser gave up (`GiveUp`) may be accepted later |
| `Reload` | the rendering of the page (apps/web/app/scrapers/page.tsx:36-59), whose two requests may fail one without the other |
| `Visit`, `VisitFails` | one page of a page scraper, with all it stores |
| `Discover`, `Lot`, `Refuse` | one page of `discover`; one lot of `BaseScraper.run`; a page whose refusal is noticed or not |
| `EndRegular`, `EndFailed` | scrape_jobs.py:37-61 |
| `Strand` | a database that fails before the handler, or in it: the row stays as it is |
| `Crash`, `Restart` | the API dies with its background tasks and is started again |

In a run's record `work`, `seen`, `queue` and what is found on a page are URLs, as in the code; a
listing is stored under the `SourceId` of its URL. `by`, `shown`, `spoilt` and `refused` are observers: the
URLs it stored from, those it was shown complete, those it first met in a form after which the code is
known to skip them, and the signs with which pages were refused. `SuccessIsComplete` is stated with them: it
holds of the sources that mark a URL late or not at all without exception, and of the other two
except for the URLs spoilt; and of refusals it speaks as far as `Noticed` goes.

The code removes duplicates by URL only. A listing linked by two URLs of one source_id (two prices or streets in
the path, another category or query) is stored by one run once for each, the second time as an
update, which counts again and may record a price again. `OncePerUrl` says no less and no more: once for
each URL, hence once for each listing where no two URLs that were stored from have one source_id. The page of
Quinto Andar is a dictionary by that id, so there one page has a listing once, and the next may have it again.

### Analyzer

One property over time: its price, the statistics an analysis would use, and the
price and statistics its stored analyses were made from. The analyses themselves are
operators of these: `Resale`, `HoldingCosts`, `TotalCost`, `Capital` and `Score` are
the functions of `analyzer.py` and `scoring.py` line by line, `HalfEven` is the
rounding of `Decimal.quantize`. `Table` holds every analysis, so that TLC computes each once. Amounts are in whole reais, so that they fit the 32 bits TLC
counts with, percentages in hundredths as in the code. `Analyse` replaces all twelve or, when one combination
raises (`Raises`) or does not fit its column (`Overflows`), none.

| Model | Code |
|---|---|
| `home` | columns of `properties` and of the listing an analysis reads; `risky` is occupied or without edital |
| `Decide`, `Score`, `CapitalPoints`, ... | scoring.py; `RiskPoints` with analyzer.py:156-161 |
| `Kept` | the filter of `list_deals` at its defaults (routes/deals.py:187-203) |
| `FirstLook`, `FirstScore`, `FirstResale`, `FirstWorks` | the preliminary analysis (routes/deals.py:434-694) |
| `Listed` | routes/deals.py:211-256; `others`: some other property's analysis passes the filters |

The rate the preliminary analysis takes from the listings (`_market_rates`) is the variable
`rate`, any value or none. A power of 1.2 is compared with a threshold by
the return at which it reaches it.

## Runs

| Run | Instance | Shows |
|---|---|---|
| `ingestion_race` | two scraper processes, the manual endpoint, one bank listing, two prices in two bands | types, `HistoryTracksPrice`, `DetailsWithListing`, `TablesOnlyGrow`, `NewIsNew` in every interleaving |
| `ingestion_live` | the same, one price | `EveryRoutineEnds`: waits for unique keys end |
| `ingestion_loop` | one loop, a bank and a portal listing | `BandFollowsPrice`, `CapturesChanges`, and `IsListingStore`: the refinement of `ListingStore` |
| `ingestion_manual` | one loop | **violation** of `ManualAnswered` |
| `pipeline_single` | one worker, a flat and a lot without area, prices 0, 5, 12 | `UpToDate`, `OneBatch`, `PriceInBand`, `EveryJobEnds` |
| `pipeline_double` | two workers | types, `UpToDate`, `StaysAnalysed`, `NobodyStuck` |
| `pipeline_two_sets` | two workers | **violation** of `OneBatch` |
| `pipeline_ghosts` | one worker | **violation** of `NoGhosts` |
| `pipeline_poison` | one worker | **violation** of `EveryPropertyAnalysed` |
| `analyzer_deals` | four homes, five prices, three rates, two liquidities, the default investor | types and column widths, `ScenariosOrdered`, `FinancingNoWorse`, `RaisesWhenDear`, `CheaperIsBetter`, `NotHiddenByDemo` |
| `scrape_runs` | two runs on the loop of the API, one in a process of its own, two listings, one connection a process | types, `NewAddsUp`, `SuccessStoresAll`, `AllRefreshed`, `EveryRunEnds`, and `IsLedger`: the refinement of `RunLedger` |
| `collection_clicks` | one run of each of eleven scrapers over up to two pages and two links to three URLs, two of them of one listing; two clicks with crash, restart and analyses; a run over a link, with a crash | types and the limit of the history, `OncePerUrl`, `CountsAddUp`, `SuccessIsComplete`, `HistoryTrue`, `AnalysisExclusive`, `ButtonReturns`, `AcceptedRuns`, `IsLedger` |

**Bounds, and why they are enough.** Two processes make every race on a key: a third
inserter of a key only waits like the second, and the proofs below cover any number.
One listing is what two scrapers compete for; the loop run adds a second, so that
two sources share a property. Two prices on either side of a band edge, and no price,
give every kind of change: within the row, across properties, to and from nothing.
`MaxHistory = 2` lets a price change, change back and change again. In the pipeline two
listings are the least that makes a statistic, two bands make a listing leave a
property, price 0 reaches the replacement by 1, `MaxTakes` and `MaxJobs` leave room
for a job before, between and after two changes, two crossing jobs after a third one
that left something to delete, and `Ids` has a name for every batch these can leave.
The percentiles 5 and 12 square metre prices give put 12 above the market (1.4 times the median), so a
job fails in the middle. In `ScrapeRun` one connection a process is the pool at its
limit as soon as one task or thread holds it (the code has 15); a run of two pages of
two listings sees a page fail in its middle and a listing again, one of a lot in
another process stores the same listing at any moment, and a third, whose site shows
nothing, competes for the loop and the connection. In `Collection` a behaviour keeps to one of a set of
`Bounds`. In the first one run meets up to two links of any kind, on one page or on two, which is what it
takes for a URL to be met in two forms, for two URLs of one listing, for an exception between two cards, and for a page that
fails after another. In the second two clicks, which do not share more than the panel and the table, meet no
links but crashes, reloads, lost answers and analyses; in the third the process may die while a run goes through links. Runs of one source keep their pages and URLs to themselves, so that
nothing is lost by not combining these. `MaxShown = 1` is a history at its limit (25 in the code) with
the second row. In `Analyzer` the
homes differ in everything the code branches on; the prices run from the 1 that
stands for a free listing (a return too wide for its column) to one far above the
market (the power that raises), and every decision occurs, as does every answer of `Listed`.
Except there deadlock is not checked: when the bounds are used up, or no
scrape is due, the system stops.

**Fairness.** A session or job that can execute its next statement does: the
database answers and the event loop or thread scheduler runs what is ready (WF of
`Statement`). Inserts that wait for a key are queued by PostgreSQL and woken when the
holder ends, hence SF of the two inserts in `Ingestion`. A task of `ScrapeRun` that has the
loop, or finds it free, takes its next step (WF of `Step`): sites answer or time out
in 30 to 45 s, a wait for a connection raises after 30 s, and no task can have the loop
without having a step that is enabled. `Sent` has no fairness: `smtplib.SMTP` is opened without a
timeout (alerts/email.py:14), so `EveryRunEnds` promises nothing after the mail is handed over. In `Collection`
the browser's timers fire (WF of `TimerFires`, `AnalysisCleared`), a request is answered or fails (`Hear`,
`AnalysisAsked`), and a run takes its next step (`Step`: its requests time out after 30 or 45 s; `Strand` is no part of it, so that no run is
assumed to fail); the user need not
click or reload, and nobody need restart the API. Nothing is assumed of the
arrival of work or of crashes.

`EveryJobEnds` is checked with one worker. With two, a worker can also wait for
another's deletes; `NobodyStuck` says that whoever it waits for has only its commit to do, and
so nothing more than the fairness of that worker is needed.

**The disagreements found.**

- `ingestion_manual`: a property whose scraped listing is repriced out of its band is left with no
  listing; registering it by hand then takes `source_listings[0]` of an empty list (properties.py:13) and raises.
  A listing that was registered by hand never moves.
- `pipeline_two_sets`: two workers on one property (a scrape finishing while somebody
  presses "Rodar análise") each delete what was committed and insert twelve
  rows: 24 remain until the next run (deal_persistence.py:154).
- `pipeline_ghosts`: a repriced listing moves to a new property; the old one is no
  longer visited, and its analyses stay on the dashboard (deal_persistence.py:120-130).
- `pipeline_poison`: one listing above some 1.4 times its market value makes the job
  raise, and no property after it is analysed (analyzer.py:176).

Not runs, but plain from the models:

- `Listed` in `Analyzer`: the fallback of `GET /deals` is taken when no analysis *passes the filters*, where
  the comment says "When analyses have not been persisted yet" (routes/deals.py:211-213). A property just
  analysed and discarded, a margin below 30% being enough, comes back as a preliminary deal, which
  has other costs and no such limit, while its own page shows the stored analyses.
- `FailRun` in `ScrapeRun`: a run that stored listings and then raises outside the handlers of
  its URLs (the discover of a lot scraper, the last commit) records a failure with
  zero items and returns before the refresh that the comment at scrape_jobs.py:63-64 promises. `AllRefreshed` is
  therefore about runs that did not fail.
- `spoilt` in `Collection`: a card without a text (Chaves na Mão) or without a price (also Loft) hides the complete
  one that follows, and the run says success.
- `Refuse` and `Noticed`: docs/FONTES_E_COLETA.md:29 and README.md:155 have a captcha recorded as a failure. Caixa and the
  probe of the portals look for one; to the other scrapers such a page has no listings, and the run says success. The same
  goes for a refusal by status in a lot scraper or Quinto Andar. `Lot` with an error page that Caixa does
  not recognise: it is stored as a listing.
- `SourceId`: a listing with several addresses is counted, and may be repriced, once for each in one run.
- `HearGarbage`: an answer that is not JSON escapes the handler of `triggerScraper`, since its promise is returned and not awaited.

With two processes `CapturesChanges`, `BandFollowsPrice` and `IsListingStore` do not
hold either: both capture one price change they read at once, and an update from a
stale read mixes the property of one with the price of the other. That is why they are checked on
one loop, the deployment the API alone is.

## Proofs

Every safety property a passing run checks, invariant, action property or refinement, is
also a theorem, for all values of the constants that satisfy the assumptions declared in
the modules. Some theorems need a hypothesis more; each is named below.

| Property | Theorem | Hypothesis |
|---|---|---|
| `TypeOK`, `HistoryTracksPrice`, `DetailsWithListing`, `TablesOnlyGrow`, `NewIsNew` | `IngestionProofs`: `TypeCorrect`, `HistoryCorrect`, `DetailsCorrect`, `GrowthCorrect`, `NewCorrect` | |
| `BandFollowsPrice`, `CapturesChanges`, `IsListingStore` | `IngestionLoopProofs`: `BandCorrect`, `CaptureCorrect`, `StoreRefined` | `SingleLoop`: all sessions on one event loop |
| `PriceInBand`, `StaysAnalysed`, `NobodyStuck`, `UpToDate` | `DealPipelineProofs`: `PriceCorrect`, `AnalysedStays`, `NobodyWaitsInACircle`, `UpToDateCorrect` | |
| `TypeOK` | `DealPipelineProofs`: `TypeCorrect` | `Naming`: finitely many workers, infinitely many names for batches |
| `OneBatch` | `DealPipelineProofs`: `OneBatchCorrect` | one worker; with two it is false (`pipeline_two_sets`) |
| `TypeOK`, `SuccessStoresAll`, `AllRefreshed`, `IsLedger` | `ScrapeRunProofs`: `TypeCorrect`, `SuccessCorrect`, `RefreshCorrect`, `LedgerCorrect` | |
| `NewAddsUp` | `ScrapeRunProofs`: `NewCorrect` | finitely many runs |
| `TypeOK`, `OncePerUrl`, `CountsAddUp`, `SuccessIsComplete`, `HistoryTrue`, `AnalysisExclusive`, `IsLedger` | `CollectionProofs`: `TypeCorrect`, `OnceCorrect`, `CountsCorrect`, `CompleteCorrect`, `HistoryCorrect`, `AnalysisCorrect`, `LedgerCorrect` | |
| `TypeOK`, `ScenariosOrdered`, `CheaperIsBetter`, `RaisesWhenDear` | `AnalyzerProofs`: `TypeCorrect`, `ScenariosCorrect`, `CheaperCorrect`, `RaisesCorrect` | |
| `FinancingNoWorse` | `AnalyzerProofs`: `FinancingCorrect` | an entry of at most 96%, so that entry and financing costs (4%) do not exceed the price |
| `NotHiddenByDemo` | `AnalyzerProofs`: `ShownCorrect` | an entry of at least 25%; `NoFreeLots`: a lot with an area costs more than R$ 1 |

The last two hold of the investor the code analyses for (25%, schemas.py:21), and of the instance TLC
checks. Below 25% the preliminary analysis, which has 25% written into it (routes/deals.py:447), asks for more
capital than the real one and may be filtered out where the real one is not. The capital of a lot of R$ 1, without
works, rounds to nothing in whole reais, and its return is then taken to be zero; the code keeps cents.

**Ingestion.** `HistoryTracksPrice` is not inductive: a commit writes what was read several
statements earlier. The invariant `IInv` adds what makes it so: `Flow` (what a session
holds at each statement; a listing was seen or inserted, not both), `Locks` (while an
insert is pending its key is not committed and nobody else's), `Memory` (a row that
was read is still there) and `DetailsMatch`. `Locks` is where the unique index enters:
it turns "nothing was seen" at the commit into "nothing is there".
`PropertyLocks`, the same for fingerprints, is needed for the category of a property
and is proved separately. These theorems hold whether or not sessions share a loop.
On one loop `LoopInv` adds that one routine is under way (`OneAtATime`), that what it read is still
the row (`Fresh`), and that the property it goes on with is its own or exists (`Claimed`). From
these each statement but the last is a stutter of `ListingStore`, and a commit is
its `Take` or `Register`.

**DealPipeline.** A job's statements are far apart, and scrapers and other jobs write between
them. `Types` says more than shapes: the price a worker keeps is of the band of the property it works on, which
gives `PriceInBand`, and whoever holds deleted rows is at its commit, which gives
`NobodyStuck`. `Undisturbed` is the invariant of `UpToDate`: while nobody else has written since a job
began (`quiet`), the groups and properties it has passed are right, the one in hand is on its way, and the
others are still to come (`Progress`). It needs no assumption on the number of workers, a
writer ending the quiet of all the others (`WritesDisturb`). `Alone` gives `OneBatch`: what a lone
worker is about to delete is all there is. Without the worker's own view of the DELETE it
would not be inductive, and with a second worker it is false. That a new batch finds a
name takes an infinite set of names, which the UUIDs of the table stand for; TLC checks it
with as many as its bounds can use.

**Percentile.** For a sample of any size the k-th value is a member of it, a percentile lies between the
lowest and the highest value (`PercentileWithin`) and grows with the percentage (`PercentileGrows`),
interpolation and rounding included. The first makes `stats` a table of naturals in `Typed`; the second is
what `Analyzer` takes for granted in `Markets` (p50 at most p65).

**ScrapeRun.** `LedgerCorrect` rests on `RowOfTask`, which ties the status of a row to the label of its task: the rows do not
say by themselves that a run has not ended yet when its outcome is written. `MoveStep` says once what a step of one task does to the
lives of all, and each action is a case of `Begins`, `EndsWith`, `LosesOne` or `GoesOn`. `SuccessStoresAll` is not inductive, a
success being decided by `failed` long after the pages were read: `SeenOrDropped` says that what was seen is stored or in
hand as long as no error is counted, and that the hand is empty between two pages, also
for the sources that skip what an earlier page has shown. `TypeOK` counts the connections of the pool:
`PoolKept` and `LoopHeld` say who may have one. `Tally` is the invariant of `NewAddsUp`: each listing stored was counted by one
run, so that the sum of the counters is the size of the table as long as no run has lost its count. `DirtyCovered` is that of `AllRefreshed`: for
every listing not analysed since it was stored there is a task that still has to refresh after it, is refreshing with
it, or has come to an irregular end.

**Collection.** The refinement needs `RowOfRun`: a request that may still be accepted has no run, so that `Accept` cannot
queue a second one, and a row follows its run. `HistoryTrue` adds that every row in the order of `started_at`
is there, which makes what `Newest` returns true when it is read, and `OutcomesStay`,
which keeps it true while the page grows old. `OncePerUrl`, `CountsAddUp` and `SuccessIsComplete` are about pages of any length: `Told`
is the invariant of the loop over the links of a page, by induction over its length, and says that what the links read so far
show complete, and every URL remembered, is found or already known. `WorkInv` carries it from page to page: a run has counted
what it stored, each URL once, its counters add up unless it has an error, and what it was shown it has stored or is
known to spoil.

**Analyzer.** Rounding half to even keeps the order of what it rounds (`RoundGrows`: two halves never cross), and `Part` and `Pct`
are single roundings of a product and a quotient in spite of their long division (`PartRounds`, `PctRounds`). From there
each amount is shown to grow or fall with the price, the rate, the months and the share that is owed, up to the
score and the decision: `CheaperIsBetter`, `ScenariosOrdered` and `FinancingNoWorse` are instances. `RaisesWhenDear` and
`NotHiddenByDemo` compare an analysis with another formula, and bound the error of each rounding (`RoundNear`): a return
below -100% means that the sale and the financed part do not cover the price (`LossIs`, `LossIsDear`); a margin of 30% after a year's
costs leaves the preliminary analysis more than 20% of margin and 24.44% of return, hence 53 of its points (`FirstWorth`,
`FirstScoreReaches`). `DealsInv` says of the stored rows only that they come from an analysis that did not fail.

The library's induction theorems take the statement as an operator, which the provers
cannot instantiate. `InductionProofs` states induction with a set in place of the operator: the least element of a set of
naturals and the minimal one of a set of finite sets exist because strict inclusion of
finite sets is well-founded. From it come the existence of folds (`FoldExists`), sums over finite sets and their laws, and
`UpTo`, which the theorems on percentiles, totals and pages use.

The invariants were checked with TLC before they were proved, as invariants of the run of their component: `LoopInv` on
`ingestion_loop`, `Types`, `Undisturbed` and `Alone` on `pipeline_single`, the first two on `pipeline_double`, `Tally` and
`RefreshInv` on `scrape_runs`, `WorkInv` on `collection_clicks`, `DealsInv` on `analyzer_deals`, on all their states.

**Model-checked only**: liveness (`EveryRoutineEnds`, `EveryJobEnds`, `EveryRunEnds`, `ButtonReturns`, `AcceptedRuns`), since
this prover treats neither fairness nor `ENABLED`, and the four violations, which are counterexamples. The proofs are about the models: that a model
says what the code does is argued by the tables above, not proved.

## Simplifications

- A property's attributes other than fingerprint and category, and a listing's other
  than property and price, are not modelled: nothing here tells them apart.
- In `DealPipeline` a query always returns current values. SQLAlchemy would return
  the old values of a listing that the same transaction has already loaded, which
  needs a property skipped for its missing area and a listing that moves from it to
  the next one before that is reached.
- An analysis too wide for its column ends a job of `DealPipeline` like a crash, with the same effect; `Analyzer` (`Overflows`) has
  the condition.
- Prices per square metre are kept in hundredths and cut, not rounded; percentiles 25
  and 75, liquidity and `computed_at` are left out.
- In `Analyzer` a price may change to any other, while the code keeps a listing on its property only within its band; the
  preliminary score always has the 4 points for known bedrooms and neighbourhood (routes/deals.py:673-676); a home has no parking space or is a walk-up, not both; the database
  gives the preliminary analysis a rate that depends on nothing else in the model.
- In `ScrapeRun` storing a listing is one step and the statements of a refresh are two
  (what it reads, what it commits). `collected`, `parsed`, `updated` and the texts of errors are left
  out; discover is merged with parse. A commit that succeeds although its caller is told otherwise is not
  modelled; pages that show a listing first without and then with its price are in `Collection`. `MarkingTasks` remember listings here, not
  URLs: one with two URLs is stored again, as by a task that remembers nothing.
- In `Collection` what a page stores is one step, and so is a lot; the refresh and the alert after a run are left to
  `ScrapeRun`, since they do not touch its row (`IsLedger`). The panel has one source: buttons of different sources share
  nothing but the analysis button, which is there. The two timers, of 5 and 8 seconds, fire in any order, and server actions,
  which Next.js sends one after the other, are answered in any order: both allow more than happens. A refusal in
  words that nobody looks for is a page without listings. A URL has one source_id; that the card or the page may say another
  (loft_partner.py:144, caixa.py:39), and an error page of Caixa none, is left out.
- Not modelled: the regular expressions over HTML, formatting, configuration, migrations (one initial schema),
  request schemas, the settings endpoint (one variable no analysis reads), the rendering of the other pages and `GET /market/stats`.
- `apps/api/pkgs` holds the vendored dependencies (SQLAlchemy, FastAPI, httpx and others, some 500,000 lines). They are
  third-party code, modelled only by what the service relies on of them: transactions, the pool, the loop, background tasks. `is_active` is never cleared by
  any code and has no counterpart.

## Plan

1. Proofs that tie the modules together: that the condition `Unanalysable` of `DealPipeline` is the one of
   `Analyzer` at its values, and that what `ListingStore` promises is what `Take` does in `DealPipeline`.
2. The steps on which liveness rests, as action properties: a session, job or run that is under way and not
   waiting has a statement to take, and each statement brings it nearer to its end.
3. The rest of `GET /deals`: several properties, the other filters, paging and `_market_rates`.
