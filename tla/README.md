# AutoMana: TLA+ models and proofs

AutoMana prices and sells Magic cards. A FastAPI backend and a Celery worker
share one set of *services* (`core/services`), which read and write PostgreSQL
through repositories and keep short-lived data in Redis. The worker loads
catalogues and prices by night, the API serves users, and both talk to eBay.
This directory holds the specification of the parts of that system whose
correctness depends on the order of things: chains of tasks with redelivery,
statements that commit one by one, loads that share tables, caches, locks, and
external calls that cannot be undone.

Paths below are relative to `src/src/automana/`; those that start with `docs/`
or `deploy/` to `src/`; `...` is `core/services/app_integration`. `PROJECT.json` maps every definition to the lines it
stands for and lists the hazards each property is for.

    tlc  -workers 2 -config nightly.cfg MCNightly.tla      # one run
    tlapm PipelineRunsProofs.tla                           # one proof module

## 1. Inventory

### 1.1 Components with state and ordering of their own

| Component | State | What is hard | Module |
|---|---|---|---|
| **Pipeline runs** `core/services/ops/pipeline_services.py`, `core/repositories/ops` | `ops.ingestion_runs`, `ingestion_run_steps` | six statements write one row without looking at each other; a failure row may be rolled back with the failure; two guards read different columns | `PipelineRuns`, `RunLifecycle` |
| **Celery worker** `worker/main.py`, `worker/tasks`, `worker/celeryconfig.py` | broker list, un-acked messages, one pool child | redelivery after the visibility timeout, deaths of worker and child, check-then-act over a queue | `PipelineRuns` |
| **Service framework** `core/framework` | the pool, one connection per call and its transaction | what a failure takes back; statements retried after a ROLLBACK; services that call services and hold two connections | `Connection`, `ServiceCalls` |
| **Card import** `core/services/card_catalog/card_service.py:642` | a batch, its retries, the resume point | a retry inside a transaction that its failure has ended | `CardImport` |
| **Health alerts** `core/services/ops/health_alert_service.py` | `pipeline_health_snapshot`, the Discord channel | the channel is told before the snapshots are committed; long messages are cut | `HealthAlert` |
| **Own-sales sync** `.../ebay/sales_sync_service.py` | `ebay_active_listings`, staged order lines | an item sold before its variant is known; one page of fifty orders | `SalesSync` |
| **Price advice** `.../ebay/listing_recommendation_service.py` | none: computed per request from stored prices | the action follows the quartiles and the price follows the strategy | `PriceAdvice` |
| **MTGStock loader and its tier slices** `.../mtg_stock`, `worker/tasks/pipelines.py:369-440` | files per print and market, `raw_mtg_stock_price`, staging and reject tables | slices of whole division, a date that changes within the local day, one raw table for two chains | `MtgStock` |
| **Shopify loader** `.../shopify` | collections, page files, parquet | hours between the read of the handles and their update; files never deleted | `ShopifyMarket` |
| **Sealed catalogue** `.../mtgjson` bootstrap | products, identifiers, source products | concurrent runs that insert what both miss | `SealedCatalog` |
| **Pricing tiers** `core/services/pricing`, `database/SQL/schemas/pipeline/06_prices_pipeline.sql` | daily, weekly and latest prices, `tier_watermark` | overlapping windows, a roll-up that deletes what its aggregate read, a watermark ahead of the data | `PriceTiers` |
| **PriceCharting** `.../pricecharting` | catalogue and sold-page files, the product map, staging | a match run of many statements in one transaction; locks of an operator | `PriceCharting` |
| **MTGJSON loader** `.../mtgjson` | identifiers, staging table, files | two runs share a staging table that both truncate | `MtgjsonPrices` |
| **List-price loads** `.../scryfall/price_loader.py`, `.../open_tcg/data_loader.py` | product links, observations | two loads link one card | `PriceLoads` |
| **Card search** `core/services/card_catalog/card_service.py`, `core/repositories/card_catalog` | a materialised view, two Redis caches | a page read from the old view saved after the cache was dropped | `CardSearch` |
| **Scryfall chain** `.../scryfall` | recorded versions, files, sets | a version recorded before it is imported | `ScryfallDaily` |
| **Sold-price promotion** `.../ebay/promote_sold_obs_service.py` | staging tables, `price_observation` | each of read, upsert per key and flag commits alone, while others stage rows | `SoldPromotion` |
| **Order status** `.../ebay/fulfillment_*service.py` | `ebay_order_status`, a cached list, fulfilments at eBay | three writers, an external call before the write, invalidation before the commit | `OrderStatus` |
| **Staged listing actions** `.../ebay/listing_actions_service.py` | `listing_pending_actions` | unguarded updates, check-then-insert, drains that die | `ListingActions` |
| **Listings** `.../ebay/listings_*_service.py`, `_idempotency.py` | listings at eBay, idempotency entries, a cached page | "at most once" from a get, an external call and a set-if-absent | `Listings` |
| **eBay tokens** `.../ebay/_auth_context.py`, `auth_services.py` | refresh token in Postgres, access token in Redis | a rotation at eBay cannot be rolled back, the row that records it can | `EbayTokens` |
| **eBay consent** `.../ebay/auth_services.py`, `api/routers` callback | request log, tokens per user and app | a state that eBay cuts; the latest request of anybody is taken | `EbayConsent` |
| **Sessions, password reset** `api/services/auth`, `database/SQL/schemas/core/03_users.sql` | sessions, refresh tokens, links | read through a view, written by a function later; concurrent rotations and resets | `Sessions` |
| **Collections**, **articles** `core/services/card_catalog`, `core/services/content` | rows with UNIQUE names and slugs | read-backs that roll an insert back; slug races | `Collections`, `Articles` |
| **API requests**, **users and roles** `api/routers`, `api/dependancies`, `api/services/user_management` | a request on its way, accounts, roles, the role log | rights checked before the service runs; several transactions per request | `ApiHandlers`, `ApiRequests`, `UserRoles` |

### 1.2 How they interact

- *Beat -> broker -> worker.* Beat sends a trigger; the pipeline task reads
  `is_run_active` and puts a chain of `run_service` messages on the same queue;
  each message publishes its successor when its task has returned.
  `PipelineRuns` composes broker, worker, tasks and ops tables.
- *Service -> service framework.* Whether the rows of `track_step` survive an
  exception, and whether `SELECT ... FOR UPDATE` locks anything, is decided by
  the transaction the framework opens. `Connection` is that transaction as
  operators on a record; `ServiceCalls`, `CardImport` and `PriceCharting` are
  built on it. `PipelineRuns` has it as the kind of a step, `EbayTokens` as
  membership in `InTxn`.
- *Loads -> tables -> tiers -> search.* The loaders share raw and staging tables
  with runs of their own; the tiers read `price_observation`; the search reads
  views that the loads refresh. Each module models its table with all writers it has.
- *Sync -> staging -> promotion.* The own-sales sync and the scraper write the
  tables that promote_sold_obs reads; the same sync is a writer of `OrderStatus`.
- *API -> eBay -> Postgres and Redis.* Shipping, listing and token requests call
  eBay first and write afterwards. `ApiRequests` EXTENDS
  `UserRoles`: a request is let in, runs its services one transaction after the
  other and is answered, while roles and accounts change. The handlers are a
  constant; `ApiHandlers` is the table of the code, which the run gives it.

### 1.3 Not modelled

Price readers and FX rates, the listing builder, the eBay search, buying and
selling wrappers, app registration and scopes, analytics, metrics, integrity
queries and reports make one query or one external call, or compute from one
request. The AI chat does what its language model says. Migrations, operator
tools, logging, settings, frontend and deployment hold no state that services
depend on. `PROJECT.json` lists each with its reason, and what is left out of
the components that are modelled partly.

## 2. Modules

A component `X` is a module with its constants and their assumption, one action
per statement or external call, and its properties at the end. Its theorems are
in a module that EXTENDS it. MC modules give the constants values.
Operators such as `UpsertUncommitted` or `HaltWithoutFailRun` stand beside the
definition they vary: they are what the code would be with a plausible mistake,
and no action uses them.

Five of them (`MCNightly`, `MCMtgStock`, `MCCatalogue`, `MCSelling`, `MCAccounts`) hold several components that share no state. A
variable `part` says which of them moves in a behaviour, the others stay in
their initial state: the state space is the sum of those of the parts and not
their product, and every part is explored completely. An MC module EXTENDS the
components that have theorems, so that run and theorem name one definition, and
makes an INSTANCE of the others.

What the models leave out: payloads, card data, titles, currencies, carrier
codes, encryption, scopes and log lines. Every SQL statement is atomic and reads
what is committed; the row locks that matter are modelled. History variables
(`lost`, `raced`, `twice`, `shared`, `forgotten`, `late`, `missed`, `odd`,
`reopened`, `early`, `untold`, `leaked`, ...) change nothing; they name the precise circumstances in
which the code gives a property up, so that the property still fails when the
code gets worse.

- **PipelineRuns.** A chain is a line of positions: `start_run`, `Steps`,
  `Finish`, then diagnostics. The worker takes a message, passes the redelivery
  guard, enters and leaves the service, publishes the successor and acks: five
  places at which it can die. `Kind[s]` says how a step tracks itself: *direct*
  (each row commits), *txn* (with the service), *untracked*. `Boot` is
  `worker_ready` with its purge and reconciliation. `Crash` keeps the un-acked
  message for `RedeliverOrphan`; `ChildLost` is a killed pool child, whose
  message is acked; `RedeliverInFlight` is the visibility timeout. A run key is
  a day. `RunLifecycle` is what a run promises, and `PipelineRuns` is shown to
  implement it (`Lifecycle`, by counting what each row says).
- **ServiceCalls.** Calls share a pool; a call may call another while it holds
  its connection; its SET may fail after the timeout of the connection is changed
  (`SetFails`); statements may fail, be retried by the executor after its
  ROLLBACK, or lose the connection, also under the COMMIT.
- **EbayTokens.** Tokens are numbered in the order eBay issues them. `Exchange`
  rotates, or not; after `Rotate` the old one is dead and only `Save` and, in a
  transaction, the commit (`Finish`) record the new one. `holder` is the row lock.
- **Sessions.** `View` is `v_active_sessions`; a call reads it and writes at its
  commit what it read before. A reset writes its list of sessions and commits later.
- **OrderStatus.** eBay takes a fulfilment or refuses it, and the request goes on
  either way. The two user requests hold the row's lock from upsert to
  commit, the sync commits at once; `Invalidate` comes before `Commit`, as in the code.
- **Listings.** `CallFails` is a request that raises before eBay has answered;
  `Refuse` an answer that says no, which is stored and replayed like a listing.
- **ListingActions.** Ids stand for `created_at`; check and insert of
  stage_action are two steps, and each statement of a drain commits alone.
- **SoldPromotion.** `key[r]` is the observation key of a staged sale. An
  observation is kept as count and total, so that equal averages of different
  sales are told apart.
- **PriceTiers.** Values of a day are the number of the write it was computed
  from; windows, watermark and the weekly roll-up are those of the two
  procedures. Calendar and window lengths are constants.
- **MtgStock.** Beat follows a plan of one local day; one worker takes messages
  in order; slices are computed twice, by the refresh and by the load.
- **ApiRequests.** `request[r]` is how far a request is, which of its services
  are committed (`stored`) and which have done something outside the database that
  no rollback undoes (`acted`); `Noting` keeps who was admin meanwhile. `HandlersAssumption` is what
  the proofs need of the handlers (one that stores or acts calls nothing after that
  can make the answer an error, and roles are the business of handlers for admins);
  TLC evaluates it on the table of `ApiHandlers`.

The heads of the other modules say the same for them.

## 3. Runs

| Run | Parts and properties | Bounds | States |
|---|---|---|---|
| `nightly` | `PipelineRuns` without process failures (OneChainPerRun, SuccessIsComplete, ImplementsLifecycle), `ServiceCalls` (CallsHold), `CardImport` and `SalesSync` (LoadsAreTrue), `HealthAlert` (ChannelIsCurrent), `PriceAdvice` (AdviceHolds) | 2 days, 4 triggers; 3 calls on 2 connections, 1 lost; a file of 4 cards in batches of 2; 3 check sets, 2 faults; 3 items of 2 accounts; 4 dates | 755 335 |
| `faults` | `PipelineRuns` under a crash, a killed child, a late redelivery, piled-up triggers and a step in a transaction: GuardsAgree, RunningIsCarried, RunEnds, QueueDrains | 2 days, 2 triggers, one of each fault | 596 688 |
| `mtgstock` | `MtgStock` (WindowRefreshesAll, RowsAreKept, EveryDownloadIsLoaded), `ShopifyMarket` and `SealedCatalog` (FetchedIsKept) | 4 prints, 2 tiers in 2 markets, 3 days, 1 fault; 2 weeks of 2 collections; 2 bootstraps of 2 files | 1 750 162 |
| `catalogue` | `PriceTiers` (TiersAgree), `PriceCharting` (MatchesHold), `MtgjsonPrices` (OwnPricesSurvive), `PriceLoads` (LoadedIsFiled), `CardSearch` (PagesAreCurrent, FacetsFindCards), `ScryfallDaily` (VersionsAreCarried) | 3 days in weeks of 2, each archived as soon as it is over; 2 products, 2 sales; 2 days of 2 faces; 2 loads of 2 batches; 3 versions, 1 reader, 3 ticks; 3 runs, 2 versions, 1 fault | 1 175 339 |
| `accounts` | `EbayTokens` (TokensHold), `Sessions` (SessionsHold, LoggedOutStaysOut), `Collections`, `Articles`, `ApiRequests` and `EbayConsent` (WorkHolds) | 3 services, 1 consent, 3 tokens; 2 logins, 2 sessions, 3 refresh tokens, 2 links, 2 resets; 2 users, 2 rows; 2 requests, 3 people | 1 042 941 |
| `selling` | `ListingActions` (ActedAtMostOnce, OverIsFinal), `OrderStatus` (ShipmentSurvives), `Listings` (ListingsHold), `SoldPromotion` (PromotionHolds, ResolvedIsPromoted) | 2 items, 2 clients, 4 actions, fetch limit 2; 1 order; 2 requests of one key, 3 faults; 2 own rows, 1 scraped, 2 keys | 421 393 |
| `rollback`, `copies`, `skip`, `watermark`, `ownlist`, `tokenlost` | the six disagreements of 3.2 | as small as they occur | - |

Each run also checks the types of its parts (`NightlyTypes`, ...). QueueDrains is
a bound on damage: queue and broker are worked off, and of the runs that were
started no more are left `running` than pool children were killed.

**Why the bounds are enough.** A chain needs a step before the failing one, the
failing one, `finish_run` and a diagnostic; two triggers are the fewest that
overlap. One fault of each kind leaves nothing behind but queue and rows, which
a second would meet in states the first can produce. Three calls on two
connections let a nested call wait for one that waits itself. Two days of a
week and a third outside it are the least roll-up that leaves something out; with
`KeepDays` 0 a week may be archived on the day after it, so that read, delete and
death of the roll-up meet the refreshes of all three days.
Two faces of one card and two runs are the least that contend for a staging
row; two loads that take two cards in opposite order for a product. Two logins
race a rotation while a reset holds the list; a second link is the least that can
invalidate a first. Three tokens allow a consent and
two rotations. Two rows form a group and two keys a partial failure. Four
actions over a fetch limit of 2 make a drain leave some behind; two clients stage
for one item at once. Two requests of one idempotency key are a retry or a double
click, and its entry may be one that does not decode; keys do not meet. Bounds (`MaxX`,
`Losses`, `Faults`, ...) guard triggers, changes from outside, faults and what a
run can create, never a handler of the code. Where a theorem exists (section 4)
it holds without them.

**Deadlock.** `CHECK_DEADLOCK FALSE` is used where the system may stop: when
triggers, actions, days or changes are used up an empty queue is a legitimate
end. There the liveness properties say that nothing is stuck.

**Symmetry.** `accounts` uses it for the logins and resets, `mtgstock` for the
sealed products, vendor ids and bootstraps, which differ in name only; the
properties of both are safety properties.

### 3.1 Fairness

- *PipelineRuns*: `WF(Handler)`, the worker consumes while it is up; `WF(Boot)`,
  compose starts the worker again (`restart: unless-stopped`,
  `deploy/docker-compose.dev.yml:190`); `WF(RedeliverOrphan)`, Redis restores a
  message after the visibility timeout. None on triggers or midnight.
- *SoldPromotion*: beat calls the promotion every night and it goes on while
  nothing fails; failures are bounded. None on staging.
- All other modules state safety only.

### 3.2 Where the code and its documentation disagree

1. **A failed step can leave its run running** (`rollback`).
   `pipeline_services.py:22-23` says both failure rows are needed so that the run
   "does not stay stuck as 'running'". For a tracked service with the default
   `runs_in_transaction=True` the exception rolls both rows back.
2. **Copies of a trigger each dispatch a chain** (`copies`). The design of the
   guard (`docs/superpowers/specs/2026-05-30-pipeline-idempotency-guard-design.md:75`)
   says copies 2 to 4 skip. The row the guard reads is written by the first
   message of the chain, which is queued behind the copies.
3. **A redelivered step can be skipped undone** (`skip`). After a restart the
   reconciliation ends the run; the interrupted step then looks stale to the
   redelivery guard and is dropped, while the chain continues.
4. **The watermark passes days over** (`watermark`). The beat task refreshes
   yesterday only and then sets the watermark to it, but the chain
   (`worker/tasks/pipelines.py:155-157`) picks up "exactly where the previous run
   left off".
5. **One card without a price change hides a collection** (`ownlist`). The entry
   has `price_change_1d: float`, the LEFT JOIN gives NULL, and the whole page
   fails its validation.
6. **An old refresh token is presented again** (`tokenlost`).
   `_auth_context.py:11-12` says the rotated token is upserted "immediately so the
   old token is never presented again". The upsert belongs to the transaction of
   the calling service, and a failure of that service takes it back.

### 3.3 Other behaviours met while modelling

They are conditions of the properties, notes of the hazards, or why a path is
not modelled; none has a run of its own. Four of them contradict what a reader
would expect or is told. Three are stated beside the properties, and TLC finds
each violated when it is added to a cfg as an INVARIANT:

- *A resumed import loses the rest of the file* (`ResumedImportRecovers`, a cfg of
  `CardImport` with Size 4, BatchSize 1, ResumePoints {1} and no failures).
  `card_service.py:526` and `:569` call `resume_from_batch` the "Batch number to
  resume from (for recovery)". Cards are skipped while `batch_count` is below it,
  and what is skipped never fills the batch that raises `batch_count`.
  EveryCardIsAccountedFor is therefore of imports from the first batch.
- *An order is dated though eBay refused it* (`ShippedDateIsReal`, `selling.cfg`).
  `create_shipping_fulfillment` returns the body of a 4xx or 5xx like any other,
  and `mark_order_shipped` then writes `sent` with `shipped_at`.
- *A double click makes two listings* (`DoubleClickMakesOne`, `selling.cfg`). The
  key is looked up before and stored after the call of eBay, with nothing reserved
  in between.

The fourth needs the time of the roll-up:

- *A week archived twice keeps only its later days.* `06_prices_pipeline.sql` says
  of its weekly upsert "idempotent re-runs are safe". A day of a rolled-up week
  that is refreshed late makes a row again, and the next run of the procedure
  replaces the week by an average of those rows alone; `WeekIsWhole` excepts such
  weeks by `reopened`.

*Pipelines and framework.* `finish_run` overwrites any status, so a chain that
goes on after the reconciliation turns its failed run into a success. The
nightly MTGStock load leaves out slices downloaded before the worker's UTC date
changes, and it does not wait for the downloads of its day: the files of a refresh
that still runs when it starts may be replaced before any load reads them. `bootstrap_catalog_from_set` does not fill the table the routing of
sealed prices reads. A sealed file that exchanges a vendor id between products
makes every later bootstrap fail. A redelivered record step of the Scryfall
chain lets it succeed without importing; that chain finishes its run before the
cleanup step. Shopify's `stage_raw` always fails (a dotted table name), and its
page files are never deleted. The service `archive_to_weekly` always fails: its
procedure commits inside a transaction. A
batch that fails inside the loop is swallowed; a statement of the import
retried after its failure runs outside the transaction.
`BaseApiClient.send` never calls `raise_for_status`. The timeout of a service is
put on the pooled connection, and `SET statement_timeout` sent, before the `try`
whose `finally` restores it: a SET that fails or is cancelled leaves the timeout to
every later user of that connection (`SetFails`, `leaked`). A killed pool child
leaves its run `running` until the worker starts again, which blocks the triggers
of its day.

*eBay.* A drain that dies leaves its action `processing`, nothing fetches it
again, and its item can stage no other. For a product and day sold through both
channels the scraped observation replaces the own one, and a sale staged after
its key was promoted replaces the observation by an average of the late sales
only. The nightly sync sets every recent order back to `sold` after a user has
marked it, and fetches one page of fifty orders per account. A
refusal of eBay is returned like a listing, stored under the idempotency key and
replayed to the retries of 24 hours. An entry that does not decode is a miss that
the comment would "overwrite below"; the SET NX does not. Two stage requests for
one item that overlap open two actions, and both are acted upon. The cached order
list is stale for up to its TTL of 300 s: a status change invalidates it before it
commits, marking as shipped and the nightly sync do not invalidate it at all. An
API request that wrote at eBay may be answered 500 and rolled back here while what
it did there stands. Two overlapping consents of one user may be saved in
the opposite of the order in which eBay issued their tokens.
`list_local_sales`, `register_app` and the eBay search handler call what does
not exist; `regist_scope` never awaits `register_scope` and answers "added". Consent
requests stay `pending` for ever and the fallback ignores their expiry.

*Prices advised.* The history of a variant mixes sell and buylist rows; the
90-day change can never be known; a falling trend turns "hold" into "lower" with
a suggested price above the current one; "raise" can come with a lower price in
a crowd of listings; the premium strategy is never recommended.

*Catalogue and collections.* `get_card` for no card answers 500 where its doc
says an empty list; `has_next` is true on a last page that is full;
`list_collections` ignores limit and offset; `link_collection_theme` raises when
already linked; the services that change sets are broken.

*Users.* A session lasts two hours though its refresh token and cookie last
seven days. `delete_user` fails on its audit trigger; `user_update` fails unless
fullname is given; `register` and `assign` answer 500 for a duplicate where the
docs say 409; `assign_role` drops the reason; two admins may revoke each other
and leave none. An article creation that loses the race for a slug gets 409
though a numbered slug would be free.

## 4. Proofs

The ASSUMEs of the constants say what kind of values they are (naturals,
disjoint names, a function with the right domain); TLC evaluates them in the
runs. The last column names what a theorem assumes beyond them.

| Theorem | Module | States | Assumes |
|---|---|---|---|
| `TypeCorrect` | `PipelineRunsProofs` | TypeOK | - |
| `GuardsAlwaysAgree` | | GuardsAgree | - |
| `RunsAreCarried` | | RunningIsCarried | `Loud` |
| `ChainsStaySingle` | | OneChainPerRun | `Quiet` |
| `SuccessMeansDone` | | SuccessIsComplete | `Quiet` |
| `FollowsLifecycle` | | Lifecycle!Init, [][Lifecycle!Next] | `Quiet` |
| `CallsStayTyped`, `CallsAlwaysHold` | `NightlyProofs` | CallsTypeOK, CallsHold | - |
| `ChannelKeepsUp` | | ChannelIsCurrent | - |
| `AdviceStaysTyped`, `AdviceAlwaysHolds` | | AdviceTypeOK, AdviceHolds | - |
| `NightStaysTyped`, `LoadsStayTrue` | | NightlyTypes, LoadsAreTrue of `MCNightly` | - |
| `RowsAreAlwaysKept` | `MtgStockProofs` | RowsAreKept | - |
| `WindowAlwaysRefreshesAll` | `MtgStockProofs` | WindowRefreshesAll | - |
| `EveryDownloadIsAlwaysLoaded` | | EveryDownloadIsLoaded | - |
| `FetchedIsAlwaysKept`, `MarketTypesHold` | | FetchedIsKept, MarketTypes of `MCMtgStock` | - |
| `TiersAlwaysAgree` | `SearchProofs` | TiersAgree | - |
| `VersionsStayCarried`, `ScryfallStaysTyped` | | VersionsAreCarried, ScryfallTypeOK | - |
| `PagesStayCurrent`, `FacetsAlwaysFindCards` | | PagesAreCurrent, FacetsFindCards | - |
| `SearchStaysTyped` | | SearchTypeOK | - |
| `LoadsStayTyped`, `LoadsAreAlwaysFiled` | `CatalogueProofs` | LoadsTypeOK, LoadedIsFiled | - |
| `OwnPricesAlwaysSurvive` | | OwnPricesSurvive | - |
| `MatchesAlwaysHold` | | MatchesHold | - |
| `MarketStaysTyped`, `CatalogueTypesHold` | | MarketTypeOK, CatalogueTypes of `MCCatalogue` | - |
| `TypeCorrect` | `SellingProofs` | TypeOK | - |
| `OnceOnly`, `EndsAreFinal` | | ActedAtMostOnce, OverIsFinal | `OneDrain` |
| `ShipmentsSurvive` | | ShipmentSurvives | - |
| `ListingsAlwaysHold` | `SalesProofs` | ListingsHold | - |
| `FlaggedAreWritten`, `PromotionAlwaysHolds` | | NothingFlaggedUnwritten, PromotionHolds | - |
| `SoldStaysTyped`, `SellingTypesHold` | | SoldTypeOK, SellingTypes of `MCSelling` | - |
| `SessionsAlwaysHold`, `LoggedOutAlwaysStaysOut` | `AccountsProofs` | SessionsHold, LoggedOutStaysOut | - |
| `TokensStayTyped`, `OldTokenExplained` | | TypeOK, OldTokenOnlyIfLost | - |
| `TokensAlwaysHold` | | TokensHold | `SingleConsent` |
| `CollectionsAlwaysHold` | | RefusedEntriesAreGone, OneActivePerName | - |
| `LinksAlwaysLead` | | LinksLead | - |
| `TokensAreFiledAsGiven` | | ConsentIsFiledAsGiven | - |
| `AnswersAlwaysTrue` | | OnlyAdminsAct, LogExplainsRoles, AnswersTellTheTruth | - |
| `AccountsStayTyped`, `WorkAlwaysHolds` | | AccountTypes, WorkHolds of `MCAccounts` | - |

They hold for chains of any length and kind of step, any number of days,
triggers, calls, connections, statements, check sets, windows, rows, batches,
files, cards, resume points, prints, markets, plans of a day, pages, weeks, vendor ids,
bootstraps, products, versions, printings, queries, refreshes,
items, accounts, orders, requests, sales, sessions, callers, users, collections, articles and faults, and for every table of handlers that meets
`HandlersAssumption`. Each inductive invariant was checked by
TLC on an instance at least as large as that of its run before it was proved.

**The hypotheses.** `Loud`: between start_run and the end only tracked steps
outside a transaction raise; without it RunningIsCarried is false (`rollback`).
`Quiet` (`MaxCrashes = 0 /\ MaxSlow = 0 /\ ~Burst`): the worker is not
restarted, redelivers nothing and receives no copies of a trigger; pool children
may die and every step may raise. With copies OneChainPerRun is false
(`copies`), with restarts SuccessIsComplete is (`skip`). `OneDrain`:
a worker of concurrency 1, as the Dockerfile starts it; with two drains the
properties are false. Clients may be any number.
The assumption of `ServiceCalls` has
fewer services that call others than the pool has connections: the worker runs
one service at a time, and the pool holds ten (`core/db/database.py:46`). `SingleConsent`: a user has one run of handle_callback at a time; two may store
the older token last.

**PipelineRuns.** `TypeOK` is inductive; the leaf that needs thought is `Purge`,
an order-preserving selection of the queue. `GuardsAgree` is inductive with it:
each of the four statements sets status and `ended_at` together.
`RunningIsCarried` needs `GuardsAgree`, since a redelivered message of a running
run must not be skipped, and lemmas on what Append, Tail and prepending keep of
a queue. For `OneChainPerRun` the queue itself must be described: `QueueInv`
says that each message is sound (its position, context and flag fit), that a run
has one message at most, that a trigger is behind all chain messages, and that
the run at work has none in the queue. The last two are why the guard of a
trigger, which reads a row, sees the chain dispatched before it. `RowsInv` ties
the chain to the rows: a chain at position p has done the steps before p, so
`finish_run` finds them done. From the two, each step of the code is a step of
`RunLifecycle` or a stutter, which `FollowsLifecycle` proves action by action.

**ServiceCalls.** `CallsInv` says that connections in use and calls at work
correspond one to one (`ConnInv`), that a free connection is as the pool opened
it but for the timeout of a service whose SET failed on it (`FreeInv`), what a
timed call finds, sets and keeps aside (`Timeout`), and what a call has written at
each stage (`Stage`): in a transaction exactly the rows of the statements done so
far are pending and none saved. `AllOrNothing` and `ConnectionsAreClean` follow. `WaitersGetServed` is a
counting argument: if every connection were held by a call that waits for its
own callee, there were as many such calls as connections, but the assumption has
fewer services that call others than the pool has connections.

**HealthAlert.** `ChannelIsCurrent` speaks of the rest between two checks; the
invariant adds that after the post, and before the commit, the channel knows what
was found.

**CardImport.** What an import without a resume point has counted, reported and
holds in its batch are at every step exactly the rows of the cards before its
place in the file (`ReadInv`). One that resumes never fills a batch, since only a
full batch raises the count that it compares with its point: every batch that is
over had a card of its own (`PlaceInv`), so at the end it has skipped everything.
`SavedInv` says where the counted rows are: all pending while the transaction is
open, gone with it after the first statement that fails, and saved one by one
from then on. `CountedRowsAreStored` is read off it at the COMMIT.

**SalesSync.** `KnownInv`: a row of the listings is missing, lacks its variant, or
is that of the item; an item taken up with its variant keeps it, and a line under
way has read it. The three reads of one line (card, variant, products) may fall
on both sides of a review, which is why the invariant speaks of each read on its
own. `OwedInv` gives SoldIsStaged: what is owed and not staged lies ahead of the
sync, in an account it still visits, among the lines it has fetched or in its
hands, so nothing is owed when it rests.

**PriceTiers.** `LatestIsNewest` is inductive with the types. `WeekIsWhole`
needs to know what the roll-up is about to delete (`ArchiveInv`: every day of the
week that has a row, unless the week was reopened) and that a rolled-up week
stays empty (`EmptyOnceRolledUp`). The weeks are arithmetic (`div`, `%`), which
the lemma `Weeks` isolates.

**ListingActions and OrderStatus.** `TypeCorrect` is for drains however many: it
needs that the rows a drain fetched exist (`Fetched`). `IInv` adds to ActedAtMostOnce what a drain
holds: a pending row was never acted upon (`Untouched`), the id of an insert
under way has no row (`Fresh`), and the rows a drain has not come to are still
pending (`InHand`), where `OneDrain` enters.
`ShipmentsSurvive` is of the two COALESCEs: each way to commit a row is one upsert,
and an upsert gives up neither date nor tracking number (`RowWritten`).

**Listings.** A key is *single* (`Single`) when one request at most is between
its look at the store and its entry, none is while there is an entry, and every
listing and every answer of the key is that of the entry or of the request under
way. `KeyInv`: a key that is not forgotten is single; a refusal that is stored
takes the place of the listing in this. `RequestInv` and `StoreInv` say by what
place in create_listing eBay has answered, and that an entry is an answer it gave
for that key; AnswersAreReal is inductive with them.

**SoldPromotion.** `promoted \subseteq written` is not inductive, since
`MarkPromoted` flags what the loop has collected; `Collected` adds
`sent \subseteq written`. ObservationIsAggregate needs the batch a run has read:
it still says what the table says, except for keys that a sale came late for
(`ReadInv`); a key is sent as a whole, and its observation is then that of its
group (`SentInv`); so the sales of a key in one table are flagged together
(`Together`). For this the aggregate itself, a sum over a set, is not unfolded: what
counts is of which sales it is taken. Its type needs that the sum is a natural
number, an induction on the size of the set; a set of least size that fails has an
element whose removal leaves one that does not (`SumIsNatural`).

**The selling parts together.** A step of `MCSelling` is one of its part
(`SellingIsParts`), so the invariants of the four give SellingTypes.

**MtgStock.** Two chains bulk-load into one raw table, and each stages what it
finds there. RowsAreKept rests on the order of the queue. The steps of a chain come
as a load followed by the staging of the same market (`Paired`), one worker takes
messages in order, and a chain is put back at the end after each step. So as long
as no load came between a load and its staging (`"shared" \notin odd`), a chain
about to stage finds the rows of its own market, and is before every other chain
that has a staging left (`TurnInv`); `StagedOwn` carries the market to the
observations. For the types, a bulk load is of a market and a staging files
under a market or the own source, all along a chain (`Steps`); a mapping takes of
each free card exactly one print, so no card has two (`MapKeeps`).

WindowRefreshesAll is about a run of days, so its invariant follows each refresh
that beat has sent (`Issued`): it is downloaded, it waits in the queue, or each of its
pairs is downloaded or has its download in a chain of the queue (`IssuedAreDone`,
`DispatchedAreDue` in `WindowInv`). A run key names tier, slot and the worker's day,
so a refresh that is refused because its key is taken loses nothing: the run which
took the key has its downloads done or ahead. At the worker's midnight and
at the end of the local day the queue is empty, unless work ran on (which the
property excepts), so what was sent is downloaded (`MidnightKeepsWindow`). A pair has
one place in the list of its tier and a place one slice (`EveryPlaceHasSlice`,
`EveryPairHasSlice`, by whole division with the rest in the last slice), and any
`WindowDays` days in a row come to every slice (`EverySliceHasDay`), so the days
that the window counts cover the list. This needs that the day's plan has one entry
for each slot of each tier and one change of the worker's date (`PlanAssumption`),
which the fixed entries of `celeryconfig.py` and the slots of `_TIER_WINDOW`
satisfy; where in the plan the date changes does not matter.

EveryDownloadIsLoaded is an action property: a step that replaces the file of a pair
finds the file observed. `LoadInv` says where a file that is not observed stands:
it is of today with its load ahead, or it is of an entry before the worker's
midnight, and the next load that takes its slice is still to come (`ToBeLoaded`). At
the first entry of the plan the queue holds no more than the load, at the others no
part of one (`Alone`); a date is loaded once (`OncePerDay`); what is asked of the
queue was sent on the worker's date of today (`InTime`); a pair is of one slot
(`OneSlot`). This needs `LoadAssumption`: the load takes the markets of every tier, ends
the day, and each refresh of the day is of a slot of its own, as in
`celeryconfig.py:169-204`. The proof showed that a load which beat sends while a
refresh still waits must be excepted (`"early" \in odd`): TLC then shows a file that
is replaced before a load has read it. The code only trusts that the downloads
"have had time to complete" (`celeryconfig.py:199`).

**ShopifyMarket.** `FetchInv` follows each collection: the files of the pages before
its cursor are of this week, and each product that stayed on the shelf with an id
up to `since_id` is on one of them. A page is the lowest ids above `since_id`
(`Lowest`, `LowestAnswers`), so nothing lies between it and the next; a product
added or taken elsewhere moves no id, which is why paging by id, and not by offset,
keeps this. `MarkInv` says that a handle about to be sampled has no mark but one set
since it was read. `FilesInv`: a file has the rows of the handle and page it is
named after. OldRowsAreLeftovers is then about the pages behind the cursor.
InStockWins needs that a group of rows has a last one, of the greatest tier, then
file, then page (`HasGreatest`, `OneIsKept`).

**SealedCatalog.** The property is of the tables after each commit, so it must be
known of what a run will commit: `Sees` says that a run's own rows together with
those of the others that it has not written over have one value per place and one
place per value. Two runs keep that apart since each waits for the products the
other holds and for the values it has written (`Apart`). `Progress`: the products
a run is through with have the ids of its file, so at the commit all have
(LastFileCounts); `Prices`: each has a row or will get exactly one.

**The loaders together.** A step of `MCMtgStock` is one of its part and stutters in
the others.

**PriceLoads.** `LinkInv`: a card that a load has linked and not committed has
neither a product in the table nor another link, which the unique index and its
wait give. So what a load has looked up stays what it sees (`MetaOf`), also when
another load commits meanwhile; the batches behind a load are in its rows
(`DoneOf`), all of them at the commit; product numbers are new (`NumberInv`).

**MtgjsonPrices.** `Promoting` says what a run knows while others promote or
truncate the staging table: between two batches each row it staged of a card that
was known when it began is normalised and lies ahead of it, at the cleanup none
is left. Others may only take rows away or normalise them, what can be resolved
stays so (`ResolvedGrows`), and a run stages nothing while it promotes.
`SpanIsOfDates` gives the first batch: the span has a least and a greatest day.

**PriceCharting.** `LockInv`: a locked row is verified, and a row without a
version has no confidence. `ChoiceInv`: while a run is on, a row with a version
was there when it began or is locked, and it chooses once per product and only
for the others. `RegisteredInv` says where the identifier of a confident row is:
committed, or, for one the run is about to write, committed or pending in its open
transaction (`Kept`), unless its insert failed or was rolled back with a later one (`unlinked`).
`PickedInv`: the version a staging run has read is still that of the map, unless
an operator locked the product since. That a winner is a candidate (`WinnerIs`) comes
from the least and greatest of finite sets. The run has two products; a
chosen product whose insert is rolled back by the failure of another's, while a
third has that identifier already, takes three, on which the invariant was checked.

**The catalogue together.** CatalogueTypes is the types of the parts' invariants,
kept side by side (`CatalogueIsParts`); those of MtgjsonPrices and PriceCharting hold of
rows, pages and locks one by one (`StagingStaysTyped`, `PagesStayTyped`, `LockStaysTyped`).

**ScryfallDaily.** `AllFit` says what a run has by each step (`RunFits`): a version
to import is a recorded one, and at the cleanup it is imported. A redelivered step
goes back to the one before, which changes nothing of that (`StepsBefore`). That
the newest files survive the cleanup is a counting argument: a file is removed
when at least `Keep` newer ones are there, and the newer files only become more
(`FilesStay`, `NewestAreKept`). Sets are stored in the order of the file in one
pass, so a set finds its parent only if the parent came earlier or was there.

**CardSearch.** Time stands still while a request is answered, so what a reader
holds ages only by refreshes of the prices. `PricesInv`: a cached price expires
`SparkTtl` after it was replaced at the latest; `AnswersInv`: an answer that
shows it expires its own life later, since a reader that has just read the price
knows that it was not replaced longer ago than that (`ReadersInv`). The same two
carry the views: a reader that has begun after a pipeline has dropped the
searches reads a view at least as new as that pipeline's (`MarksInv`), and an
answer saved before the drop is gone. `FacetsFindCards` needs only that a rarity
contains itself and that each list of facets leaves out its own condition.

**PriceAdvice.** Nothing carries over from one advice to the next, so the types
are the invariant's only other part; the work is in the operators. The premium
price is never the surest (`NeverPremium`), so with the quartiles in order the
advised price lies where the action sends the seller (`MarketAgrees`, whose "lower"
by a volatile market needs that the price is not already below it). The price a
change is measured from is one of those read, so no later price is below it when
they rise (`RisingDoesNotFall`).

**The night together.** A step of `MCNightly` is one of its part and stutters in
the five others (`PartSteps`), so the six invariants are kept side by side.

**Sessions.** `SessionsInv` adds what calls under way know: a call about to
rotate has a token of an existing session (`CallInv`), revoked tokens are of
inactive sessions (`RevokedInv`), the sessions a reset knows are over or are
among those it ends (`KnownInv`, `EndedInv`), and a link that one reset at a time
held is held before it changes the password and unreadable after (`LinkInv`).
`OneUsable` is OneTokenPerSession without cardinality. LoggedOutStaysOut follows
in one step: an ended session is not active, since an active one has a token, and
no step makes it active again.

**EbayTokens.** A token is *pending* from eBay's answer until its row is
committed. `LockInv` says who holds the row: whoever has an open upsert, and a
caller in a transaction from its read on. `FreshInv`: a pending token is new,
so no one else has it and the row never had it. `AloneInv`: who reads
outside a transaction is alone with the row, or there was a race. `LiveInv`:
unless a token was lost or there was a race, a caller about to present a token has
a live one, and the row has a dead one only while its replacement is pending. So
the reader that could present it would need a row that is held. `ConsentInv`
bounds by the consent's token all that is still to be written.

**Collections, Articles, EbayConsent.** Each has a hand-over between two steps of a
service. An add knows its entry before the row is committed; `EntriesApart`: no
other add has that entry, it has no row and was not refused. `NamesDiffer` counts
deleted collections, as the UNIQUE of the table does. A slug that a creation has
found free may be taken when it inserts, so nothing is said of what creations have
read: the UNIQUE alone gives `SlugsDiffer`, and `GivenLead` needs that links
are given out with the slug the row has and slugs never change. `TakenInv`: the
request a callback has taken is of the user who logged in, or its state was lost
and another login came between (`mixed`).

**ApiRequests.** A guard passes and the role is taken away before the service: so
`EntitledInv` says not who is admin, but who was while the request was under
way. `ProgressInv` (`OnItsWay`) says what is stored at each place: of the changing
services behind it all that are not tolerated; nothing before the handler runs and
after an error. What a service has done outside the database stands when its
transaction is rolled back (`acted`): an answer made of an exception (400, 409,
500, 503) may hide it, and only a request that was turned away has done nothing
there (`NothingDoneYet`), for which a handler that acts must have no other answer
to an exception. That an error is only answered while nothing is stored is where
`StoresLast` enters (`NothingStoredYet`). `LogGrows`: with the log and the role
changed together, the last entry of each user still explains the role.

**The accounts together.** `PartsStep`: a step of `MCAccounts` is one of its part
and stutters in the others, so the six invariants are kept side by side.

**Only model-checked.** Liveness (RunEnds, QueueDrains, ResolvedIsPromoted) and the fairness that `RunLifecycle` promises need ENABLED.
Every invariant and every action property of the passing runs is stated by a
theorem.

## 5. Limits and plan

One worker with concurrency 1 executes the chains, as the Dockerfile starts it;
the reconciliation is only right under that assumption, as
`docs/MASTER_TECHNICAL_DEBT.md:393` says. Reads are read-committed. Parts of one
MC module do not interact: where components share a table (the sync and the
order status; the loads and the tiers) each module has the other's writes as
actions of its own.
