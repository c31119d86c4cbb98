# affiliate-automation: TLA+ models, checks and proofs

This directory holds TLA+ modules that model the concurrent core of the
repository, the TLC configurations that check them, and TLAPS proofs of what
matters most. The modules are read from the code under `src/`; `PROJECT.json`
names, for every definition, the lines it stands for.

## 1. The system

The repository finds marketplace offers (Shopee, Mercado Livre), scores them,
writes messages about them, and publishes them to Telegram, Facebook and
WhatsApp groups. State lives in PostgreSQL (Prisma) and in Redis (locks,
leadership, rate limits). The writers are: the continuous worker, the Next.js
dashboard, and several command line tools run by an operator.

| Component | State | Operations | Hard behaviour | Properties that make it correct |
|---|---|---|---|---|
| WhatsApp Web operational queue (`packages/database/src/whatsapp-operational-queue.ts`) | `Publication.status`, `.errorMessage`, `.metadata`; `Channel.configuration` | inspect, preflight, authorize, revoke, cancel, archive, claim, record, finalize, release | commands that read before they lock; a state kept redundantly in a status and a JSON object | single-use authorizations, a permanent click marker, one unresolved delivery per channel |
| Delivery resolution (`whatsapp-delivery-resolution.ts`) | the same rows | operator's verdict, retry authorization | no lock; races with a dispatcher in flight | a marked row is unresolved, confirmed or decided |
| Authorized dispatcher (`apps/worker/src/whatsapp-authorized-dispatch.ts`) and WhatsApp Web publisher | Redis channel, profile and publication locks; local `sendClickStarted`; attempt rows | load, lock, claim, draft, mark, click, confirm, finalize, recover | crash between marker and click, lost replies, lapsed locks, a catch block that finalizes again | at most one message per publication, every message accounted for, claims given back |
| Operator CLI (`whatsapp-web-cli.ts`) | none of its own | all queue commands, dry run | dry run writes back what it read minutes before | as above |
| Publication worker (`apps/worker/src/index.ts`) | Publications, attempts, offers | plan, repair, publish, retry, expire offers | status and attempt in separate writes; limits counted before the lock | one active publication per channel, bounded attempts, no repeated send |
| Leadership and runtime loop (`worker-leadership.ts`, `runtime.ts`) | Redis leader key, abort controller, status row, pause controls | acquire, renew, lose, release; tick, heartbeat, stop; pause | a lost lease does not interrupt the running component; status writes that nobody awaits; forms that cross | at most one leader acts, or the limits of that; the status shown is true; pauses and cadences hold |
| Redis locks and limits (`packages/redis`) | keys with TTL and owner token | SET NX PX, compare-and-extend, compare-and-delete, fixed window | lost SET reply, database-only fallback | mutual exclusion up to the TTL |
| Dashboard forms (`apps/dashboard/src/lib/actions.ts`) | Channel, Offer, Publication rows | edit, pause, regroup, resolve | whole configuration rewritten from an old read | an edit invalidates inspection and authorization |
| Shopee freshness (`packages/shopee-affiliate`) | offers, publications | verify, expire, cancel | cancellation without the queue's lock | cancelled means not sent |
| Shopee discovery and schedule (`scheduled-discovery.ts`, `remote-discovery.ts`, `operational.ts`) | runs, import jobs, a Redis lock | tick, recheck, recover, run, import, finish; manual command | a lock that nothing extends, a run left RUNNING by a crash, a slow run beside its successor | an outcome stands, a catalogue is imported once, the schedule goes on |
| Shopee candidates (`remote-discovery.ts`, `discovery.ts`, `enrichment.ts`, the file import of `operational.ts`) | the pools and products of a run | list feeds, read pages, consider, choose, look up, import; preview and collect files | pools that forget, a catalogue that changes between pages, files replaced between two readings | what is imported was whole, is what was chosen, and was chosen fairly |
| Shopee distribution (`publication.ts`, `distribution.ts`, the planner, the assisted page) | publications of Shopee, the quota in the cycle's memory | create controlled rows, plan, activate, deliver, decide an assisted row, expire | a quota read once per zone, rows written by id after an older read | the limit of a day and the interval hold |
| Ingestion and offer versions (`packages/ingestion`, callers in `marketplace-discovery` and `operational.ts`) | products, offer versions | upsert, look up, create or update a version, retire | `lastVersion + 1` race, unique conflicts and retries, link generated outside the transaction, planner on an old read | what was looked up still holds, no ready version without a link, one Shopee link, history is kept |
| Mercado Livre discovery and session (`packages/marketplace-discovery`) | import job, session row, two Redis locks | discover, generate links, save / test / clear the session | parallel requests that rotate one cookie jar, late answers, saves that cross jobs | a rotated value stays rotated, the operator's cookie stands |
| Mercado Livre candidates (`marketplace-discovery`, requests of `marketplace-connectors`, `multi-category.ts`) | the candidates of a run, the search in a product's children | read categories and highlights, resolve an item, a user product, a product or its tree, merge, fetch; choose in balance | requests that fail one by one, a tree that branches and joins, limits of depth and size, invalid settings | the best child is found, each product is offered once with its best place, turns respect the limits |
| OAuth tokens (`marketplace-connectors`, `dashboard/lib/mercado-livre-oauth.ts`) | account row, a Redis lock | read, refresh, wait, mark for a new authorization, reconnect | a refresh token works once and is read before the lock | no working token is overwritten by a used one |
| Tracking (`packages/tracking`, route `/go`) | clicks, dedup keys, conversions, commissions, import jobs | redirect, attribute, import | key set before the insert, limit of the query, files imported at the same time, lapsing locks | visits count once, attribution is exact, an import is all or nothing and happens once |
| Process supervisor (`scripts/ops`) | processes, registration, component records, stop file, file lock | start, stop, restart, crash, back off | a stop during a start or a restart, killed supervisors | nothing runs twice, a stop leaves nothing |
| WhatsApp Web page (`packages/publisher-connectors`) | page, composer drafts, chats | publish, preflight, dry run, inspect a draft or a delivery | a page that people and WhatsApp change between any two steps | what is sent is what was asked, a confirmation is of the own message |
| Operations: burn-in and health (`packages/operations`) | a session file | start, sample, finish | none that races | unit tests reach it |
| Copywriting, scoring, validation, shared | none | pure functions | none | unit tests reach them |

Interactions: the worker plans a `Publication`; the operator drives it through
the queue with the CLI or the dashboard; the dispatcher claims it and sends it;
freshness and the dashboard write the same rows from outside. All of them meet
only in the database and in Redis locks. Ahead of the planner, ingestion makes
versions out of what the connectors and the link jobs find, with the help of the
session and the account's tokens; behind it, clicks and imported conversions
refer to what was published. These components hand on finished rows and share no
state that two of them write, apart from the status of an offer version, which
`OfferVersions` has the planner and the deliveries write too.

## 2. Modules

In the order in which they build on each other:

1. `WhatsAppRows`: the rows and the pure functions over them.
2. `WhatsAppQueue` (extends `WhatsAppRows`): the queue with arbitrary callers.
3. `WhatsAppDispatch` (extends `WhatsAppQueue`): the dispatcher, its faults,
   and the messages that really go out, which are counted; implements `SendOnce`.
4. `WhatsAppPage`: the errands on the page itself, below the dispatcher's click.
5. `WorkerLease`: leadership and component locks, with lost replies and lapses.
6. `PublicationWorker` (extends `WorkerLease`): plan, publish, attempt, retry
   and expiry for channels that need no operator; `WorkerStatus`: what the loop around
   them tells of itself, and its timers.
7. `OfferVersions`: ingestion and the jobs around it, with the planner.
8. `ShopeeSchedule`, `MeliDiscovery`, `MeliTokens`, `CatalogDiscovery`,
   `CategoryBalance`, `ShopeeFeed`: what feeds ingestion;
   `ShopeeDistribution`: how Shopee's offers become publications.
9. `ClickTracking`, `Attribution` (extends it), `FinancialImport`: what follows a publication.
10. `Supervisor`: the processes themselves.
11. `MCServices` composes 4, `WorkerStatus` and 7-10 for checking, `MCProgress` 6 and the schedule
    for liveness; `MCWhatsAppQueue`, `MCWhatsAppDispatch` and `MCPublicationWorker`
    are the instances of the others.
12. Proofs: `WhatsAppQueueProofs`, `WhatsAppDispatchProofs`,
    `PublicationWorkerProofs`, `OfferVersionsProofs`, `TrackingProofs` (of
    `ClickTracking`, `Attribution`, `FinancialImport` and `WhatsAppPage`), `MeliProofs` (of `MeliTokens`,
    `MeliDiscovery`, `CatalogDiscovery` and `CategoryBalance`), `ShopeeProofs` (of
    `ShopeeSchedule` and `ShopeeDistribution`), `SupervisorProofs` (of `Supervisor` and
    `WorkerStatus`).

Open: `worker --once` (which takes no lock).

## 3. What is modelled

**`WhatsAppRows`.** A publication row is the part of `Publication` the commands
decide by: `status`, whether `errorMessage` is the uncertain-delivery one, and
the metadata fields (the header of the module lists them with their column
names). `StoredState`, `Unresolved`, `MayAuthorize`, `MayClaim`, `MayFinalize`
and the other gates are the code's conditions; `Authorized`, `ClaimedBy`,
`Recorded`, `Finalized` and the rest are what the commands write.

**`WhatsAppQueue`.** One action per command. A command is a transaction at READ
COMMITTED; claim, record, finalize and release lock the channel and the
publication before reading, so they act on the current row. The other commands
read first and lock afterwards, or never lock. They act on any row in
`Reads(p)`: the current one, or one in `stale`, which `BeginRead` put there
earlier. The same holds for the channel that a dashboard form rewrites. Claim
holders are arbitrary here: any issued claim id may record and finalize with any
arguments at any time.

**`WhatsAppDispatch`.** Replaces the arbitrary callers by the dispatcher. Each
dispatcher walks the stages of `dispatchAuthorizedWhatsAppPublication` and of
`publish()` inside it; the module lists them. A database call is `Transaction`:
it commits, commits and loses its reply, is refused, or fails. The group of the
message is the one in the context loaded at the start. `sent` records what
reached the group; no process reads it except the visual confirmation, which may
miss a message but sees none that is not there.

**`SendOnce`.** The promise: a message is announced durably before it can go
out, goes out at most once, and has an answer from the announcement on. Its
`deliveries` is the number of messages of a publication, its `answer` is read off the
row: `WhatsAppDispatch` maps them from `sent` and `pub`. A second message of a row would raise
the number to 2, which no step of `SendOnce` does.

**`WorkerLease`.** Redis is a function from keys to owners: the leader key and
one key per component. A process leads, runs at most one component, and may have
been told to stop (`aborted`). `Lead`, `Abort`, `Quit` are `runWithWorkerLeadership`;
`Start`, `StartUnanswered`, `StartUnlocked`, `Finish` are
`createLockedWorkerDependencies` around a component; `MayRun` is the condition of the
loop. Two facts of the code make it hard: component keys are never renewed, and an
abort is looked at between components only. A lease that is not renewed in time
may `Lapse` under a live owner; the keys that may do so are the constant
`Lapsing`. A reply that does not come back leaves a key with a token nobody
knows (`Gone`): the worker does without the component, or, where Redis is not
required, runs it unlocked.

**`PublicationWorker`.** What the components publication, retry and maintenance
do under those locks, for Telegram and manual export. Each reads rows once (`OfferItems`,
`ReadDue`, `StartRetry`), keeps them in `job`, and writes each row later without
looking at it again: these are the gaps in which the properties could fail. The
four writes of a delivery (message, attempt row, status, offer) are the steps
`Send`, `StoreAttempt`, `StoreResult`; a crash or a failed call falls between any two.
A step that fails and is caught, as in planning or the freshness check, goes on with
the loop; one that is not ends the component (`DatabaseFails`). `delivered` counts
the messages that reached a channel; no process reads it.

- A row is named by its channel and offer version: the idempotency key is unique.
- Clocks agree. A retry time lies ahead until it `BecomesDue`; all rows are of one
  day, so a slot of the daily limit is never freed by midnight.
- The order of offers and of due rows is arbitrary, and any pair of the planning
  loop may be skipped. The real order (priority; oldest time first) is one of these.
- Any component may be started at any time: cadences only make runs rarer.
- The check that follows a Shopee read may end any way. Shopee's offers go to
  Telegram only, as `isShopeeDistributionChannelEnabled` decides.
- The lock `publication:{channel}:{offer}` around the planning transaction is left
  out: its refusal is one more skip, and the upsert under it is atomic anyway.
- Assisted channels, controlled rows and Shopee's own limits are in
  `ShopeeDistribution`, WhatsApp channels in `WhatsAppQueue`. Left out:
  `worker --once` (which takes no worker lock), alerts and metrics.

**`WorkerStatus`.** `runContinuousWorker` with its timers: a tick reads the pause controls
(`BeginTick`), passes paused components over, runs the due ones one after the other
(`Onward`, `EndPart`), writes the loop's heartbeat (`EndTick`) and sleeps until the next
component or heartbeat is due. The heartbeats of a running component, and a last write that is
awaited no longer, are in `late` until they arrive or are lost. `Shown` is what the dashboard
makes of the row; `ReadControls` and `WriteControls` are its pause form; `LookAtStatus` and
`NoteRelease` what a burn-in adds. Time passes in components and in sleep only (what the loop
awaits elsewhere is short against a heartbeat), and clocks agree. `WorkerShowsItsState` exempts from
"shown as OFFLINE means stopped" a leadership that lapsed, a last write that came late, and a
burn-in's note: TLC finds a counterexample without any one of these.

**`WhatsAppPage`.** An errand is one call of `WhatsAppGroupsWebPublisher`
inside `withConnectedSession`: open the exact group, prepare and attach the
image (or fall back to text), fill caption or text, persist the evidence,
validate, capture the baseline, persist the marker, click, record, confirm
(`publish`); the first part only (`preflight`, `dryRun`); or an inspection
(`draft`, `delivery`). Each is one action. The page is a state of its own: the open
group, the typed text, the image, and how much of the message list is loaded;
`drafts` is what WhatsApp keeps in the composer of a chat. `Confirmed` is
`evaluateOutgoingDelivery`: a message counts if it has the link or the title that
the code looks for, is new or changed against the baseline by id or by place, and its time fits.
`MessageSettles`, `PhoneSends`, `ListMoves`, `SomeoneTouches` are the rest of the world.
Selectors and layout checks are steps that may fail. `ClickSendTrigger` is the
click of the dispatcher's model, where the errand is one step with an outcome.

**`OfferVersions`.** A product has a sequence of versions; the fingerprint of a
version is its price (everything but the link) and its link. A `job` is one run
of: discovery of a product, refresh of a version, generation of a link for a pending
version, a row of a batch of links (`PreviewRow`, `ReadRow`), persistence of a
Shopee winner, application of a Shopee link. All end in
`ingestOfferInTransaction`: `LookForProduct`, `UpsertProduct` (which takes the row lock, or meets the unique
conflict that makes `ingestOffer` start again), `FindOffer`, `CommitOffer`; some
then retire pending versions in a statement of their own (`RetirePending`).
Locks are the product's row, the advisory lock of a Shopee item, and the
account's lock in Redis. The planner is two steps (`PlanSelect`, `PlanPlace`),
since `scheduleReadyOffers` writes the status without reading it again. Links of one
attribution label only; whether validation and score accept a version is free.

**`ShopeeSchedule`.** `tick` is what a worker's tick or the manual command does:
look whether a run is due, take the lock with its TTL, look again, declare a run
that was left RUNNING abandoned, start a run (unique key), discover, find or start the import of
the checksum, persist, finish, release. An outcome is SUCCEEDED (PARTIAL with
it) or FAILED. Time passes at any step; a lock
whose time is over is free for others while its owner goes on (`Overran`). An error of a tick that has
a run leads to the catch, which writes FAILED by id (`FailRun`). This includes the write of the outcome
whose reply is lost (`FinishUnheard`): there the database holds the outcome already, and FAILED goes
over it. An error in the catch is swallowed.

**`ShopeeFeed`.** A remote discovery lists the feeds, reads each one page by page
(`ReceivePage`, `PageFails`) into pools of bounded size, one per category
(`Considered`), stops at a limit, and lets the categories take turns (`Chosen`); with an
enrichment, the short list is looked up and chosen from again. Only a discovery
that was cut nowhere (`Whole`) is imported. An import of files reads them whole (`PreviewFiles`)
and a second time for the facts of what it chose (`CollectProducts`). The two readings do not merge the
same rows: the preview puts them aside without their description (`Compact`, `PreviewedProducts`), the
collection merges them whole (`ProductsOf`), and a description counts for how complete a row is, hence
for which of an item's rows its price and category come from. A row has
what filters, merging and ranking look at; a score is an integer that orders rows as the code's sum does.
`CatalogueChanges` serves another edition between any two steps. `FeedImportIsSound` is five statements:
pools and products agree, paging finds what reading everything would, an import is whole,
imports what was chosen, and the choice is fair.

**`ShopeeDistribution`.** One cycle of the worker's publication stage reads the
offers, goes through the pairs of offer and channel (`ChoosePair`, then `PlacePair` or
`ActivatePair`), and delivers what is due. What it knows of the quota, `cycle.today`
and `cycle.last`, is read when the first channel of a time zone comes up and counted on in
memory. Beside it run the command that creates controlled publications, the forms of
the assisted page, the expiry of stale offers and the requeue of failed rows; all of
these write by id what an older read found. Scores, hours and a channel's own limits are a
free choice (`suits`). `cameBack` marks rows that gave up their slot of the day and
returned; no process reads it.

**`MeliDiscovery`.** Two kinds of job (discovery, links for pending offers), their
locks, job record and failure paths; the session row with a version (`updatedAt`)
and a cookie that is a number per name. `SendRequest` and `AnswerRequest` are
the concurrent link requests; `Merged` is `mergeAffiliateCookieSnapshots`;
`PersistSession` is conditional on the version; the dashboard's save, test, test
link and clear write as the code does, conditionally or by id. `generation` marks whose
cookie it is and is read by no process.

**`CatalogDiscovery`.** One run that looks for candidates: `walk` is where it is
(category, highlight, a product's children or items) and how many requests may still
go wrong. `Replies` is a request after its retries: answered, 404, or failed. A product
with children is searched breadth first (`VisitChild`), with the limits of depth and
size, and the best child with a winner is chosen (`ChooseChild`); otherwise its
items decide, or its page (`ReadProductItems`). `Kept` is the map of candidates by kind and id.
Categories, products and items are constants, with the facts the code decides by; that
a user product's requests are one step, and that the policies drop any candidates,
leaves only more behaviours. `LoadProduct` shows what a missing `await` does: a failed
request for a product there ends the whole run as FAILED, while
`docs/multi-category-discovery.md:30` says that an isolated failure gives PARTIAL.

**`CategoryBalance`.** `selectBalancedMultiCategoryOffers` turn by turn: limits from settings
that may be absent or out of range (`Given`), pools by primary category, a round up to
the minimums and, if they are met or backfill is allowed, one up to the maximums. Scores
are one rank per offer. `SelectionIsBalanced` compares the result with what each category
could give for its minimum (`base`) and its maximum (`top`). Taking turns does not make the
counts even: who gave 2 for its minimum starts the second phase beside one whose
minimum is 0, and a session that is full after one more turn leaves 3 and 1. What is
even is what each gave above its base, and, where the session is full before all
minimums are met, the counts themselves.

**`MeliTokens`.** A grant is a number. A client reads the account, takes the
lock or polls, asks with the token it read before the lock, and saves, or marks
the account for a new authorization; the operator's callback exchanges a code
and saves at any time. Mercado Livre accepts a refresh token once (`accepted`), and
may refuse one that works: any 401 or 403 marks the account (`isMercadoLivreReauthenticationError`),
so that a mark says nothing of the token.

**`ClickTracking`, `Attribution`.** A request of `/go` passes the limits (whose counters are a
free choice), takes the deduplication key, inserts the click; Redis may lose keys, the
insert may fail or meet the unique key. `Attribution` decides a conversion on any
table of clicks: references in priority, candidates limited as in the query.

**`FinancialImport`.** An import inspects its file without a lock, takes the locks
of the file and of the type, confirms them, looks for a previous job, opens its
job, and writes row by row in one transaction whose commit carries the outcome.
`importWritten` is what the open transaction has inserted: another import that
inserts the same event waits for it (`InsertedByOther`). Crashes, lost replies and
lapsed locks at any step. When it is the reply of the commit that is lost, the catch writes FAILED by id
over a job whose rows stay: `importLost` marks such a job and is read by no process. The file may then be
imported again; the second job finds its events and skips them.

**`Supervisor`.** `supervisor.ps1`: the operator's commands (start, stop with its wait
and forced stop of what is recorded, restart), the supervisor's lock file, registration, start of
components, records, crash counter with its limit and reset, back-off, and the
programs themselves, which die or whose host dies. A supervisor that registers deletes the stop file
(`RegisterSupervisor`) before it says who it is (`AnnounceSupervisor`): a stop requested before is
forgotten, although the command that requested it now finds and waits for this supervisor. At its
deadline the command kills it wherever it is (`WaitForSupervisor`), also between the start of a program
and its record. What is then left, and what another supervisor overwrites before the stop has read
the record, is noted in `operator.orphans`, which no process reads. Process ids are numbers that
are not used again.

**`MCServices`.** These components share no variable. A behaviour chooses one of
them, `focus`, at its start, and the others stay in an initial state; `FocusView`
is the focus and its variables, so that states which differ only in the choice
of an initial state of a component that never moves are one. Every reachable
state of each component is reached in the behaviours that focus on it, and no
property relates two of them, so nothing is lost against checking them apart.

Abstractions of the WhatsApp modules, and why they lose nothing the properties tell
apart:

- Time appears only as the set `lapsed` of authorizations past their expiry,
  which may grow at any moment.
- A fingerprint is the part of the channel it hashes; the publication's own
  hashed fields are immutable after planning. The configuration fingerprint of a
  dry run is the group. The separate fingerprint of the last visual draft
  inspection is represented by the group in the visual fingerprint; this is
  exact unless the channel is regrouped during an inspection, where the model
  allows more.
- `enabled`, the automation switch, ownership confirmation and `Channel.status`
  are one flag `on`. The CLI's own short read-modify-write of channel bookkeeping
  fields is atomic.
- Queue order (`plannedAt`, `createdAt`, id) is the order of the numbers that
  name the publications.
- The browser is a nondeterministic outcome at each step that uses it.
- Attempt rows, audit entries, the profile lock and the publication lock only
  appear as steps that may fail: what they protect (one browser profile, one
  process per publication) is not what the properties are about.

## 4. Runs

All runs set `CHECK_DEADLOCK FALSE`: when every bound is used up and the
operator does nothing more, the system rests.

| Run | Question | Bounds |
|---|---|---|
| `queue_contract` | Can any sequence of commands, with misbehaving claim holders, make a marked row claimable, clear a marker, or use an authorization twice? | 1 publication, 2 claims, 2 authorizations |
| `queue_edits` | Does a claim, which compares fingerprints, ever happen on a disabled or paused channel, with forms and commands that act on old reads? | 2 groups, 2 edits, 2 authorizations, 1 old read |
| `dispatch_faults` | With a crash, a lost reply, a failed call or a lapsed live lock: at most one message, accounted for, with a status that does not lie about it? | 2 dispatchers, 2 authorizations, 1 fault, 1 publication |
| `dispatch_channel` | Without faults: one unresolved delivery per channel, refinement of `SendOnce`, and a claim is given back | 2 publications, 2 dispatchers |
| `worker_pipeline` | When one worker outlives its leadership beside its successor, with one crash, failed call or lost answer: do components overlap, are messages repeated or attempts added beyond the faults, are a waiting channel, the limit and delivered rows respected? | 2 workers, 2 offers (1 of Shopee), 1 Telegram channel, limit 1, 2 attempts, 1 fault |
| `services` | For each component around the pipeline, alone: what it promises (the last column of section 1), with concurrent processes and a fault | see below |
| `worker_progress` | Is every planned publication settled in the end, and does an offer stay published while its other channel is planned and delivered? Does the Shopee schedule go on? | 1 worker, Redis optional, 1 offer, a Telegram and an export channel, 2 attempts, 2 faults; or the schedule with the bounds of shop below |

Why these bounds are enough to be interesting: a double send takes two
dispatchers and two authorizations (the second after a verdict, a retry and a
new preflight); an unresolved pair takes two publications; a lost update takes
one old read; an edit that is undone takes two. One publication suffices where a
property speaks of one row, since rows meet only through the queue head, which
`dispatch_channel` covers. One fault reaches each single failure at each step;
the theorems lift the bound for the properties they cover. `Symmetry` permutes
claims and groups and is used only in runs without liveness or refinement.

For the worker, two offers on one channel are what a wait or a limit is about;
limit 1 is reached by the first plan and reopened by its failure; two attempts
have a retry between them. Two processes and a lapsing leader key give two
leaders; the component keys are then what is left, and they hold because no
component outlives them in this run. `OverlapNeedsTwoLapses` is therefore only
interesting there with the leader's lapse; that the other combinations
(`Lapsing` with a component's key, Redis optional, more faults and workers) agree is
the theorem. `PlannedWithinLimit` is claimed without a lapsed leader only: two
leaders could plan and requeue for one channel at once, since planning and
retry have different locks. `OfferStaysPublished` needs two channels that share an
offer, hence its place in `worker_progress`. `Symmetry` permutes the workers of
`worker_pipeline`.

The hypothesis `Exclusive` of the pipeline's properties says that at most one of
the two protections has failed. What happens when both have is the remaining
risk of a component that is slower than its lock; the code accepts it.

`OneUnresolved` needs the fault-free setting: when the channel lock lapses under
a live dispatcher, or the operator's verdict arrives during a dispatch, the code
does not promise it.

`services` checks the types of its components; the types of the queue, the
dispatcher and the pipeline are theorems (`QueueTypeCorrect`, `DispatchTypeCorrect`,
`PipelineTypeCorrect`) and in no run.

The bounds of `services`, per component, and what they let happen:

| Focus | Bounds | So that |
|---|---|---|
| clicks | 2 requests of 1 visitor at a time, 2 links of 2 offers, 2 windows, 2 clicks, Redis forgets once | the same visit is counted by two requests and after a forgotten key |
| attribution | tables of up to 3 clicks, 2 candidates in the query, every combination of references | two clicks answer one reference, and one is cut off |
| import | 2 imports of 3 files: two of conversions that share an event (one with invalid lines), one of commissions; 1 lapse, 1 fault | the same file or event crosses in two imports, and a commission meets a late conversion |
| shop | 2 workers, or a worker and the manual command; time 0..1 with TTLs and interval 1; 2 runs; 1 fault | a run overlaps the next, and a crashed one is found abandoned |
| offers | 2 jobs at a time, any number in a row; a Mercado Livre product (1 price, 1 link) or a Shopee product (2 prices, 2 links); 3 versions | two jobs cross in every pair, with the planner and deliveries between |
| feed | 4 categories, pages of at most 3 rows, pools of 2, 3 chosen, 1 per shop; sessions with one and two feeds, a limit of pages or items, an enrichment, and files; a catalogue that changes once | an item comes twice, is forgotten and comes back, changes its category, and the facts change after the choice; an item has rows with and without a description |
| distribution | 2 offers; 2 channels of 2 time zones, a channel whose deliveries fail, a group with its form, or a group and a channel with the command; 2 plans a cycle, 1 a day, interval 2, days of 2, time 0..2 | a second cycle plans beside what forms and commands have changed, in the same day and the next |
| tokens | 2 clients, 3 grants, 1 fault, the operator's callback | a client uses a token that another or the operator has replaced |
| catalog | 2 or 3 categories (one not a leaf) of up to 5 highlights, of which 4 count; a tree of 5 products reached at two depths, of depth limit 2, one with more children than the limit of 5 products, one without children; 1 or 2 failures | a child is reached by a long and a short way, at a limit, or not at all; one item is found in several ways and places |
| balance | 3 categories, 4 offers in one or two of them; priorities, minimums, maximums and totals with absent, invalid and contradictory values (1536 inputs); 2 categories of minimums 2 and 0, 5 offers, totals 1, 4 and 5 (3 inputs) | a category is empty, full, or takes another's offers; the session is full in either phase, or not at all |
| meli | 2 jobs and 1 dialog, 1 job and 2 dialogs, or 1 job, 1 dialog and 1 fault; 2 requests at a time, 2 cookie names, 2 items, 2 rotations, 3 writes of the row | answers arrive in either order, and saves cross both jobs and tests |
| status | 2 workers until time 2, or until time 1 in a burn-in; 1 worker and 2 forms until time 2; 1 worker until time 6; 1 fault; heartbeat 1, stale after 2, cadences 4 and 2 | two leaders follow each other, with late writes; forms cross; each component comes up several times |
| supervisor | 2 supervisors, 1 component, up to 2 crashes before it is given up, 2 starts, 1 death | a restart meets a supervisor that is still stopping; a stop is forgotten by a supervisor that starts, and kills it before it has recorded its program |
| page | 2 posts in one group whose texts share the link and not the title, one with an image; either one publication with 1 disturbance and one of 2 histories (a look-alike in another group, two older messages), or calm errands (publish beside a pending look-alike, publish after another publish, publish then inspect the delivery, dry run then publish, preflight, draft); with and without message ids and times | a leftover draft, a look-alike and a moved list each meet a click |

`ConfirmedIsOurs` exempts messages that the code cannot tell from its own
(`Rival`) and publications that someone disturbed after the last validation; TLC
finds the property violated without either exemption, so both are needed and
say what the confirmation does not promise. `SupervisionHolds` leaves out of what a stop clears the
orphans described in section 3, and TLC reaches them: a killed supervisor that had started a program and not
recorded it. `FeedImportIsSound` claims the facts an item was ranked by only if all of its rows
have a description or none has (`DescribedAlike`); TLC finds the
exemption needed, since the files of the run have an item of both kinds. In the same way
`ShopeeLimitsHold` names what the quota does not count, and `ImportsRepeatOnlyLate`, `OutcomesStand` and `FileImportedOnce` name the overrun or the
lapse that the fixed TTLs allow. `OutcomesStand` also names the outcome whose writer did not hear that
it was written, and `FileImportedOnce` counts the jobs that stand as succeeded, while `LedgerMatchesJobs` speaks of those
that committed, whatever they say. Attribution (in `ClicksAreCredited`) is claimed up to the limit of the
query, beyond which the code decides on what it sees. `DiscoveryFindsTheBest` exempts an
item that a user product and another highlight both lead to: there the kind found later gives
the place, not the better one; and it speaks of a tree that is not too large. `OperatorCookieStands`
exempts a save or a test that crosses another save: these write by id.

Five further runs show where the code does something else than the
documentation says; each stops at a counterexample:

| Run | Documentation | Code |
|---|---|---|
| `retry_refused` | `docs/whatsapp-groups.md:98`: after a not-delivered resolution a second action can "authorize one retry" | the click marker is never cleared and `validateAuthorizationMetadata` refuses every row that has it |
| `published_undone` | `docs/architecture.md:21`: "terminal items are preserved" | when finishing the attempt fails after finalize, the catch block finalizes the published row as uncertain |
| `stale_offer_sent` | `docs/shopee-production-pipeline.md:131-133`: the cancelled message is "never rewritten or sent" | the freshness check cancels under a claimed dispatcher, which sends all the same |
| `old_group` | `docs/whatsapp-groups.md:88`: an authorization is "bound to the exact Publication/channel/fingerprint" | the dispatcher uses the group it loaded before the lock and ignores the claim's fingerprint |
| `dry_run_restores` | `README.md:82`: "Authorization is single-use" | the dry run writes back the metadata it read before the browser run |

**Fairness.** `LiveSpec` of `WhatsAppDispatch` adds weak fairness of each dispatcher's own steps: a
live Node process goes on with its promise chain, and every await in it has a
timeout or an error path. Nothing is assumed of the operator, the worker or the
dashboard, and a dispatcher may also never start. A crash takes fairness away,
so `ClaimIsGivenBack` is checked without faults: after a crash, a claim before
the click stays until `release-dispatch-claim`, as `docs/operations.md:302`
describes.

`LiveSpec` of `PublicationWorker`: a live worker takes its next step (requests have
timeouts, and a failed call goes on or ends the component); it leaves after
being told to stop; a stopped or crashed worker is started again and gets a free
leader key (the supervisor); the components publication and retry are started again
and again (strong fairness: every tick at which they are due, and publication is not
paused); retry times pass; a key nobody owns expires (`PX`). No fairness is given
to faults, aborts, offers' expiry or the CLI. The run has one offer per channel: with
more, progress also rests on the oldest-first order of due rows, which the
model leaves arbitrary.

`ProgressSpec` of `MCProgress` repeats this for the pipeline; for the schedule, each
worker's tick and the manual command take their next step (`WF` of each `DiscoveryStep`: a
timer, and calls with timeouts), and time passes and leases end. A crash is an
action without fairness, after which the worker ticks again; this is what
`ScheduleGoesOn` needs. The components of `services` have no fairness and safety
properties only.

## 5. Proofs

Every theorem holds for any finite or infinite sets of groups, claims,
publications, workers, channels, offers, jobs, imports, files, clients and supervisors and any
bounds, under the named assumptions of the modules (`NullAssumption`, `NullFingerprint`,
`BoundsAssumption`, `FaultsAssumption`, `OwnersAssumption`, `LeaseAssumption`,
`PipelineAssumption`, `OfferAssumption`, `ImportAssumption`, `TokenAssumption`,
`MeliAssumption`, `ShopAssumption`, `DistributionAssumption`, `SupervisorAssumption`,
`LoopAssumption`, `ClickAssumption`, `AttributionAssumption`, `PageAssumption`,
`CatalogAssumption`, `BalanceAssumption`), which say that the absent values are no members of
the sets, that bounds, limits and ranks are numbers, and what functions the data of the files,
products and settings are. TLC evaluates them in the runs.

- `QueueTypeCorrect`, `DispatchTypeCorrect`: type correctness, with overlapping
  reads.
- `QueueMarkedIsSpent`, `QueueMarkedIsAccountedFor`, `QueueMarkerIsPermanent`:
  the invariant `QueueInv` says that no read is outstanding and that each row is
  *good*: a marked row is planned, holds no active or claimed authorization, and
  is uncertain, confirmed or decided. The properties are not inductive without
  the first part (planning an absent row would clear a marker) and without each
  other (a command that reopens a row must not find it marked). The proof goes
  through lemmas per group of commands ("a good row stays good and keeps its
  marker and claim"), then one step per action. `MarkedIsAccountedFor` is in no run;
  `SentIsAccountedFor` checks it together with the messages.
- `QueueClaimsOnlyWhileOpen`: `OpenInv` says that every authorization that is active
  carries the fingerprint of an open channel. It must say so of the rows still in hand
  (`stale`) too, since a command may write one of those back; a claim compares the
  fingerprint with the channel's current one, and a closed channel has another. So this
  theorem holds for any overlap of reads and writes. `QueueAuthorizationsAreSingleUse` takes
  from `QueueInv` that a row that is written is the row that is there.
- `NoDoubleSend`, `DeliveriesAreAccountedFor`: `DispatchInv` adds that a
  dispatcher past the load has a publication (`Assigned`), that a dispatcher at
  the click stands on a row marked under its own claim (`ClickIsMarked`), and
  that whoever sent a message did so under the claim of its marked row and has
  left the click for good (`SentIsMarked`). The argument: only a dispatcher at the
  click delivers; marker and claim never change once written; so a delivered
  publication names its one sender, and that sender cannot deliver again. Locks
  play no part in it: the property survives any number of lapsed locks and
  crashes.
- `StatusIsHonest`: to `DispatchInv` it adds what the marker and the operator's verdict
  say of each status (`TellsTruth`): a published row was sent or judged delivered; a marked row that is
  scheduled again was judged not delivered and released for a retry; and what a dispatcher saw on
  the screen was sent.
- `QueueImplementsSendOnce`: the initial states map to initial states, and each step to a step of
  `SendOnce` or a stutter. Most steps change at most one row and send nothing: they leave its answer, give the
  first one (the announcement, when by `DispatchInv` nothing of the row was sent yet) or change it. `Click`
  is the delivery: by `ClickIsMarked` and `SentIsMarked` nothing of this row was sent before, so that the number
  of its messages goes from 0 to 1. That this number is a natural number is a fact about finite sets,
  which the proof has to carry along.
- `OnlyOneUnresolved`, `OnlyOneUnresolvedWithoutFaults`: `LockInv` says that a dispatcher from the
  lock to its answer holds the channel lock, and that no row but its own is in doubt
  while it works. The first theorem has crashes and lost replies, and assumes of the steps that
  the lock leaves a live holder by release only and that no verdict keeps a delivery
  uncertain; the second has no faults and no such assumption about the lock.

- `LeaseOverlapNeedsTwoLapses`, `PipelineOverlapNeedsTwoLapses`: `LeaseInv` says that a
  process that leads, or runs a component, without owning the key has seen that key
  lapse (or Redis is not required). Two processes in one component cannot both own
  the two keys. It is proved for the locks with arbitrary components (`LeaseSpec`),
  and every step of the pipeline is a step of the locks or leaves them alone.
- `PipelineTypeCorrect`: types, together with `JobsMatch` (a job in hand belongs
  to the component the process runs, and has an item where its step needs one).
- `RepeatsAreCounted`, `AttemptsEnd`, `DeliveredStaysFinal`: the bounds are not
  inductive, because each write follows an older read. `ReadInv` adds what makes the
  reads still true (`ReadsHold`): a row in the list or in the hand of a delivering
  worker is scheduled or cancelled with the number of attempts that was read, a row
  to requeue has failed. The argument: while components exclude each other, one worker
  delivers and one requeues (`Solo`); planning writes absent rows only, delivery
  writes scheduled ones, retry failed ones; so no read is overtaken, and a row that
  left the hand with its message delivered but not final is paid for by a fault
  (`RowBounded`).
- `ChannelsWait`: `PaceInv` says that, while components exclude each other, the channels of the
  items a delivery still has are not waiting for a retry, and that it has one item per channel. Which
  channels wait was read once, so the second part is what makes the first survive a failure.
- `PublishedOfferStays`: `OfferInv` says that an offer which a plan in hand would write
  SCHEDULED is published nowhere. The plan read it before the text was written; no
  delivery of that offer can finish in between, since no row of it was scheduled.
- `PlansKeepTheLimit`: `PlanInv` says that the planned rows are finitely many and that, while no
  leader's lease has lapsed, the channel of a row about to be written is below its limit: one
  worker plans, and the other components add no row to the count.

- `NothingTwiceNothingLeft`: none of the three parts of `SupervisionHolds` is inductive. `SupervisorInv` says that
  a supervisor past the start owns the file lock (`LockInv`); that it holds each host in one
  place, and none in a place it is about to fill (`HeldInv`); `NothingHeldTwice` follows from these two, with any number of
  deaths. It says further that what a supervisor watches or stops is
  recorded if it is the registered one, and that it is registered while a stop waits for it (`FileInv`); and that, as long as
  nothing died by itself, a running program is held by a supervisor, or is in the
  record from which the stop that killed the supervisor now ends it while nobody is about to write another
  (`Left`), or is an orphan (`ChildInv`). The kill may come at any step: the programs it
  takes a supervisor from are recorded, or `Unrecorded`.
- `RotatedValuesStay`, `OperatorsCookieStays`: `MeliInv` says that no cookie has a value
  beyond the rotations issued, that requests are in flight only while a job generates links, and
  that a row read is the current one as long as the version it was read with is.
- `ImportsRepeatLate`, `RunOutcomesStand`: `ShopInv` says that a process whose TTL is not over owns
  the lock (so there is one at most), that its run is RUNNING (or has the outcome it is about to write over, unheard, in the catch) and is nobody else's to recover, and
  that the imports of its checksum that succeeded after its lookup were all late. A tick that
  takes the lock finds every earlier TTL over, and time does not go back. That the latest run is one of the runs
  (`LastInv`) is part of the invariant, since a maximum over data would otherwise need an induction.
- `ShopeeLimitsCorrect`: `DistInv` says how a row may look (`RowGood`: an assisted channel's row is
  never SCHEDULED or FAILED), what is still true of the row in each hand, although its read may be old
  (`InHand`), that while the cycle plans, what it counted in each zone keeps up with what is
  planned, up to what was planned for the other zones (`CountsKeepUp`), that what it distributed was planned at
  this cycle's time, or no later than the last it read (`LastIsLast`), and that these numbers allowed
  the pair in hand (`HandIsAllowed`). Only placing and activating make a row
  count, and both belong to the cycle; what the command, the forms and the deliveries write back
  leaves the count alone or lowers it.
- `PostingCorrect`: `PostInv` says of the errand under way what it may rely on at each of its steps
  (`GoodWith`): as long as nobody has touched the page, the page still shows the post's group and draft,
  and the chat still continues the baseline (`Continues`: a message keeps everything but a state that
  was not settled). Before the click no message is the errand's (`SendersKnown`), and the click sends what the page
  shows (`AllAsAsked`). What then confirms it is new or has changed: it is its own message, or one that
  another device sent, or a message of the baseline that was not yet SENT (`AllOurs`).
- `WorkerStatusCorrect`: `StatusInv` says of each loop (`LoopGood`) that its next heartbeat is an
  interval away at most, that a running component's timer goes off within as many intervals as
  components have run, and that a component that is not running is due no earlier than its cadence after
  its last start (`Spaced`), whatever components a tick passes over. Time cannot pass a timer
  that is due, because a loop wakes at the least of its times (`WakesForBeat`; that a
  set of numbers has a least one is `LeastNatural`). Each step of a worker is summed up in one relation (`Works`), from which the
  shared part follows: who is in its loop is alive now, a row that says ONLINE is no younger than
  that, and the last to say OFFLINE was the only one to lead (`LeaderIsAlone`).
- `ShopTypeCorrect`, `DistTypeCorrect`, `MeliTypeCorrect`, `SupervisorTypeCorrect`,
  `StatusTypeCorrect`, `PageTypeCorrect`, `CatalogTypeCorrect`, `BalanceTypeCorrect`: types of
  these components. `ServicesTypeOK`, which the run checks, is the conjunction of such types by the
  component a behaviour is about; that of `ShopeeFeed` is model-checked only.
- `DiscoveryCorrect`: `CatalogInv` says that every candidate is accounted for by the
  highlights that led to it (`Accounted`: its categories, its best place) and that no two have the
  same kind and id; and of a search under way (`SearchGood`) that what waits is ordered by its depth and no deeper than
  a step below the first, that every product looked at or waiting is that many steps below the root
  (`Down`), and that each has a depth (`Levels`) no greater than what waits, so
  that every child of an answered product was looked at or waits, no deeper than one step
  below it (`Awaited`). This is where breadth first counts: were a product
  reached by a long way first, its children would be cut off at the depth limit. When nothing
  waits, the shortest way to a product that was not looked at would have a first such
  product, which cannot be (`SearchIsComplete`). The order of the choice is strict and total
  (`BeforeIsOrder`, by where two tuples of weights first differ), so that finitely many winners have a first one
  (`SomeoneIsFirst`).
- `BalanceCorrect`: `BalanceInv` says that what each category gave is the beginning of its pool and
  its cursor stands behind it (`GaveItsBest`), that nothing was drawn twice (two pools share
  nothing, and a pool does not repeat: `OrderedIsAll`), and that the numbers are fair (`Fair`):
  nobody is above what the phase lets it give, a round in which nobody took anything yet has only passed
  over categories that have given all they may, and a category that may still give is behind another by
  what the other took in this round, or by a turn once the session is full (`Even`). Each
  of the three ways a turn goes (`TakingIsFair`, `PassingIsFair`) and each of the three ways a round
  ends (`AnotherRoundIsFair`, `MaximumBeginsFair`, `MinimumResult`, `MaximumResult`) is a lemma
  about these numbers alone, for any number of categories.

- `OfferTypeCorrect`: `VersionInv` adds to the types that a job has its product, its facts and
  only versions that exist (`GoodJob`); versions never go, and keep price and link
  (`VersionsStay`), which is why a number read earlier still names the same facts.
- `LookupCorrect`: `RowInv` says that a job between the upsert and the commit
  owns the product's row. `LookupHolds` alone is not inductive: without the row,
  another job's commit would move the last number. The insert that
  loses takes no lock, so it never gets there.
- `ReadyHasLinkCorrect`: `LinkInv` carries the link through the hands that
  can make a version sendable without looking: the planner's read, the rows that
  have a publication, and a job about to rewrite a version with its own facts
  (the version it found has its link, since the link is part of the fingerprint).
- `OneLinkCorrect`: `AdvisoryInv` says that a Shopee job inside the
  transaction owns the advisory lock and has the link in use, if there is
  one. Links generated before the lock may differ; what is read again under it decides.
- `HistoryIsKeptCorrect`: `HistoryInv` says that a version that is pending has no link, and that a job
  that found a version not historical saw no publication of it.
- `LedgerCorrect`: `LedgerInv` says of an open transaction which rows it has
  written and that none of them is recorded, and that two open transactions have no
  event in common (a unique key makes the second wait). A job that committed stays so (`Committed`),
  also where FAILED is written over it. Locks play no part in it.
- `FileImportedOnceCorrect`: `OnceInv` says that, as long as no lock has lapsed, an
  import owns its file's key up to its commit, and that no other import of
  the file stands as succeeded once it is past the lookup.
- `VisitsAreCountedOnce`: `VisitsCountOnce` is inductive together with the types. The table's unique key
  refuses a second click whatever Redis forgot; and a deduplication key is taken by the request
  that goes on to store, and forgotten no later than its failed insert is.
- `ConversionsAreCredited`: for any table the redirect route may leave. The query returns every click that answers a
  reference as long as they are no more than its limit (`AllAreCandidates`); the
  decision is of one of them, or of several (`UniqueIsExact`); and a click that is named answers
  the first method, so that no other is looked at. Attribution leaves the clicks alone.
- `TokenIsNotLostCorrect`: `GrantInv` says that no number is in use that Mercado Livre has not issued, so that
  a new grant is new to everybody; `LossInv` that,
  without a fault, whoever is past the lock owns it, that a grant about to be stored works, and
  that the operator's grant is in nobody else's hands, so that the last write is of a grant that works.

The safety theorems of the WhatsApp modules (not the type theorems nor
`QueueClaimsOnlyWhileOpen`) assume `MaxReads = 0`: no command
acts on a row that another command has written since. This is an assumption
about how the tools are used, since the code does not enforce it, and
`dry_run_restores` shows what happens without it. It is stated in each theorem.

Only model-checked: `FeedImportIsSound`, which compares what an algorithm computes over a
feed's rows with a reference definition, and is written with a recursive operator, which the proof
system does not take. `ClaimIsGivenBack`, `EveryPublicationSettles` and `ScheduleGoesOn` are liveness and out of the proof system's reach.

## 6. Not modelled

`PROJECT.json` lists every component with its status. Most of the repository's
lines are not in the map, for these reasons:

- The dashboard's pages (about 14,000 lines of TSX) render what they read. The
  actions behind the forms that race with something are in the models.
- `whatsapp-web-page-adapter.ts` and most of `whatsapp-web-publisher.ts` are selectors,
  layout heuristics, diagnostics and screenshots. `WhatsAppPage` has what the
  steps decide by and what they do to the page; that a selector finds the right element
  is a free choice there, and is what a test with a browser is for.
- Parsing in the marketplace connectors, the probes of the diagnosis commands, and
  the weights of the ranking, which are floating point numbers.
- Reports, health checks, metrics, the command lines' parsing and output, and
  `packages/operations` (burn-in: a file written by one command at a time).
- Copywriting, scoring, validation and shared: pure functions over text and
  floating point numbers, whose result the models leave free where it decides.
- The import job of a batch of links: a worker takes it from QUEUED
  without a claim, so two processes may both process its rows; the rows are jobs of
  `OfferVersions` and may cross in any way there, the job's counters are not modelled.
- `worker --once`, `PENDING_ATTENTION` of the Mercado Livre session.

To repeat a check: `tlc -config queue_contract.cfg MCWhatsAppQueue`,
`tlc -config dispatch_faults.cfg MCWhatsAppDispatch`,
`tlc -config worker_pipeline.cfg MCPublicationWorker`,
`tlc -config worker_progress.cfg MCProgress`, `tlc -config services.cfg MCServices`,
`tlapm WhatsAppDispatchProofs.tla`, `tlapm PublicationWorkerProofs.tla`,
`tlapm OfferVersionsProofs.tla`, `tlapm TrackingProofs.tla`, `tlapm MeliProofs.tla`,
`tlapm ShopeeProofs.tla`, `tlapm SupervisorProofs.tla`.
