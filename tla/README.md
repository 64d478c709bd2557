# Formal model of hedge-desk

TLA+ modules of the stateful core of the repository, TLC runs over small
instances, and TLAPS proofs for every value of the constants. Paths are
relative to `src/`.

The paper-trade lifecycle, the membership roster with its audit trail and the
broker link are modelled in full detail, every file write or REST call a step of
its own, and proved about. The other stateful components (journal, scheduled
runs, market context refresh, sign-in, caches, console, quote feed, batches,
reports) and the deciding rules (option trade, gates, research desks) have one
module each and are checked together in the run `Desk`. Every safety property
that a passing run checks is proved too; the one liveness property is only
model-checked. Section 7 says what is left out and why.

## 1. The system

hedge-desk is a research desk for defined-risk option trades on paper. No order
is ever sent; the machine proposes, a human approves, the runner tracks the
position, the settler records what happened. Around it are a web console with
members and an audit trail, a broker link for market data, scheduled runs and
many pure computations over market data.

| Component | State it keeps | Operations | Interaction | What makes it hard |
|---|---|---|---|---|
| Paper workflow (`paper/workflow.py`) | none: immutable plan, open and close records under a plan hash | create, approve, reject, fill check, open, close, lifecycle action | called by review, runner, settler | boundaries of windows and dates; the plan hash binds every record |
| Lifecycle runner (`paper/runner.py`) | `state.json`, `escalations.json`, `closes/<id>.json` | tick, close, list escalations | reads plan files; calls the lifecycle provider | files rewritten whole, no lock, several writes per command, crashes between them |
| Review queue (`paper/review.py`) | `plans/<id>.json` | submit, approve, reject | the human's decision gates the runner | decision on a plan loaded earlier |
| Settler, outcome log (`paper/settler.py`, `paper_log.py`) | append-only JSON lines | observe, record once | reads state, plans, closes and market data | check, count and append are apart; partial lines |
| Membership roster (`membership.py`, `supabase_membership.py`) | rows of members: role, expiry, seat, fees; sign-in codes; sessions | sign in, subscribe, invite, promote, ensure GP | HTTP handlers on several threads | each Supabase operation is several REST calls; LP cap; roles must not fall |
| Membership audit trail (`membership_audit.py`) | hash-chained rows | record, verify | appended by the handlers after the roster | last row read before the insert |
| Auth and console HTTP (`auth_app.py`, `server.py`, `web_app.py`) | caches, cookies | routes | calls all stores | order of calls in a handler, partial failure |
| Rate limits (`rate_limit.py`) | bounded map of keys to instants | allow, remaining, prune | sign-in handlers | limit of the map, sliding window |
| Broker link, Schwab tokens (`broker_link.py`, `brokers/*`) | encrypted token bundle | link, refresh, persist, unlink, legacy upgrade | market data calls | rotating refresh token, concurrent refresh and relink |
| Evidence chain, journal (`audit.py`, `audit_store.py`) | JSON lines, hash-chained | append, read, verify | reports and reviews | partial last line, two writers |
| Scheduled runs (`scheduler.py`, `operational_health.py`) | receipts | run, suppress duplicate, recover | job runner | retries under one idempotency key |
| Market context service (`market_context_service.py`) | snapshot, refreshing flag | get, background refresh, load | console requests | single flight, stale or failed load |
| Response cache (`server.py`) | values with deadlines | answer, build | console requests | built outside the lock; the later build wins |
| Options engine (`options/*`) | none, over a chain, a calendar and the previous entry | scan, price, session and event gates, cadence, exit monitor | feeds the workflow | two modules judge the same dates; executable sides |
| Gates, back office, stress (`core/decision.py`, `backoffice/*`, `execution_gate.py`, ...) | none; the book is the caller's | decide, bind, freeze | plan creation | decisions on a book that changes before the open |
| Data feeds (`data/*`, `rates_desk.py`, `eod_ingest.py`) | one cache file per window, batch manifests | fetch, fall back, cache, validate | batches, console, context | shared temporary names, partial answers, altered manifests |
| Quote feed (`brokers/schwab_market_data.py`, `schwab_core_data.py`, `live_desk_data.py`) | call window, quote cache | pace, fetch, corroborate | routes and the console report | one window for all threads, several batches per read |
| Nightly batch (`nightly.py`, `yellow_sheet.py`, `am_demo.py`, `scripts/*`) | dated and latest report, page, yellow sheets | build, publish, render, record a decision | scheduler, the GP | several writes, a decision on a report read earlier |
| Morning report (`reporting.py`, desks' layers) | stored JSON reports | build, validate, show, compare | reader, later commits | edited and resealed sections, deploys in between |
| Research desks (`earnings.py`, `arbitrage.py`, `dividends.py`, `futures_events.py`, `news.py`, `earnings_experiment.py`) | evidence and plans of the caller | rank, replay, score | reports | look-ahead, restated evidence |
| Model governance, web and iOS clients | none the desk relies on | validate a record; show documents | | section 7 |

What makes each correct:

* **paper**: no position without an approval in its window, on fresh quotes,
  under the same plan; a tick never closes; a close is human, once and final;
  escalations are not lost and reach the manifest; every logged outcome is
  justified, agrees with the recorded close and is recorded once;
* **membership**: roles never fall, LP seats stay within the cap, the audit
  trail verifies and says only what is true; the Supabase store behaves as the
  SQLite one;
* **broker link**: overlapping refreshes do not lose the refresh token that
  works; a removed link does not come back; a token is stored before it is used
  and is dated once;
* **journal**: what was acknowledged is read back, in order, unaltered;
* **scheduler**: a key runs once, a recovery is accepted once;
* **market context**: one refresh at a time, a failed one does not end all, and
  what is shown never gets worse;
* **sign-in**: a mailed code works, is spent once, and the limiters hold in any
  window;
* **caches and quotes**: nothing is served older than its promise, nothing that
  was not answered; the pace of calls holds over all threads;
* **trades and gates**: the result stays inside what the trade was entered on;
  the book stays inside its limits; any breach freezes new risk;
* **console**: nobody is answered more than the role they had earned;
* **batches and reports**: READY means complete, what is published is of one
  build and in order, a decision stays bound to the report it was read in;
* **research**: a decision replayed for its own time uses only what was known
  and keeps the order.

## 2. Modules

| Module | Contents |
|---|---|
| `PaperWorkflow` | the rules of a paper trade as pure operators, over `Terms[h]`, the material fields a plan hash determines |
| `PaperLifecycle` | the four commands (decide, tick, close, settle) as processes over the shared files; properties |
| `PaperPosition` | abstract specification of a position: approved, tracked, opened, closed by a human |
| `PaperRefinement` | refinement mapping from `PaperLifecycle` to `PaperPosition` |
| `MCPaperLifecycle` | plans, provider reports and symmetry for TLC |
| `PaperLifecycleProofs` | what holds of overlapping commands: `TypeCorrect`, `PositionsAuthorized`, `OutcomesJustified`, `RepeatsAreBounded`, `LogIsKept`, `SettledOnceApart` |
| `PaperSerialProofs` | what holds of commands one at a time, with the refinement of `PaperPosition` |
| `MembershipStore` | the SQLite roster: one lock, one step per operation |
| `SupabaseRoster` | the Supabase roster and audit trail: one step per REST call, any number of threads |
| `SupabaseRosterProofs` | `TypeCorrect`, `TrailIsSound` (of `TrailVerifies` and `TrailTruth`), `RolesKept`, `CapHolds`, `StoreImplemented` |
| `BrokerTokens` | the GP's broker link on either store, the token manager and the market data requests; the broker's side of each grant |
| `MCAccounts` | the instances of `SupabaseRoster` and `BrokerTokens`, one of the two per behaviour, with their symmetry |
| `BrokerTokensProofs` | `TypeCorrect`, `AgesKept`, `RemovedStays`, `LockedUses`, `TokenKept` |
| `AuditJournal` | the evidence chain and its journal file: creation, check, append, cut writes, overlapping writers |
| `ScheduledRuns` | executions over a ledger of sealed receipts that may be altered; the health verdict |
| `MarketContext` | background refresh, its one stored row, failures, restarts |
| `RateLimiter` | the three sliding windows with bounded maps |
| `SignIn`, `MCSignIn` | code request and verification on either store, composed with `RateLimiter` by EXTENDS; the limits of its instances |
| `ResponseCache` | `_cached`: hits, misses built outside the lock |
| `PremiumTrade` | one premium position after another, from chain to end, with the cadence gate asked beside |
| `RiskBook` | Back Office and risk decisions, plan binding, the book |
| `StressReport` | the scenario walk, the metrics walk, the breaker |
| `EodBatch` | worker pool with fallback source, the batch manifest and its reader |
| `Console` | signed-in requests: sessions, roles, consent, link, what each route answers |
| `QuoteFeed` | pacing window, quote cache, the console report that fetches twice |
| `SeriesCache` | the cache files of a series, shared temporary names, dying callers |
| `SourceFeeds` | what each adapter accepts, the context built of them, the probe |
| `NightlyReport`, `MCNightly` | the batch with its publication steps, the page, the GP's decisions; the evenings of its instances |
| `MorningReport` | a report through edits, reseals and deploys to its reader |
| `ResearchDesks` | the ranked universes, their replay, the earnings experiment |
| `MCDesk` | the instance of the sixteen parts (`SignIn` with `RateLimiter`), one per behaviour |
| `ServicesProofs` | proofs for the services of the process: `ScheduledRuns`, `MarketContext`, `ResponseCache`, `RateLimiter`, `SignIn` and `Console` |
| `RiskProofs` | proofs for `StressReport`, `RiskBook`, `EodBatch` and `PremiumTrade` |
| `DataProofs` | proofs for `AuditJournal`, `SeriesCache`, `QuoteFeed` and `SourceFeeds` |
| `ReportProofs` | proofs for `MorningReport`, `NightlyReport` and `ResearchDesks` |

### Paper lifecycle

Correspondence of state:

| TLA+ | Code |
|---|---|
| `planFile[p]` | `plans/<p>.json`: hash and human authorization; replaced atomically (`os.replace`, review.py:212) |
| `state[p]` | entry of `p` in `state.json` (runner.py:149-189); a missing file is the state with every entry `ABSENT` |
| `manifest[p]` | `escalations.json` (runner.py:503-522) |
| `closes[p]` | `closes/<p>.json` |
| `log` | the outcome log (paper_log.py:76-132) |
| `torn` | which of those files does not parse: `Path.write_text` truncates before it writes, an append may be cut |
| `proc[q]` | a command: its next step, its `now`, what it has read so far |
| `issued`, `decisions`, `closings` | history: plans written, decisions written, close artifacts written |

A command is started by `DecideStart`, `TickStart`, `CloseStart` or
`SettleStart`; its later steps are one file operation each. With `Serialized`
the operator and the scheduler start a command when no other runs; without it
commands overlap. `Crash` ends a command anywhere, with a partial log line
possible if it was appending. Guards are those of the workflow:
`CanApprove`/`CanReject` for the decision, `FillReady` and `CanExecuteOpen` for
the open, `CanClose` for the close, `LifecycleAction` for the tick of an open
position, `SettlableOutcomes` for the settler.

Abstractions: prices, sizes, costs and the premium-exit arithmetic are the
Boolean `marketMeetsTerms`, the sign of the profit and the choice of
`CloseRefused`; the hash of a plan is a model value that determines its
`Terms`; escalations are a set of (action, instant). Of the refusals of
`create_paper_trade_plan` only that of a closed approval window is kept
(`CanCreate`): its other checks are of records the plan binds and are in
`PremiumTrade` and `RiskBook`; a plan may carry quotes that lie ahead of the
`now` of a later command, which `execute_paper_open` refuses. `now` is the clock when the
command starts (the CLI default; `--now` and `--decided-at` are not modelled).
The listing of plan files and the read of the state at the start of a tick are
one step, and the order in which a tick visits plans is left open. Error
branches no command can reach are left out: `PLAN_FILE_LOAD_FAILED` and
`UNKNOWN_PLAN_STATUS` need a plan file that was edited by hand (plan files are
replaced atomically), `OPEN_PLAN_HASH_MISMATCH` and `OPEN_RECORD_CORRUPT` an
entry whose open record disagrees with its hash (`EntryAuthorized`, proved,
excludes it), `UNKNOWN_LIFECYCLE_ACTION` an action the workflow does not
produce. Repair of a torn file by hand is outside the code and outside the
model. `scripts/record_paper_decision.py`, a second entry to `decide`, and the
export of review text are not modelled.

### Membership roster and audit trail

| TLA+ | Code |
|---|---|
| `role[e]` | `members.role` of the row with email `e`, `ABSENT` without a row |
| `trail` | rows of `membership_events`; `Digest` stands for `entry_hash` |
| `thread[t]` | a request on a thread of the server: next REST call, what it has read |
| `Abandon` | `_call` raises (status >= 400, timeout), or the server stops: the request ends |

Requests: `SignIn` (code request and social login), `Subscribe`, `GiveSeat`
(`issue_lp_invite`, which the GP's request reaches, and `promote_to_lp`, which
has no caller in the application), `StartUp` (`ensure_gp` while the server being
replaced still serves) and `LinkBroker` (of which the audit row alone matters
here). `PostGuest`, `PostGp` and `PostTrail` are plain inserts that fail on an
existing key; `PostLp` merges into an existing row; `PatchSubscribed` applies to
a row that is still `GUEST`; the other patches apply to any row.

`MembershipStore` is the same roster under one lock. The Supabase docstring
claims the semantics of the SQLite store, and `ImplementsStore` states it.

Abstractions: of a row only the role is kept. Sign-in codes and the expiry of
guest access are in `SignIn`, sessions in `Console`; fees and invite tokens are
not modelled. The branch of
`set_subscribed` for an address without a row is left out: the handler demands
a session of that address, and a session is made after its row. A call that the
database applies after the client has given up is not modelled. The two stores
differ in columns the model does not keep: an invitation resets `created_at` and
`subscribed` of an existing row in Supabase and not in SQLite.

### Broker link and Schwab tokens

| TLA+ | Code |
|---|---|
| `backend` | the store `default_broker_store` chose: SQLite under a lock, or Supabase by REST calls |
| `row` | the row of `broker_links` of the GP: grant, refresh and access token, date of issue and revision of the decrypted bundle |
| `grant[g]` | external: the refresh token of consent `g` that the broker accepts, and whether it rotates |
| `issued` | external: the number of the last token issued; tokens are numbered in that order |
| `serving[t]` | a request on a thread of the server: next step, the bundle it holds, whether it is the forced retry, `now` |
| `persisted`, `lost` | history: access tokens that have been stored; refresh tokens a request gave up before storing them |

`ExchangeCode` and `PostLink` are `complete_broker_link`; `Unlink` the unlink
route. A market data request is `StartRequest`, the read of the bundle
(`ReadLegacy`, `ReadUnusable`, `ReadUsable`: `token_state` and the decision of
`access_token`), `Refresh` or `RefreshRefused` at the broker, `GetPersist` and
`PatchPersist` (`persist_schwab_tokens`), `Reread` and `CallApi`, which starts
over once with `forced` when the broker answers 401. On SQLite a call of the
store is one step; on Supabase the read and the patch are two. A patch of a
row that has gone matches nothing and succeeds.

The broker is external, and strict: a grant has one refresh token that works,
and if it rotates a refresh replaces it. The code allows for both kinds (an
answer with and without a refresh token), and each grant is of either.

Abstractions: expiry of access tokens is left open (a read may find any access
token good or not). The check of `connection` before the read is subsumed by the
read, which finds the same row or none. Scopes, labels and the encryption are
left out; the instant of the age check is that of the read. Bundles of earlier
code are those the revisions in `_decode_token_bundle` name, none of which has
`updated_at`; an old envelope around a bundle of the current revision, which
line 180 would accept, is written by nothing in the repository.
`select_schwab_account` has no caller in the application. The one-time state that
guards a consent is in `Console` and, with the codes it is kept among, in
`SignIn`. A call that the database applies after the client has given up is not
modelled.

### The parts of the desk

Each module below extends nothing of another but `RateLimiter`: in the code the
components share no file, table or variable, so that their joint behaviour is
the interleaving of independent ones, and what any one may do is what it does
alone. Where components do share state (roster and trail, link and tokens,
journal and writers, limiter and sign-in) they are in one module.

| Module | State in TLA+ | State in the code |
|---|---|---|
| `AuditJournal` | `exists`, `lines`, `tail`; `step[w]`, `batch[w]` | the journal file, its terminated lines and what follows the last newline; a writer between check and write |
| `ScheduledRuns` | `receipts`, each with `fields` and `seal`; `ran` (history) | the ledger handed from run to run; the seal is `receipt_sha256` |
| `MarketContext` | `snapshot`, `builtAt`, `refreshing`, `storeChecked`; `stored`; `refresher[t]` | the module globals; the row `latest`; `_refresh` between two uses of the lock |
| `RateLimiter`, `SignIn` | `events[l]`; `codes`, `guest`, `handler[h]` | `_events`; the `otps` rows, `guest_expires_at`, a request |
| `ResponseCache` | `entry`, `request[r]` | an entry of `_cache`, a thread in `_cached` |
| `PremiumTrade` | `chain`, `announced`, `entries`, `trade` | the snapshot, the corporate calendar, the entries made, one trade under the exit policy; the market's settlement at expiration is external |
| `RiskBook` | `backed`, `decided`, `approved`, `book` | the decisions with the hash of the positions they saw, approved plans, open positions |
| `StressReport` | `report`, `series`, `breaker` | the loops of `portfolio_stress` and `evaluate_pnl_series`, the circuit breaker |
| `EodBatch` | `fetch[s]`, `manifest`, `paper` | the futures of the pool, the manifest, its serialized form |
| `Console` | `role`, `session`, `consents`, `linked`, `visit[v]`; `redeemed` external | members, sessions, `otps` of purpose `broker_state`, `broker_links`, a request |
| `QuoteFeed` | `rateWindow`, `quoteCache`, `reader[r]` | `_RATE_WINDOW`, `_quote_cache`, a thread: the time it took before the lock is `since` |
| `SeriesCache` | `files`, `names`, `caller[c]`; `observed` external | inodes, the cache and temporary name of a window, a caller |
| `SourceFeeds` | `task`, `tally`, `context`, `mark` | the adapter being read, the counts and status of `build_market_context`, the probe's answer |
| `NightlyReport` | `night`, `dated`, `latest`, `page`, `sheet`, `vault` | the batch, `am-report-<date>.json`, `am-report-latest.json`, `am-demo.html`, a decision in the making, `yellow-sheets.jsonl` |
| `MorningReport` | `deployed`, `reports`, `shown` | the commit, stored JSON with its seal, what was last shown |
| `ResearchDesks` | `evidence`, `decisions`, `replayed`, `plans`, `outcomes` | the records handed to a desk, its result, plans and outcomes |

Abstractions worth knowing. Hashes are the content they digest (a seal is a copy
of the fields), which makes collisions impossible and edits visible exactly
where the code compares. Prices, probabilities and ratios are small integers or
fractions (`PremiumTrade` keeps a break-even per lot so that nothing is
divided). Providers are external: an adapter's answer is the rows it keeps, its
failure any of the exceptions it lets out. The reasons a rule returns are kept by
name; their order and wording are not. The cadence gate is asked by the
overnight run and binds no entry (`build_reference_plan` does not call it), so
`EnterTrade` makes entries against it too, and while a position is held. A
history variable (`served`, `spent`, `unearned`, `hit`, `unheard`, ...) records what a property speaks of and
guards nothing.

## 3. Runs

| Run | Instance | What it shows |
|---|---|---|
| `PaperSerialized` | 1 identity issued up to four times, 1 command at a time, crashes, 3 days | every open was past machine risk, compliance, approval window and quote age of its own plan, under its own approval; what the files say of each other survives crashes, retries and reissues |
| `PaperReissued` | 2 identities, one issued twice, a provider that raises, 1 command at a time, crashes | the files implement `PaperPosition`; closes and escalations are kept |
| `PaperConcurrent` | 1 plan, 2 overlapping commands, crashes | logged outcomes stay justified; overlapping settlements repeat a line at most once per process |
| `PaperLiveness` | 1 plan, failing provider possible, fairness, no crashes | a position open at expiration reaches a human through the manifest |
| `Accounts` | one of two parts, 2 threads, calls cut off. Roster: GP and 2 addresses, 1 seat, 2 audit rows. Broker link: 2 grants, 4 issues of tokens, either store | the Supabase roster implements the locked one, within the cap; roles never fall; the trail verifies and is true. No refresh token is lost to an overlap; a removed link stays removed; tokens are dated once; on SQLite a token is stored before it is used |
| `FindClosedStaysClosed` | a tick and a close that overlap | the tick writes the closed position back as OPEN (runner.py:338 against the docstring at 255) |
| `FindDecisionFinal` | two overlapping decisions | both succeed (review.py:117 against the docstring at 114) |
| `FindOutcomeRecordedOnce` | two overlapping settlements | the same outcome twice (settler.py:201 against the docstring at 25) |
| `FindLpCap` | two invitations at a time | the cap is exceeded (supabase_membership.py:311 against membership.py:8) |
| `Desk` | 16 parts, one per behaviour, see below | the components that share no state keep their promises |
| `FindCodeSingleUse` | two verifications at a time, either store | on Supabase one code is accepted twice (supabase_membership.py:366 against membership.py:338, auth_app.py:587) |
| `FindOkIsHealthy` | evenings of two symbols and two companies | the quality is OK with a symbol's bar a day old and a company BLOCKED (data_quality.py:129, freshness.py:43 against data_quality.py:10-12, 168 and freshness.py:4-6) |

The `Find` runs are expected violations: each checks one property that a
docstring or comment states and shows the steps by which the code does
otherwise. All but the last need commands or requests that overlap; the code
takes no lock against it, and the runs with `Serialized`, with `GpSerial` or of
the locked store show that the property holds without overlap. The last needs
none: one verdict stands for many symbols.

The run `Desk` asks one question of each part:

| Part | Property | What it shows |
|---|---|---|
| `AuditJournal` | `JournalSound` | a read that succeeds tells everything acknowledged, in place; it fails only after a cut write or overlapping appends |
| `ScheduledRuns` | `KeyRunsOnce` | one build per key, no recovery of a success, no COMPLETE that was not published, whatever was altered |
| `MarketContext` | `SingleFlight`, `SnapshotNeverWorse` | one refresh at a time; what is shown only moves forward until a restart |
| `RateLimiter` | `WindowRespected` | `Limit + 1` calls let through span a window, across pruning, eviction and refusals; the map is bounded |
| `SignIn` | `CodesSound` | an unexpired code is among those examined; once spent it is refused to whoever begins later; on SQLite it is spent once |
| `ResponseCache` | `ServedAgeBounded` | age served < TTL + one build, although an older value may replace a newer one |
| `PremiumTrade` | `TradeKept` | the result agrees with the maximum loss and break-even of the entry; no known earnings date under monitoring; what the cadence gate admits by the last entry is spaced from all of them |
| `RiskBook` | `FreshBookWithinLimits` | positions opened against the book they were evaluated for stay inside the limits |
| `StressReport` | `FreezesOnAnyBreach` | the metrics walk and the report's labels agree, also on breaches recovered from |
| `EodBatch` | `ReadyIsComplete` | READY means every symbol answered inside the cutoff, for any finish order, and after a change of the stored status, of a required source, of a row or of a row's status |
| `Console` | `ConsoleSound` | links on a consent of one's own; no answer beyond the role read |
| `QuoteFeed` | `QuotesKept` | pace over all threads; no hit older than the cache allows at the time its caller asked |
| `SeriesCache` | `SeriesKept` | no caller is given what the provider never answered, nor less than the window began with |
| `SourceFeeds` | `ContextHonest` | LIVE, DEGRADED and BLOCKED mean what they say |
| `NightlyReport` | `NightlyTrue` | fits and feeds are true of the evening; the quality is OK or STALE exactly when no watched section failed as a whole, and which by the youngest bar; publication in order; decisions bound to the report read |
| `MorningReport` | `PublishableIsWhole` | a shown report is of one build, counts right, and authorizes nothing, after edits, reseals and deploys |
| `ResearchDesks` | `ResearchKept` | a replay ranks only what was known, in the order it had; no two-way arbitrage; outcomes credited to the arm drawn |

Bounds and why they suffice. Days are instants (`DayLength = 1`), so that
windows and dates can each be met, just missed and passed within `MaxClock`.
In `PaperSerialized` so can the quote age: of its four plans machine risk rejects
one, compliance blocks one, one has quotes of instant 0 and an age of 1 in a
window to 2, and one has quotes of instant 1 and an age of 2 in a window to 1, over
clocks 0 to 2, so that each gate alone keeps some open out, quotes that lie ahead
included. Its closes are gains and its settlements see an unknown or a worthless
expiration, which may alternate; losses are in `PaperLiveness` and the theorems.
A second identity matters only through the shared state file: `PaperReissued`
has two, one of them issued again, with clocks 0
and 1. Two processes suffice for
read-then-write races. One LP seat and three addresses make the cap bite;
`MaxTrail = 2` lets an append meet an append twice. In the broker runs two
grants are a link and a relink, four issues are two consents and two refreshes,
or one consent and three refreshes, and with `MaxAge = MaxClock = 2` a token is
young, just old enough and too old. Symmetry is over processes, threads, grants
and addresses no rule distinguishes, and never in a run with a liveness
property. `CHECK_DEADLOCK FALSE` in the paper runs: time and plans are bounded,
and a torn state file does stop every command; in `Desk` every part's history is
bounded and several parts end (a batch, a stress report).

In `Desk` a behaviour picks a part in its first state and takes steps of that
part only; the other parts' variables keep the value of their initialization.
Interleaving independent parts would multiply their states and add no behaviour
of any one of them. `Accounts` does the same with the roster and the broker link. `VIEW PartView` keeps, of a state, the variables of its part,
all others being functions of it, and counts the threads in each activity
instead of naming them where no property names one (sign-in, console, series
cache), as it does the client addresses at the sign-in limiter: two states with
one view differ in constants of the part or by a permutation of threads or of
addresses, and every invariant and step treats those alike. The
run therefore uses no `SYMMETRY`. The bounds are set so that each hazard occurs:
two writers or threads wherever one may overtake another; one cut write, one
edit of a stored artifact, one restart; a clock that passes each window, expiry
and time to live once and leaves one instant more; limiter maps of one key for
two addresses, so that every call evicts; a book of three candidates where two
already fill a limit; two or three symbols and sources, one of which fails; two
nights, each any of seven evenings; a few commits whose fixtures differ. `HistoryYears` is 2 instead of ten: the rules ask for a
consecutive history of exactly that length and average over it.

Fairness (`FairSpec`, run `PaperLiveness`): a running command takes its next
step (weak fairness: the operating system schedules it), ticks are started again
and again whenever a process is free (strong fairness: the scheduler's 15-minute
cadence against other commands that come and go), time passes. Nothing is owed
by humans or settlements. Crashes are off: a command that may die at every tick
promises nothing.

Every property has a mutant: a definition, named in `PROJECT.json`, replaced by
a plausible fault (the operators under "Seeded fault" in the modules), with
which TLC finds the property violated.

## 4. Theorems

Proved by TLAPS for any plans, terms, processes, threads, addresses, keys,
symbols and bounds that satisfy the named assumption of the module
(`TermsAssumption`, `NoneAssumption`, `DayAssumption`, `LifecycleAssumption`,
`SupabaseAssumption`, `BrokerAssumption`, and one per part of the desk).
They say that constants have their types, that `None` and `Genesis` are no hash,
that the sets of addresses, client keys and command processes are finite, that the operator is one
of the addresses, and that a code's time to live is positive; the code's
defaults satisfy each, and TLC evaluates them in the runs.

The paper lifecycle, in `PaperLifecycleProofs` for any number of overlapping
commands cut off anywhere, and in `PaperSerialProofs` for commands one at a
time, still cut off anywhere (`Serialized`):

| Theorem | States | Along |
|---|---|---|
| `TypeCorrect` | `Spec => []TypeOK` | `TypeInv`: `TypeOK` with what each step of a process may hold in memory (`MemoryOK`): the type of the files depends on what is about to be written |
| `PositionsAuthorized` | `Spec => []OpenAuthorized` | `AuthInv`: plan files marked APPROVED rest on a recorded decision; so does what a process holds of a plan or of the state, and what a decision is about to write |
| `OutcomesJustified` | `Spec => []OutcomeJustified` | `OutcomeInv`: close artifacts are recorded closings, and the outcome a settler carries is justified already when derived; justification is monotone in the history |
| `RepeatsAreBounded` | `Spec => []RepeatsBounded` | `RepeatInv`: once a line is in the log, its copies and the settlers that are about to append one more (`Pending`) are together at most as many as the processes: a settler that checks the log later finds the line. Every other command leaves the log alone (`StepsOfLog`) |
| `LogIsKept` | `Spec => []LogKept` | the two above |
| `SettledOnceApart` | `Spec /\ []SettlersApart =>` `[](OutcomeRecordedOnce /\ LogNumbered)` | `ApartInv`: what one settler found of the log is true until it has appended. So what `FindOutcomeRecordedOnce` shows is an overlap of two settlements and of nothing else: a lock around check and append would remove it |
| `FilesTellOneHistory`, `OpensRestOnApprovals`, `DecidedOnce`, `SettledOnce` | `Serialized /\ Spec =>` `[]HistoryConsistent`, `[]OpensKept`, `[]DecisionFinal`, `[]OutcomeRecordedOnce` | `SerialInv`: the memory of the one command that runs (`CommandSound`) agrees, at each of its steps, with the files as they are now, and the files with each other (`FilesSound`): an entry of the state with the approval and the close artifact it rests on, the log with its own numbers |
| `ClosesAreFinal`, `EscalationsWait`, `ClosesOpenPositions` | `Serialized /\ Spec =>` `ClosedStaysClosed`, `EscalationsKept`, `CloseOnlyWhenOpen` | what a tick is about to write keeps each closed entry and each escalation of the state it read (`Keeps`, `Ticked`), which by `SerialInv` is the state there is |
| `PositionImplemented` | `Serialized /\ Spec => ImplementsPosition` | each step of a command is an operation of `PaperPosition` or changes nothing it sees; which one is read off `CommandSound` |

The membership roster and its trail, in `SupabaseRosterProofs`, for any number
of threads cut off anywhere; the last two with the GP's requests one at a time
(`GpSerial`):

| Theorem | States | Along |
|---|---|---|
| `TypeCorrect` | `Spec => []TypeOK` | `TrailInv`, below: the number of a new row is a natural because the last row exists |
| `TrailVerifies` | `Spec => []ChainIntact`, half of `TrailSound` | `TrailInv`: rows are numbered 1..n, one row each, and a row written or about to be carries the number and the hash following some row; a number found free is then n + 1 |
| `RolesKept` | `Spec => RoleNeverLowered` | every write of a role is an insert, a guarded GUEST to MEMBER, or LP or GP (`RoleWrites`) |
| `TrailTruth`, `TrailIsSound` | `Spec => []TrailTruthful`, and with it `[]TrailSound` | `TruthInv`: what a thread is about to report is true already, and roles do not fall out of what an event proves |
| `CapHolds` | `GpSerial /\ Spec => []LpCapRespected` | `SeatInv`: one thread gives seats at a time, so that what it counted stays true until it has written; other writes only free seats |
| `StoreImplemented` | `GpSerial /\ Spec => ImplementsStore` | each call is an operation of `MembershipStore` or changes no role; the second write of a seat stutters, or finds room, by `SeatInv` |

The broker link, in `BrokerTokensProofs`, for any number of threads cut off
anywhere:

| Theorem | States | Along |
|---|---|---|
| `TypeCorrect` | `BrokerSpec => []BrokerTypeOK` | inductive as it stands: a thread past its read holds a complete bundle |
| `AgesKept` | `BrokerSpec => AgeNotRenewed` | `AgeInv`: bundles with the same refresh token have the same date; every bundle after a step has the tokens of one before it or the token just issued (`BundlesInherited`) |
| `RemovedStays` | `BrokerSpec => UnlinkKept` | each write of the row but a link needs the row |
| `LockedUses` | `BrokerSpec => []LockedUsesPersisted` | `LockedInv`: on SQLite a thread past its update holds a stored token |
| `TokenKept` | `BrokerSpec => []LiveTokenKept` | `RotationInv`: a thread that was just issued tokens has the one that works, and if the grant rotates nobody else has it (`Borne`); if it does not, everyone has it (`FixedShared`); legacy bundles are of grants that do not rotate |

The parts of the desk:

| Theorem | States | Along |
|---|---|---|
| `ServicesProofs!KeyRunsOnceTheorem` | `SchedulerSpec => [](SchedulerTypeOK /\ KeyRunsOnce)` | `SchedulerIInv`: every build left a sealed receipt that counts, a publishable one a COMPLETE one (`BuildsSealed`), and what was recovered has a receipt and was not published (`RecoveredSealed`); alterations change no seal, and a branch that builds has seen a ledger whose fields equal its seals |
| `ServicesProofs!SingleFlightTheorem` | `ContextSpec => [](ContextTypeOK /\ SingleFlight)` | `OneRefresher`: a stranded flag excludes a running thread, so that `End` may clear it |
| `ServicesProofs!NeverWorseTheorem` | `ContextSpec => SnapshotNeverWorse` | `NothingNewer`: what a thread has built is no older than what is shown, because nobody else publishes; nothing is newer than the clock |
| `ServicesProofs!ServedAgeTheorem` | `CacheSpec => [](CacheTypeOK /\ ServedAgeBounded)` | `CacheInv`: an entry's deadline is at most `MaxBuild + Ttl` past its value, because a build that is under way is no older than `MaxBuild` |
| `ServicesProofs!WindowTheorem`, `SignInTyped` | `SignInSpec => []WindowRespected`, `[]SignInTypeOK` | `LimiterInv`: what a map remembers of a key is the end of the list of calls let through (`Remembers`); what it has forgotten is a window old, or was evicted after it had gone quiet |
| `ServicesProofs!CodeSpentOnceTheorem` | `SignInSpec => [](CodeSpentOnce /\ SpentCodeRefused)` | `CodesInv`: a code spent is marked used, and a thread that holds one unmarked on Supabase began before it was spent |
| `ServicesProofs!CodesSoundTheorem` | `SignInSpec => []CodesSound` | `CountInv`: the codes of an address that are not expired, and those on their way, are matched one to one with grants of the request limiter that are still in its window (`EmailBacked`), of which there are fewer than verify_otp examines; `AccessInv`: guests' rows stay and their expiry only moves on |
| `RiskProofs!FreezesTheorem` | `StressSpec => []FreezesOnAnyBreach` | `WalksAgree`, the two walks are one shifted by the starting capital, and `WorstIsABreach` |
| `RiskProofs!FreshBookTheorem` | `BookSpec => []FreshBookWithinLimits` | `BookInv`: what was decided and what was approved is admitted by the book it saw (`PortfolioAdmits`); a fresh position is opened on that very book, and fewer positions stay within the limits |
| `RiskProofs!ReadyTheorem` | `EodSpec => []ReadyIsComplete` | `EodInv`: the rows of the manifest are true of what the workers fetched (`Whole`), and of a stored one after one of the changes modelled still the rows or still the required symbols are those of the batch (`Covers`) |
| `ServicesProofs!ConsoleTheorem` | `ConsoleSpec => []ConsoleSound` | `ConsoleInv`: only the operator has the role GP; a visit past the look at its state is the operator's, and one that is linking has taken the grant of its consent, which no link and no other visit has |
| `DataProofs!JournalTheorem` | `JournalSpec => []JournalSound` | `JournalInv`: an acknowledged event is on the file, in a line of its own or glued to another, and the file only grows; a file that reads back has one event to a line. For its other half `CalmInv`: with no cut and no overlap, what a writer has checked is what it appends to |
| `DataProofs!SeriesTheorem` | `SeriesSpec => []SeriesKept` | `SeriesInv`: the files of a window (`Held`), those its names lead to and those its callers still have open, are no other window's, and hold what the provider answered for it, nothing, or a text that does not parse |
| `DataProofs!QuoteTheorem` | `QuoteSpec => []QuotesKept` | `WindowInv`: `_RATE_WINDOW` is the end of the list of all admissions, and what has left it is a span old, although calls leave only from the front; `CacheInv` with `Timed`: a deadline counts from before any of its quotes was read, so that whoever asked before it asked less than the cache time after them |
| `DataProofs!ContextTheorem` | `SourceSpec => []ContextHonest` | `SourceInv`: the tally is of statuses the adapters gave, and a source was lost exactly when one is counted BLOCKED; what each adapter makes of an answer is a case analysis over its form |
| `RiskProofs!TradeTheorem` | `PremiumSpec => []TradeKept` | `TradeInv`: credit and maximum loss of a trade that was entered add up to its width, whatever it was read off (`SpreadSound`), and a review that goes on comes before the planned exit and so before any earnings the gate knew of (`Watched`); entries are in the order of the clock (`EntriesInOrder`), so that the last speaks for all |
| `ReportProofs!MorningTheorem` | `MorningSpec => []PublishableIsWhole` | `MorningInv`: no edit reaches the layers of the premium project (`Layered`) or more of an audit chain than breaking it (`Chained`); the artifacts those cite name one commit, to which `validate_report` binds each other section |
| `ReportProofs!NightlyTheorem` | `NightlySpec => []NightlyTrue` | `NightlyInv`: a night's report is what its evening gives (`NightSound`), the batch under way is the last, and each step finds what the one before wrote (`UnderWay`); of the report itself, lemmas on the chosen put, the rounding of its return, the contracts that fit, the worst severity and the last two periods |
| `ReportProofs!ResearchTheorem` | `ResearchSpec => []ResearchKept` | `ResearchInv`: whatever is held now of an item is what each decision had of it, or came too late for that decision (`DecisionSound`), because every newer version carries the time at which it came in (`NewerIsLate`); what comes too late is rejected at the decision's time, and of two items ranked the one with the better keys has the lower place (`RankedInOrder`), whatever else is ranked; the two directions of a package pay at most nothing together (`MirrorRejected`); an accepted plan is sealed over what it says with the arm its identity draws (`AcceptedPlan`) |

Two definitions of the models are written as the code's loops are for these
proofs: `RateLimiter!Pruned` and `QuoteFeed!Recent` drop calls from the front
until one is recent (rate_limit.py, schwab_market_data.py:46-48), which is the
same as keeping the recent ones only because instants are in order.

Some proofs led back to a model. `NightlyReport` divided by the collateral of a
put whose bid equals its strike, where the scan of the code raises and its caller
reports BLOCKED, and took the return of one bid above its strike for a
percentage of a negative number; both are now cases of `ScanPut` and
`WithoutEquity`, and an evening of the run has such a put.
A ranking of `ResearchDesks` was a sorted sequence and is now the place of every
item: one more than the number of those that come before it, which is the `rank`
field of the code's candidates. That the places follow the keys rests on the
order of fractions being one (`Ascending`, `AheadOrders`), which fails for a
fraction over zero; so the proof also shows that no admitted item has such a key
(`KeysTyped`: the checks on consensus, price, capitalization, earnings, payout
ratio and CAPE are what keeps the divisions defined). `DrawnArm` is applied to
pairs, and the rule that a fitting put satisfies is a definition of its own
(`FitWithin`).

Sums are folds over sets, and the provers have no induction over data. For the
sums that the properties need (war games of a commit, legs of a package,
fractions of a history) it is replaced by two lemmas about a fixed finite set,
from the least number principle: a fold over it exists (`FoldExists`), and what
passes from a set without one element to the set holds of all its subsets
(`SubsetInduction`).

Model-checked only: `HumanReached`, which is liveness, out of reach of the
provers (as are ENABLED and recursive operators).

## 5. What the runs say of the code

Beside the disagreements of section 3, the models show behaviour a maintainer
should know of. Where a comment or docstring says otherwise and no run of
section 3 tells it, the item says so.

* A torn `state.json` stops every later tick, close and settlement until it is
  repaired by hand; a torn line stops every settlement.
* A plan whose identity is issued again leaves an open position that nobody can
  close or settle: ticks escalate it for ever.
* A tick also escalates an entry that is CLOSED when its plan identity was issued
  again (runner.py:304; the docstring at 255 says CLOSED plans are left alone).
* An open position may be settled at expiration and then closed: the log then
  holds two outcomes of the plan, each justified.
* With overlapping commands a rejection may replace an approval already acted on;
  and of two ticks the one that ends later drops the escalations of the other from
  the state file and so from `list_pending_escalations` (runner.py:338; the
  docstrings at 252 and 635 promise every escalation; no run).
* An audit append that loses the race for its number is dropped: the trail is
  true and verifies, and is not complete.
* A relink while a request is refreshing under the old grant is written over by
  the old grant's bundle, on either store: the new consent is lost.
* On Supabase an unlink between the two calls of `persist_schwab_tokens` lets the
  update match no row and succeed (broker_link.py:528); if the GP has linked again
  by the time the row is re-read, the request uses a token that was never stored,
  where schwab_tokens.py:4-5 excludes it (no run; `LockedUsesPersisted` is the
  SQLite half, checked and proved).
* A bundle of an earlier revision is upgraded without `updated_at`, and without
  it every later request asks for reauthentication; on Supabase the upgrade may
  also be written over a relink.

* Journal: a cut write that leaves whole JSON without its newline lets a later,
  acknowledged append glue onto it, and the journal is unreadable; a cut during
  initialization leaves a file that is refused both as existing and as empty.
* Scheduler: a failed run can be recovered twice under distinct keys; receipts
  are not chained to each other; a retry makes the last receipt
  DUPLICATE_SUPPRESSED and the health verdict BLOCKED; the command line passes no
  prior receipts at all (cli.py:585-598).
* Market context: a thread that cannot be started leaves `_refreshing` set, and
  nothing refreshes until the process restarts.
* Sign-in: a repeated request renews a guest's expiry.
* Gates: two plans approved on one snapshot of the book may both be opened, and
  the whole book is then outside the limits (`execute_paper_open` does not look at
  the book again).
* End of day: quarantined symbols carry a zero hash, so such a batch is REJECTED;
  a transport exception ends the whole ingest; the artifact names Yahoo even if
  Stooq served it.
* Entries: no step of the creation of a plan asks the cadence gate, which only
  the overnight report and the war games evaluate.
* Console: the market routes ask a member to have a link of their own, and only
  the GP can link; comments say member/LP where the code is operator-only.
* Quote feed: the time by which an entry is judged is taken before the lock
  (schwab_market_data.py:119), so that a thread held up there may be given a quote
  whose deadline has passed by then; quotes are kept and handed to other callers
  (:123, where the docstring at 3-5 says the adapter does not cache licensed
  payloads; no run); admissions are paced, not sends; the console
  report fetches twice, so a scenario may rest on a quote its own desk lacks or
  prices differently, and a missing symbol is left out without a word.
* Series cache: a window that ends today is cached with its gaps and served all
  day; writers of one window share a temporary name, so that a file may become
  unreadable (it is fetched again); an OSError on its read is not caught.
* Sources: the context marks an empty answer LIVE where the probe says BLOCKED.
* Nightly: one cut line in `yellow-sheets.jsonl` or the paper log makes the
  summary raise, and no later batch publishes until it is repaired;
  a rerun on the same day replaces a report that a decision was bound to;
  `_serve_artifact` reads body and ETag apart; the 10-year yield never reaches
  the feed, which asks for another name than the section writes.
* Morning report: `validate_report` binds neither the data batch's contents nor
  the dispositions themselves (they are only counted), reconciliation and
  cadence need not be PASS, the allocation thresholds are read from the report;
  `fixture_sha256_changed` can never be true of two comparable reports; a deploy
  that changes the war games makes earlier reports unpublishable.
* Research: arbitrage takes no decision time; consensus and futures contracts
  carry no receipt time; the earlier of two copies of a news item hides the
  later even when it is itself rejected; the experiment's `assigned_at` is the
  caller's and another salt draws another arm.

## 6. Plan

Done: the paper lifecycle with its refinement and proofs; the roster, the trail
and the broker link with theirs; the sixteen parts of `Desk` with proofs for
each.

What would add most next:

1. **Proofs**: the ledgers of a composed batch (below) from the theorems of its
   parts.
2. **Composition**: the nightly batch over `SeriesCache` and `EodBatch` instead
   of evenings given as constants; `RiskBook` with `PaperLifecycle`, so that the
   book is the state file.
3. **Options**: the assignment and expiry valuation (`options/valuation.py`) and
   the universe ranking (`options/universe.py`).

## 7. Not modelled

* **Model governance** (`models/*`: quorum, registry, splits, training runs):
  validators of one record without state, each a list of independent conditions;
  a model
  would restate them line for line, and nothing in the program composes them.
* **Numerics**: pricing models, ruin and win probability, statistics of the
  backtests, features and the ml options study: real arithmetic, out of TLC's
  reach.
* **Web and iOS clients**: presentation of published documents and forms; they
  keep no state the desk relies on.
* **Layout**: Markdown, HTML, chart pages and the wording of reasons; the
  subcommands that print reports.
* **Encryption and parsing**: the token envelope, JSON shapes, HTML scraping;
  an adapter's answer is the rows it accepts.
* **Entitlements, intake files, learning ledger, seed refresh,
  `record_paper_decision.py`, mail delivery, cookies' flags, fees, invite tokens,
  marketing exports**: not covered yet; none writes state a modelled component
  reads back, except the ledger, which only the reports show.

Each component's status and reason is in `PROJECT.json`.
