# memecoin_scorer: specifications

TLA+ models of the live path of memecoin_scorer: how swaps reach the in-memory
token store, what the store keeps of them, how buyer wallets are clustered, how
a token is judged from all that and the answers are built and served, and what
becomes of a signal afterwards. TLC checks each model on small instances; TLAPS
proves, for every size, their safety: of the deduplication ring, the token
store, the ingress, the resolver, the depth client with the served rows, the
outcomes, and of the answers, whose rows say what the swaps of their tokens
support. Liveness, and one property of the answers, are checked by TLC alone
(section 4). This file has the inventory of the system, the models and their
correspondence with the code, what is checked and proved, and what is left out.
`PROJECT.json` holds the line-by-line map, the runs, the mutants, the hazards
and the findings.

## 1. Inventory

| Part | Code | State | Operations | Module |
|---|---|---|---|---|
| Signature ring | `internal/state/store.go` (sigRing) | map, circular buffer, position, count | seen, add | `SigRing`, contract `Dedup` |
| Token store | `internal/state/store.go` | one `tokenState` per mint, the ring | Apply, PruneStale, UpdateDepth, Reset; snapshots and trades for readers | `SwapStore`, contract `Deliveries`; `Snapshots` |
| Poller | `internal/ingestor/poller.go` | cursor per program, health counters | poll cycle, fetchSince | `Ingest` |
| Webhook | `cmd/ingestor/main.go` | none of its own | apply, then persist in a goroutine | `Ingest` |
| Cluster resolver | `internal/cluster` | answer cache, in-flight entries, slots, failure counters | Cluster, ResolveParent | `Resolver` |
| Normaliser | `internal/ingestor/normalize.go` | none | NormalizeHelius | not modelled |
| Depth client | `internal/rpc` | vault cache, depth cache, in-flight entries | FetchDepth | `Depth` |
| Live decision | `internal/live` | none | ClassifyAt, AssignPriorityLabels | `Decision` |
| Gates | `internal/engine` | none | Layer 0 and seven gates | `Gates` |
| Authenticity, early proxy | `internal/proxy`, `internal/authenticity` | none | AnalyzeAuthenticity, Detect, ScoreEarlyProxy | `TradeShape`, `Proxy` |
| Setup, mode, catalyst | `internal/setup`, `internal/mode`, `internal/catalyst` | none | Classify, Detect | `Setup` |
| Snapshot serving | `cmd/ingestor/main.go` | row cache, refreshing flag | building an answer; refresh, filtered reads | `Pipeline`, `Serving` |
| Outcomes | `internal/outcomes` | tables signal_snapshots, signal_outcomes, swap_events | Record, processDue, price queries | `Outcomes` |
| Calibration | `internal/calibration` | record per mint with three slots | ObserveRows | not modelled |
| Alerts, runner, devprint | `internal/alerts`, ... | subscribers, files | Publish, Subscribe | not modelled: PublishIfRunner has no caller |
| Offline scoring | `internal/features`, `scoring`, `backtest`, `report`, `shadow`, `filter`, `config` | none | batch arithmetic over CSV | not modelled |
| Dashboard | `cmd/dashboard` | cached rows | HTML, proxying | not modelled |

How they interact. `main` starts the poller goroutine, the prune ticker and the
HTTP server. The poller and every webhook request call the same apply function
on the one store, which serialises them with a lock; an applied event with a
pool account starts a goroutine that asks the depth client and writes the
answer back with UpdateDepth. The webhook alone also persists the events it
applied. The snapshot cache's refresher reads the store, classifies each token
(which asks the cluster resolver for several windows of buyers, each under a
deadline of 750 ms), and hands the rows to calibration, to the outcome recorder
and to the database. The outcome worker later measures prices from the
persisted swaps. Store, ring, cursors and caches live in memory only.

What is hard in it, and what correctness means, part by part:

- *Ring*: bounded memory of an unbounded stream. Nothing in the horizon may be
  accepted again, nothing outside it may be refused.
- *Store*: events come late and out of block-time order, histories are capped,
  snapshots are taken by whichever event comes by, and records die and are
  reborn. Aggregates must not depend on order; caps may lose, never invent.
- *Ingress*: cursors move before the events behind them are applied; responses
  fail, lag behind, or leave gaps; webhooks race; the process restarts. No swap
  behind a cursor may silently be missing, and none may count twice.
- *Resolver*: goroutines of different calls wait for one another, under
  different deadlines. Nobody may hang, wallets must not be fetched twice at a
  time, and a failure must not turn into an answer.
- *Depth*: the same sharing of lookups by goroutines with deadlines of their own,
  answers applied out of order, failures cached with the values.
- *Decision, gates, proxy, setup*: long chains of conditions with thresholds,
  each with its case for missing evidence; a row must not claim what the token's
  trades do not support, and more evidence must not make it worse.
- *Building an answer*: the rows are collected under one lock and scored later,
  from a store that has changed meanwhile.
- *Serving*: one refresh at a time, which loop and requests compete for.
- *Outcomes*: each signal once per bucket, each checkpoint once and of its own
  time, across failing reads, late rows, stops and restarts.

The hazards these lead to are listed in `PROJECT.json`, each at its line, with
the properties that would notice it.

## 2. Models and code

**`SigRing`** is the ring; `Offer` is the `seen`/`add` pair that Apply runs under
the lock, `RingReset` the new ring of Reset. `Dedup` is its contract, from the
package comment: a signature is accepted exactly when it is not among the last
`Cap` accepted ones. `SigRing` implements it (`ImplementsDedup`, proved): each step
is one of `Dedup`, and the map `m` is at all times the contract's set of recent
signatures, so that it neither forgets one early nor refuses one too long. The
history variable `log` is the sequence accepted so far.

**`SwapStore`** extends `SigRing` with the token records. `Apply` is
`ApplyDuplicate` (returns false, nothing changes) or `ApplyNew`, whose `Updated`
is the body of Apply in the order of the code: record created, times and counts,
trade history, buy or sell side, price, the two snapshots. `PruneStale`,
`UpdateDepth` and `Reset` are the other writers. All hold the write lock, so
each is one action. Time is in ticks. `hist`, a history variable, holds the
events applied to each live record; the properties compare the record with it.
`Deliveries` is what the whole store promises of deliveries, without ring, clock
or histories: the last `Cap` signatures taken, the signatures refused, and of
each token what was taken into its record and how many events the record counts.
`ImplementsDeliveries` maps them to the ring's slots, its map, `hist` and the
records' counters. Slots, map and records are three copies of one account that
Apply, PruneStale and Reset change apart; they may not disagree.
The totals buySOL and sellSOL, which are
the sums of the per-wallet maps, are left out, as are evidence strings.

**`Ingest`** composes the poller goroutine, webhook handlers and restarts with
the store as `Dedup` (which the ring implements, as is proved). A poll is split where others can come in between: `StartCycle`, `Fetch`
(the response and the move of the cursor) or `FetchFails`, one `ApplyPolled` per
event, `FinishProgram`. `Webhook` applies one event and, if it was new, may
persist it: the goroutine that inserts is folded into the step, with an insert
that fails as a choice; nothing in this module reads `rows`. A response may be behind the chain by up to
`MaxBehind`. Transactions are numbers in chain order.

**`Resolver`** has one program counter per lookup, a lookup being one wallet of
one call of Cluster. Its steps are cut at the mutex, the wait group, the slot
channel and the fetch, and between `wg.Done` and the deletion of the entry. Each
slot of the channel is a lookup in "fetch". `unanswered` is a history variable:
the lookups whose root is the raw wallet without any answer of the provider.

**`Depth`** has one program counter per goroutine of makeApplyFn, cut at the
mutex, the wait group, the requests and the caches; between the provider's
reading of a balance and its arrival others may read and write. Time is kept in
ages and in what is left of deadlines: `Tick` lets a unit pass once every
goroutine that can go on has and none of a request is past its deadline, so the
model needs no bound on time. `sync.Map` operations are single steps. Which pool
has a WSOL vault is a constant; the decoding of accounts is not modelled. A
token that was pruned and made anew takes the depth asked for by its
predecessor, as in the code.

**`Serving`** extends `Depth`: the record it writes is the store that builds
read. A refresher's steps are the compare-and-swap (with the build's reading of
the store), the storing of the rows, and the release of the flag. Rows are known
by the number of changes the build had seen. The filters a request applies to
the cached rows are not modelled; they read only.

**`Snapshots`, `Gates`, `TradeShape`, `Decision`, `Proxy`, `Setup`** are the
judgement of a token as operators over integers (`Rules` holds the forms that
they share: chains of early returns, points, fractions). Amounts are hundredths
of a SOL, fractions basis points rounded down, scores of the proxy quarter
points, times seconds; thresholds are those of the default configurations.
`Snapshots` reads the records of `SwapStore`; `Decision` is ClassifyAt and the
ranking of an answer; `TradeShape` has both detectors of bots; `Proxy` the score,
the band and its caps; `Setup` blockers, modes and actions. Wording is left out,
or kept as a short name where a later condition looks for it.

**`Pipeline`** builds an answer: `Collect` takes the snapshots under the read
lock, `ScoreNext` scores one row from its snapshot and from the trades the store
has by then, `Answer` ranks. Bursts of swaps, pauses, depths and pruning happen
in between. ScoreNext reads the store once where buildScoredSnapshot takes the
lock two times and more. One build stands for concurrent ones, which share only
the store. The way the funders of a window's buyers resolve is chosen per row, since
`Resolver` shows that each may be answered, share a root or fall back. A row
remembers, for the properties, how it was funded and which swaps its token had
had when it was collected (`seen`); no action reads either. The properties speak
of those swaps: `BuyersIn`, `Flow`, `HoldersOf` and `RoundTripper` are sums and
sets over the history, not over the row's own fields.

**`Outcomes`** has the recorder's goroutines, the worker's batch and the two
tables, which survive `Stop`. The code's three checkpoints are due times of a signal, of which the run has one;
prices come from the swaps persisted by then, by the vault pricer or the SQL
one. Each query of the worker may fail.

## 3. Runs

| Run | Shows | Instance |
|---|---|---|
| `ring` | types, layout, map, horizon | Cap 3, 5 signatures, 7 accepted: wraps more than twice, evicted ones return |
| `store` | exact aggregates, caps, trade window, snapshots, pruning, the account of deliveries | 1 token, 2 wallets, 2 signatures and Cap 1, 3 events, clock 0..5, events up to 2 late; 1.17 million states |
| `snapshot_marks` | finding: growth between the marks judged a stall | as `store`, no lateness |
| `ingest` | nothing behind a cursor lost, counted once, chain order, eventually counted | 2 programs, 4 transactions (2 shared, 1 that is no swap), Limit 2, one restart |
| `connected` | finding: connected after a success | as `ingest` |
| `resolver` | one fetch per wallet, slots, no dead entry, true answers, health | 2 calls, 3 wallets, 4 lookups, 2 slots |
| `resolver_returns` | every lookup returns | 2 calls, 2 wallets, 3 lookups, 1 slot |
| `fallbacks` | finding: fallbacks not counted | as `resolver_returns` |
| `outcomes` | one signal per bucket, checkpoints neither early nor with later prices, peaks, labels; every due checkpoint settled while the worker runs | one token, see `MCOutcomes.cfg` |
| `pipeline` | what actionable, RUNNER and WOW rows rest on, no round trips behind the latter two, who leads, deeper pools | 2 mints (one of Pump.fun), 13 wallets, 6 bursts, 6 outcomes of the lookups, 3 happenings; 171 thousand states |
| `drained` | finding: an actionable row with a pool read as empty | as `pipeline` |
| `serving` | deadlines of depth goroutines, age of written depths, order and liveness of served rows | 2 goroutines, 2 pools (one without a WSOL vault), 2 swaps, a loop and a request; about 1.2 million states |

Why the bounds are enough. The store's caps (buys 2, sells 1, trades 2) are below
the number of events, so every cap is hit and passed; with two signatures and a
ring of one, an event is delivered again both within the horizon and beyond it,
with prunings and resets in between; buys cost 1 and sales bring 1 or 2, which
makes the only difference the code sees (a winner or not), and a depth, which
touches nothing else of a record, is written at the last tick; the clock passes both
marks and the staleness limit, which keeps its order with them (winner delay <
30 min mark < 60 min mark <= staleness in ticks); tokens do not interact except
through the ring and PruneStale, hence one token. In `ingest` a response of 2 out
of 4 leaves gaps, a shared transaction is offered by both programs and by
webhooks, transaction 3 makes a cursor point at something that is no event. In
`resolver` two lookups share a wallet, which the two slots would let both fetch,
and three wallets compete for the slots; `resolver_returns` has a wallet less and
the only slot to compete for, as liveness with four lookups outgrows its time.

In `pipeline` a burst is a market: an organic crowd of twelve buyers, the same on
an old token, round trips of one wallet, a dump, a single small buy, and
equal buys at a regular pace. Sizes lie next to the thresholds. A pause of two
minutes leaves a row whose last minute had no buyer while its five minutes had, so
that the lookups of either window may fail alone. Every verdict
is reached within three happenings: BUY and READY that are actionable, RUNNER
with verified depth and with none known (one with a pool read as empty takes a
fourth, which the proofs cover), both WOW modes, REVIEW_CANDIDATE and
MANIPULATED_MOMENTUM. In `serving` a cached balance lives for two units and a
context for one, so that the bound of `WrittenDepthIsRecent` is met but for one;
the second goroutine waits for the first, hits its cache, or overtakes it.

Deadlock. `ring`, `store`, `pipeline` and `outcomes` (and the findings on them)
bound the number of events, so they may stop: CHECK_DEADLOCK is off there and on
in the others (`Resolver` has an explicit `Finished` stutter once every call has
returned; the loop of `Serving` never stops).

Symmetry: wallets and signatures in `store`, a safety run.

Every property of a passing run has a mutant, an operator named for its bug next
to the definition it replaces, under which TLC finds the property violated.

### Fairness

`Ingest`: weak fairness of the goroutine's own steps (the ticker fires, the loop
runs). The code does not bound a request: `http.Get` has neither timeout nor
context. That a request ends is therefore an assumption about the provider, as
is strong fairness of an up-to-date success for the programs in `Reliable`; the
other program may fail for ever. Nothing is assumed of webhooks or restarts.

`Resolver`: weak fairness of each lookup's steps (goroutines run) and of a
deadline passing (`context.WithTimeout` in clusterWindow). A fetch ends at the
latest with that deadline or with the client's 4 seconds.

`Outcomes`: the process starts again after a stop, its ticker fires and its
goroutine runs; strong fairness of settling a checkpoint says that the database
does not fail for ever.

`Serving`: the loop's ticker fires and refreshes run. That a build ends is
justified by the deadlines of its cluster windows. Nothing is assumed of
requests, of depth goroutines or of time.

### Findings

1. `snapshot_marks`: both holder snapshots are taken inside Apply, by the first
   event after the mark. A token that grew between its marks but traded only
   before the first and after the second gets equal counts, and Gate 6 fails it.
2. `connected`: the runbook's meaning of `connected` is not the code's.
3. `fallbacks`: a lookup that waited for a failed leader counts as resolved.
4. `drained`: a pool verified as empty is taken for one never read. A crowd of
   twelve buyers whose pool is then read as empty is an actionable READY: the
   decision goes by the flow, and Layer 0 and gates 1 and 7 skip a pool of 0. The
   same token with 3 SOL in the pool (Layer 0), with 40 SOL or with no depth known
   (gate 7) is AVOID. The liquidity contract (`docs/wow_spec.md:52`) calls a depth
   of 0 verified, and ClassifyAt's comment says that it uses the real depth when
   there is one; the setup classifier's blocker for a depth of 0, which would make
   the setup DEAD, is never reached. The cause is
   a value with two meanings: to the gates a pool of 0 is "not yet computed"
   (`LiquidityPoolSOL` in `internal/model/types.go`).
   `ActionableIsSupported`, `DeeperPoolNoWorse` and `RunnerLiquidity` each say what
   they leave out on its account.

Met while modelling, without a run:

- events_total counts only what the poller applied, where the runbook reads as if
  all; the comment above makeApplyFn says 2 seconds, its context has 5.
- depth.go says that in-flight sharing prevents a stampede; it shares the lookup
  of the vault, after which every waiter fetches the balance itself.
- `main` gives the outcome worker no vault, so no label of an outcome is ever
  set; an 'unavailable' row is never measured again.
- The two texts that mark a terminal Layer 0 reject are looked for as
  "self-bundl" and written as "self_bundled", so neither
  terminalLifecycleReject nor the proxy's veto ever sees one.
- A row rejected by Layer 0 has no score cap, so its confidence may exceed that
  of a row that only failed gate 7.
- Clustering status looks at the last minute's buyers only. With none in it, a
  row whose every lookup of the five minutes failed counts as resolved and may be a
  RUNNER (the `pipeline` run reaches one); `HighVerdictIsEvidenced` asks nothing of
  its lookups.
- LAUNCH_WOW does not look at the live label, and may be AVOID.
- One complete exit (nothing kept) is a bump bot to AnalyzeAuthenticity, where the
  documents speak of repeated flips; Detect's test needs fifty.
- No row is ever eligible for a shadow score.

## 4. Proofs

`SigRingProofs` (for every `Cap` > 0 and every set `Sig`):

- `RingCorrect`: the invariant `RingInv` = types, layout (`BufIsLogSuffix`), map
  (`SeenIsRecent`) and `DedupHorizon`. None of the last two is inductive alone:
  that eviction removes the right signature needs the layout (the slot at `pos`
  holds the oldest entry), and that removing it from the map is right needs the
  horizon (the evicted signature has no younger copy).
- `RingTypes`, `BufferIsLogSuffix`, `SeenIsRecentHolds`, `DedupHorizonHolds`: its parts.
- `RingImplementsDedup`: initial states and steps map to those of `Dedup`, and the
  map equals `Recent`. The steps alone would allow a ring that refuses for ever;
  the equality is the other half, and `Ingest` rests on both.

`SwapStoreProofs`, for any mints, wallets, amounts, caps and windows.
`StoreDedupHorizon` is the horizon of the ring inside the store: every action of
the store is a ring step or leaves the ring alone. `StoreImplementsDeliveries` is
that the store's initial states and steps are those of `Deliveries`: by the ring's
layout the slots are the end of the log, by `SeenIsRecent` the map is what the
slots hold, so a new event moves all three together (`OfferMovesHorizon`), and by
`Counted` (below) the record counts it as the history has it (`ApplyIsTaken`).
`StoreInvariant` is
`StoreInv`: the ring's invariant, types, and of each live record t with the
events h that made it

- `Counted`, `Summed`, `Spanned`: counters, each wallet's sums, and the first and
  last time are those of h. None of them looks at the order of block times, which
  is why late events do no harm (`AggregatesAccumulate`).
- `TradesEnd`: the trade history is what h ends with, and each event it lacks is
  either too far back or too old, measured from the *last* block time.
  `RecentTradesKept` alone would not do: that an event dropped once may stay
  dropped needs that the last time only grows, and that what is kept is a suffix
  (`TradesKept`).
- `SidesKept`: each event of the buy history is at a place of its own among the
  buys of h (`PlacedBy` is the placing), all of them have one while they are no
  more than the cap, and so for the sells. A history of buys alone is not enough:
  a place of its own for each is what bounds sums over a window, of which
  `WindowsExact` needs none but the answers do.
- `Marked`: the 60 minute snapshot comes with the 30 minute one, both of a token
  old enough. A late event pulls FirstSeenAt back, never forward, so an age
  reached is kept (`SnapshotsOrdered`).

`SnapshotsStay` and `OnlyIdleDropped` are action properties from the same
invariant: a stale record's last time bounds all its events (`Counted`).
`StoreTypes` is type correctness. Updates of a record are followed field by field
(`ObservedFields` to `RecordedFields`), in the order of Apply.

`SumsAndExtrema` shows of the community module's sum over a finite set that any
member may be taken out first (`SumWithout`), for every set and every integer
amounts, so the order CHOOSE gives does not matter. That is induction over data,
which the library's theorems cannot be instantiated for; here it is done by
hand, with a smallest set that would fail. From it follow sums by key (what the
wallets spent adds up to what was spent), of what was moved one to one (a capped
history and the events it kept), and of smaller or equal terms. The module also
has the least-number principle and the greatest member of a finite set.

`IngestProofs`, for any programs, transactions, response limit, staleness and
number of restarts. `IngestInvariant` is `IInv` = types, `QueueInOrder`,
`NothingBehindCursorLost` and `CountedOnce`.

- `NothingLost`: the fetch is the step that matters, as it moves the cursor over
  events nobody has applied. `ResponseIsNewest` says that a response reaches back
  from the newest transaction without holes, `BehindNewCursor` that whatever lies
  behind the new cursor was behind the old one, is in the response, or was
  jumped over, and `OldestFirstIsAll` that the queue holds the response's swaps,
  all of them. A webhook that counts a queued swap first does no harm, since
  being counted is as good as being queued.
- `NothingCountedTwice`: while the ring is no smaller than the number of
  transactions, what `Dedup` remembers is the whole log, by counting.
- `ChainOrder`: at an application everything older is behind the cursor
  (`QueueInOrder`), is not in the queue (its head is the least), hence counted or
  jumped over by `NothingLost`.
- `IngestTypes`: type correctness.

`ResolverProofs`, for any number of calls, wallets and slots.
`ResolverInvariant` is `RInv`:

- `MapIsLeaders`: the in-flight map holds exactly the lookups between Join and
  Remove. Both directions are needed: a leader is in the map (so a newcomer joins
  it), and what is in the map leads (so the newcomer is woken). `FetchBounds` and
  `EntriesLed` follow from it.
- `WaitsEnd`: a waiter's entry is of its own wallet, and is done or its leader
  has still to announce it. A newcomer may find a leader that has announced but
  not removed its entry, which is why "done" is part of it.
- `NothingFalse`: cache, entries and roots agree with the provider wherever they
  claim to. `AnswersTrue` is its last part; the first two make it inductive, since
  answers travel through the cache and through entries.
- `FailuresAccounted`: consecutive failures are at most the lookups that ended
  with an error, which needs that a lookup fails once. `OnlyErrors` follows.
- `SlotsCounted`: the fetching lookups are finitely many and at most `Slots`,
  though lookups may be infinitely many.

`ServingProofs`, for any goroutines, pools, swaps and requests.
`ServingInvariant` is `ServingInv`, of which `DepthInv` is about the depth client:

- `LeadersInFlight`: the in-flight map holds exactly the goroutines that look for
  a pool's vault, as in the resolver.
- `WaitsAreLed`: who waits has a leader that looks for the same pool and has no
  more time left than the waiter, or that has announced. It is the second half
  of the first case that makes `DeadlinesKept` provable: the waiter looks at no
  context, but time cannot pass its deadline, since its leader's comes first.
  Why the leader has less time left is `InTime`: whoever joins has all of its
  time.
- `VaultsAreTrue`: the pool cache and the entries tell of a vault only where
  there is one.
- `AgesBounded`: an answer under way is as old as the time its request took, a
  cached one at most a request older than its place in the cache; hence
  `DepthsRecent`.
- `ChangesAccounted`: the store's changes are at most three for each swap.

`RefreshInv` says that between the compare-and-swap and the release the flag is
set and held by one refresher, and that what a build saw is no older than the
rows; `RowsOnlyForward` follows. `ServingTypes` is type correctness.

`OutcomesProofs`, for any decisions, prices, delays and bounds.
`OutcomesInvariant` is `OutcomesInv`: types, and

- `Keyed`: a signal is stored under the key of its own decision and time;
  `OneSignal` is then that equal buckets, modes and blockers make equal keys.
- `Held`: what the worker has read was due, and its price is the vault's or that
  of a swap up to the checkpoint. It carries over a `Stop`, since what is held is
  lost with the process.
- `RowsStand`: each settled row is no earlier than due, and its price and maximum
  are those of swaps up to the checkpoint. `NeverEarly` and `NoLookahead` are
  parts of it; that they stay true when swaps are persisted late needs that
  signals are never changed and swaps never taken back (`RowsKept`).
  `MaxCovers` needs more: the maximum is read after the price, so its
  window has the swap the price came from, unless that came before the signal.
  `LabelsFromVault` is the last part.

`PipelineProofs`, for any mints, wallets, bursts, depths, queries, outcomes of
the lookups and pauses. `AnswersAreOfTheirTokens` is `PipelineInv`: the store's
`StoreInv`, and

- `BuildInv`: each snapshot still to score is one of a record that was made of
  the swaps remembered for its token (`Collected`), and each row so far is
  `Scored`: it carries the decision on such a snapshot (`Carries`), whatever was
  added to it later, and has the verdicts its rules give (`Judgement`).
- an answer is a ranking of scored rows, of one per token.

That it is inductive needs of a burst that folding `Recorded` over it makes the
record of the history with the burst at its end (`DeliveredMade`), and of scoring
that no later field overwrites one the decision set. The store may change as it
likes between the collection of a row and its scoring: the row's verdicts then go
by two states of the store, and what they promise holds of the older.

- `AnswersFavourDepth`: of a row judged by a liquidity that is not zero, a verified
  depth or the flow, a pool verified to hold more fails no gate that passed, the
  label the gates allow is no lower, impact and penalty do not grow; and a label by
  the same evidence under a higher ceiling is no lower. From zero this is false.
- `AnswersLeadWithTheBest`: the fold over the rows ends with a row that is not
  expired and that none beats, or with none (`BestIsFound`); the labels then
  follow that row's mint, and mints are one per row.
- `AnswersAreTyped`: every score, share and verdict is on its scale.
- `AnswersAreSupported`: what a collected snapshot tells is traced to its history
  (`CollectedHistory`): its buyers are among those of the history, its sums no
  larger, and equal while nothing was shifted out; separate funders of some
  buyers are separate funders of all (`RootsAreEnough`); a label other than those
  of the chain cannot come out of it (`LabelCases`); and gate 7 asks that 25 SOL
  move pool or flow by 5% at most. A pool read as empty is skipped by it, and what is
  left is the impact veto: a flow that 1 SOL moves by 15% at most.
- `HighVerdictsAreEvidenced`: a RUNNER passed every veto and cap
  (`RunnerNeeds`), a WOW every blocker (`WowNeeds`); what these say of the row's
  fields is then said of the history. For the share of ten holders the code goes
  through the balances in order; `TenthBalance` finds the balance of the tenth,
  `TenHold` shows that the share counts what is above it and that balance for the
  rest of the ten, and `TenHoldTheMost` that no ten holders hold more.

Three properties were restated when a proof of them failed. The clause of
`SupportsBUY` on the last minute's sales holds only while no sell was shifted
out of the sell history, and that of `RunnerLookups` and `WowEvidence` on the
lookups of the last minute's buyers only while no buy was. A RUNNER with verified
depth but an inferred launch needs no five separate funders, which the property
had asked of it. None of this showed in the run, whose caps no burst exceeds.

Assumptions: those the modules name on their constants (`SigRingAssumption`,
`SwapStoreAssumption`, `NoTokenAssumption`, `SnapshotsAssumption`,
`PipelineAssumption`, `BurstAssumption`, `IngestAssumption`,
`ResolverAssumption`, `DepthAssumption`, `ServingAssumption`,
`OutcomesAssumption`), which TLC evaluates in the runs. They say that caps and
bounds are numbers of the right size, that amounts and delays are naturals, that
the sets of mints and wallets are finite (the code counts holders with a map),
that a swap is no older than eight hours and no burst is empty, and that what
stands for "no value" is not a value.

Only model-checked:

- `NoHighVerdictOnRoundTrips`: flips are found in a sorted and filtered copy of a
  wallet's trades, and the library defines sorting by CHOOSE and filtering by
  recursion, of which the prover knows nothing. It is stated of histories no
  longer than the trade cap: of a token that trades more within ten minutes some
  round trips are no longer seen, and it may be a RUNNER all the same.
- liveness (`EverySwapCounted`, `EveryLookupReturns`, `DueIsSettled`,
  `ChangesAreServed`): fairness and ENABLED are beyond the prover.

## 5. Order and limits

Written in this order: `Dedup`, `SigRing`, `SwapStore`, `Ingest`, `Resolver`,
`Outcomes`, `Rules` to `Setup`, `Pipeline`, `Depth`, `Serving`, `Deliveries`.

### Not modelled

- The normaliser and the decoding of Raydium accounts: pure functions of a
  payload, where what matters is the layout of the data.
- Calibration: one critical section that fills an empty slot; its only reader
  gives out nothing, as no live row has a shadow outcome.
- The dashboard, formatting and the texts for the operator.
- Alerts: nothing publishes. Runner scheduling and developer fingerprints are
  sequential.
- The offline packages: floating point batch arithmetic without state, and the
  command line tools and scripts around them.
- The database beyond the three tables of outcomes, and the views of `api.go`.

Where a float matters in a modelled part, integers of a small unit stand for it
and sums are exact; the rounding of floats is not modelled. Weights that
multiply fractions are applied to basis points.
