------------------------------- MODULE Pipeline -------------------------------
(***************************************************************************)
(* From swaps to the rows of an answer (buildSnapshotRows and              *)
(* buildScoredSnapshot in cmd/ingestor/main.go), over the live store.  A   *)
(* build collects the snapshots of the recent tokens under one read lock,  *)
(* then scores them one by one while the store goes on changing: the       *)
(* decision is made from the collected snapshot, but velocity and          *)
(* authenticity read the token's trades again, from the store as it is by  *)
(* then.  The rows are ranked at the end.                                  *)
(*                                                                         *)
(* Swaps arrive in bursts, each the events delivered between two steps of  *)
(* a build; they are new to the store, which SwapStore covers for repeated *)
(* ones.  How the funders of a window's buyers resolve is a choice, which  *)
(* Resolver models.  `seen` and `funding` in a build and its rows are      *)
(* history, for the properties: no action reads them.                      *)
(***************************************************************************)
EXTENDS Setup

CONSTANTS
    Burst,    \* of each mint: sequences of swaps, `ago` the age of each on arrival
    Depth,    \* verified depths of a pool
    Query,    \* [window, minBuyers, limit, actionableOnly]
    Funding,  \* [healthy, first, second]: the resolver's health, and how the
              \* last minute's and the last five minutes' buyers resolve
    Pause,    \* how long nothing happens
    MaxEvents, \* bound: how many bursts, pauses and writes of the store there are
    Idle

ASSUME PipelineAssumption ==
    /\ Depth \subseteq Nat /\ Pause \subseteq Nat /\ MaxEvents \in Nat
    /\ \A q \in Query : q.limit \in Nat \ {0} /\ q.minBuyers \in Nat
    /\ Mint \subseteq Nat /\ IsFiniteSet(Mint) /\ Wallet \subseteq Nat

\* A swap is no older than the clock at the start.
ASSUME BurstAssumption ==
    \A mint \in Mint : \A burst \in Burst[mint] :
        /\ burst # <<>>
        /\ burst \in Seq([wallet : Wallet, isBuy : BOOLEAN, ago : 0 .. 8 * Hour,
                          sol : Sol, qty : Qty])

VARIABLES
    build,  \* Idle, or [at, query, left, done, seen]
    rows,   \* the answer just built, <<>> once anything else has happened
    events  \* how many bursts, pauses and writes of the store there were

pipelineVars == <<m, buf, pos, n, log, tokens, now, hist, build, rows, events>>

\* Where a wallet is counted, for each way the lookups of a window may go.
ResolveAs(outcome, w) ==
    CASE outcome = "own"     -> [root |-> w, failed |-> FALSE]
      [] outcome = "shared"  -> [root |-> 0, failed |-> FALSE]
      [] outcome = "partial" -> [root |-> w, failed |-> w % 3 = 0]
      [] outcome = "failed"  -> [root |-> w, failed |-> TRUE]

-----------------------------------------------------------------------------
(* Scoring one snapshot: buildScoredSnapshot.                              *)

\* SOL per trade and per buyer of the last five minutes, read from the store;
\* when it has none, from the collected trades.
Velocity(mint, a) ==
    LET bought == GetBuyEvents(mint, 5 * Minute)
        per(k) == IF k = 0 THEN 0 ELSE SolOf(bought) \div k
        orElse(v, fallback) == IF v = 0 THEN fallback ELSE v
    IN  [solPerTrade |-> orElse(per(Len(bought)), a.velocity.raw),
         solPerBuyer |-> orElse(per(Cardinality(Wallets(bought))), a.velocity.perBuyer)]

\* Only the backend's absence is known of a resolver that is not healthy.
Decided(s, at, funding) ==
    ClassifyAt(s, at, funding.healthy,
               [w \in Wallet |-> ResolveAs(funding.first, w)],
               [w \in Wallet |-> ResolveAs(funding.second, w)])

\* ApplyAuthenticityEvidence, and the velocity of what the store holds.
WithBonding(d) == [bondingState |-> ValidBondingLiquidityState(d)] ++ d
Authenticated(r, a) == [auth |-> a] ++ Velocity(r.mint, a) ++ r
WithAuthenticity(r) == Authenticated(r, AnalyzeAuthenticity(r))

\* The authenticity result, from the trades the store has now.
Detected(r) ==
    Detect(r, GetBuyEvents(r.mint, 5 * Minute), TradesOf(r.mint), Live(r.mint))

Judged(r) ==
    [proxy |-> ScoreEarlyProxy(r), mode |-> TokenMode(r), detect |-> Detected(r)] ++ r

WithSetup(r) == [setup |-> ClassifySetup(r)] ++ r

ScoredRow(s, at, funding) ==
    [funding |-> funding]
    ++ WithSetup(Judged(WithAuthenticity(WithBonding(Decided(s, at, funding)))))

-----------------------------------------------------------------------------
(* Building an answer: buildSnapshotRows.                                  *)

PipelineInit ==
    /\ RingInit
    /\ tokens = [mint \in Mint |-> NoToken]
    /\ hist = [mint \in Mint |-> <<>>]
    /\ now = 8 * Hour
    /\ build = Idle /\ rows = <<>> /\ events = 0

Collect(query) ==
    /\ build = Idle
    /\ \E snaps \in RecentTokens(query.window) :
          build' = [at |-> now, query |-> query, left |-> snaps, done |-> <<>>, seen |-> hist]
    /\ rows' = <<>>
    /\ UNCHANGED <<m, buf, pos, n, log, tokens, now, hist, events>>

Full == Len(build.done) >= build.query.limit

\* Rows are filtered before they are ranked.
Wanted(row, query) ==
    /\ row.uniqueBuyers >= query.minBuyers
    /\ query.actionableOnly => row.actionable

\* The rows so far with one more, scored from the collected snapshot s.
WithRow(done, row, query) == IF Wanted(row, query) THEN Append(done, row) ELSE done

ScoreNext(funding) ==
    LET s == Head(build.left)
        history == [seen |-> build.seen[s.mint]]
    IN  /\ build # Idle /\ build.left # <<>> /\ ~Full
        /\ build' = [build EXCEPT
                !.left = Tail(@),
                !.done = WithRow(@, history ++ ScoredRow(s, build.at, funding), build.query)]
        /\ rows' = <<>>
        /\ UNCHANGED <<m, buf, pos, n, log, tokens, now, hist, events>>

Answer ==
    /\ build # Idle /\ (build.left = <<>> \/ Full)
    /\ rows' = AssignPriorityLabels(build.done)
    /\ build' = Idle
    /\ UNCHANGED <<m, buf, pos, n, log, tokens, now, hist, events>>

-----------------------------------------------------------------------------
(* Meanwhile, in the store.                                                *)

SwapOf(mint, e) ==
    [sig |-> NoSig, mint |-> mint, wallet |-> e.wallet, isBuy |-> e.isBuy,
     at |-> now - e.ago, sol |-> e.sol, qty |-> e.qty]

\* The answer is gone once something else happens.
Happens ==
    /\ events < MaxEvents
    /\ events' = events + 1
    /\ rows' = <<>>
    /\ UNCHANGED build

Deliver(mint, burst) ==
    LET evs == [i \in DOMAIN burst |-> SwapOf(mint, burst[i])]
    IN  /\ Happens
        /\ tokens' = [tokens EXCEPT ![mint] = FoldLeft(Recorded, RecordOf(evs[1]), evs)]
        /\ hist' = [hist EXCEPT ![mint] = @ \o evs]
        /\ UNCHANGED <<m, buf, pos, n, log, now>>

Pass(d) ==
    /\ Happens
    /\ now' = now + d
    /\ UNCHANGED <<m, buf, pos, n, log, tokens, hist>>

StoreWrites ==
    /\ Happens
    /\ PruneStale \/ Reset \/ \E mint \in Mint, d \in Depth : UpdateDepth(mint, d)

PipelineNext ==
    \/ \E mint \in Mint : \E burst \in Burst[mint] : Deliver(mint, burst)
    \/ \E d \in Pause : Pass(d)
    \/ StoreWrites
    \/ \E query \in Query : Collect(query)
    \/ \E funding \in Funding : ScoreNext(funding)
    \/ Answer

PipelineSpec == PipelineInit /\ [][PipelineNext]_pipelineVars

-----------------------------------------------------------------------------
(* Properties of an answer.  Each is about what the store had been told     *)
(* when the row was collected: its history, not the row's own fields.       *)

\* Verdicts are of their kinds, scores stay within their scales, and a snapshot's
\* shares are shares.
RowTypeOK(r) ==
    /\ r.label \in DOMAIN LabelRank /\ r.state \in DOMAIN SignalFreshnessRank
    /\ r.clustering \in DOMAIN ClusteringPriorityRank
    /\ r.proxy.band \in DOMAIN BandRank /\ r.proxy.score \in 0 .. 100 * Point
    /\ {r.confidence, r.adversarial, r.impact, r.top10, r.topShare, r.diversity, r.clusterRatio}
          \subseteq 0 .. 100 * Percent
    /\ r.detect.score \in 0 .. 100 /\ r.auth.mechanicality \in 0 .. 100
    /\ r.eff1m <= r.buyers1m /\ r.eff5m <= r.buyers5m

PipelineTypeOK ==
    /\ events \in 0 .. MaxEvents
    /\ build # Idle => build.at <= now /\ Len(build.done) <= build.query.limit
    /\ \A i \in DOMAIN rows : RowTypeOK(rows[i])

\* Swaps a row's token had in the `window` before the row was collected.
SeenIn(r, window) == Within(r.seen, window, r.asOf)
BuysAmong(r, swaps) == {i \in swaps : r.seen[i].isBuy}
SolIn(r, swaps) == TotalSol(r.seen, swaps)
Flow(r) == SolIn(r, DOMAIN r.seen)
BuyersIn(r, window) == WalletsAt(r.seen, BuysAmong(r, SeenIn(r, window)))
RootsOf(outcome, wallets) == {ResolveAs(outcome, w).root : w \in wallets}

\* Three buyers with funders of their own in the last minute, and less sold than
\* bought: in all, and in that minute if anything was traded in it and the sell
\* history has not given up any of the sells.
SupportsBUY(r) ==
    LET all == DOMAIN r.seen
        traded == SeenIn(r, Minute)
        sold == all \ BuysAmong(r, all)
    IN  /\ Cardinality(RootsOf(r.funding.first, BuyersIn(r, Minute))) >= 3
        /\ 2 * SolIn(r, BuysAmong(r, all)) > Flow(r)
        /\ Cardinality(sold) <= SellCap /\ SolIn(r, traded) > 0
             => 2 * SolIn(r, BuysAmong(r, traded)) > SolIn(r, traded)

\* Five buyers with funders of their own in the last five minutes.
SupportsREADY(r) ==
    Cardinality(RootsOf(r.funding.second, BuyersIn(r, 5 * Minute))) >= 5

\* `sold` costs at most `share` percent of the pool, or of the flow for want of one.
SaleFitsIn(r, sold, share) == 100 * sold <= share * IF r.depth > 0 THEN r.depth ELSE Flow(r)

\* Only a row its token's history supports is actionable: a BUY by the last
\* minute's buyers, a READY by those of five minutes (or by a BUY the gates
\* lowered), with a resolver that worked, and with liquidity to sell into.  With a
\* depth that is not zero, and with none known, that is 25 SOL for at most 5%.  Of
\* a pool read as empty the gates ask nothing, and the observed flow stands in for
\* it: all that holds then is 1 SOL for at most 15% of the flow.  That such a row is
\* actionable at all is the subject of DrainedPoolNotActionable.
ActionableIsSupported ==
    \A i \in DOMAIN rows :
        LET r == rows[i]
        IN  r.actionable =>
            /\ r.funding.healthy
            /\ SupportsBUY(r) \/ (r.label = "READY" /\ SupportsREADY(r))
            /\ IF r.depth # 0 THEN SaleFitsIn(r, 25 * SOL, 5) ELSE SaleFitsIn(r, SOL, 15)

\* A wallet that bought and sold the same amount time and again, and kept
\* nothing, all within the ten minutes whose trades are looked at.
RoundTripper(r, w) ==
    LET evs == InTimeOrder(By(r.seen, w))
    IN  /\ \A i \in DOMAIN evs : evs[i].at >= r.last - TradeWindow
        /\ Cardinality(Flips(evs, FALSE)) >= 3 /\ NetQty(evs) = 0

NoRoundTrips(r) == \A w \in Wallets(r.seen) : ~RoundTripper(r, w)

\* What the store was told of a token's buys is all still there.
AllBuysKept(r) == Cardinality(BuysAmong(r, DOMAIN r.seen)) <= BuyCap

\* Verified depth of 5 SOL, with five buyers of five minutes or an inferred launch;
\* or an inferred launch with as much flow, where the depth is not known or where the
\* pool was read as empty, which the code takes for not known.  Buyers whose lookup
\* failed count as funded each by itself.
RunnerLiquidity(r) ==
    \/ /\ r.depth >= 5 * SOL
       /\ \/ Cardinality(RootsOf(r.funding.second, BuyersIn(r, 5 * Minute))) >= 5
          \/ r.mint \in PumpMint
    \/ r.depth <= 0 /\ r.mint \in PumpMint /\ Flow(r) >= 5 * SOL

\* Not every lookup of the last minute's buyers failed.  Nothing is asked when the
\* last minute had no buyer, however the lookups of the five minutes went, nor when
\* the buy history has given up buys.
RunnerLookups(r) ==
    AllBuysKept(r) /\ BuyersIn(r, Minute) # {} => r.funding.first # "failed"

\* No launch of a token first traded more than half an hour ago.
RunnerAge(r) ==
    r.asOf - Min({r.seen[k].at : k \in DOMAIN r.seen}) > 30 * Minute
        => r.auth.subtype # "LAUNCH_RUNNER"

\* Wallets that hold something of a token, by its history.
HeldBy(r, w) ==
    TotalQty(r.seen, SwapsBy(r.seen, w, TRUE)) - TotalQty(r.seen, SwapsBy(r.seen, w, FALSE))
HoldersOf(r) == {w \in Wallet : HeldBy(r, w) > 0}

\* Ten holders, no ten of whom have 85% of what is held, verified depth of 5 SOL
\* or more, and at a launch no failed lookup among the last minute's buyers.
WowEvidence(r) ==
    LET held == [w \in Wallet |-> HeldBy(r, w)]
        holders == HoldersOf(r)
        whole == SumFunctionOnSet(held, holders)
    IN  /\ r.depth >= 5 * SOL
        /\ Cardinality(holders) >= 10
        /\ \A S \in kSubset(10, holders) : 100 * SumFunctionOnSet(held, S) < 85 * whole
        /\ r.setup.mode = "LAUNCH_WOW" /\ AllBuysKept(r) =>
             \A w \in BuyersIn(r, Minute) : ~ResolveAs(r.funding.first, w).failed

\* "RUNNER requires clustering not full_fallback"
\* (docs/research_backed_authenticity_layer.md), "A token cannot be classified WOW
\* if it shows ..." (docs/wow_spec.md): the token's history carries the liquidity,
\* the lookups and the age of a RUNNER, as far as stated above, and the depth, the
\* holders and the lookups of a WOW; even when the store changed between the
\* collection of a row and its scoring.
HighVerdictIsEvidenced ==
    \A i \in DOMAIN rows :
        LET r == rows[i]
        IN  /\ r.proxy.band = "RUNNER" => RunnerLiquidity(r) /\ RunnerLookups(r) /\ RunnerAge(r)
            /\ IsWOW(r.setup.mode) => WowEvidence(r)

\* "RUNNER requires no bundle bot and no bump bot" (the same document): neither a
\* RUNNER nor a WOW has a wallet of round trips in its history, as long as the store
\* had room for every trade it was told of; those beyond the cap are not looked at.
NoHighVerdictOnRoundTrips ==
    \A i \in DOMAIN rows :
        /\ rows[i].proxy.band = "RUNNER" \/ IsWOW(rows[i].setup.mode)
        /\ Len(rows[i].seen) <= TradeCap
        => NoRoundTrips(rows[i])

\* "bestPriorityMint" (docs/hero_staleness_audit.md): an answer leads with one
\* row if any is not expired, that row is not expired and no other unexpired row
\* has higher confidence, and the quality tier RUNNER is its alone.
BestIsUnbeaten ==
    LET led == {i \in DOMAIN rows : rows[i].priority = "best_on_tape"}
        live == {i \in DOMAIN rows : rows[i].state # "expired"}
    IN  /\ Cardinality(led) = (IF live = {} THEN 0 ELSE 1)
        /\ \A b \in led : b \in live /\ \A i \in live : rows[i].confidence <= rows[b].confidence
        /\ {i \in DOMAIN rows : rows[i].tier = "RUNNER"} \subseteq led

\* The row's token with a verified depth of d.
AtDepth(r, d) == [pool |-> d, depth |-> d, reliable |-> TRUE] ++ r

\* Of the same token at the same moment, a pool verified to hold more than what the
\* row was judged by, a verified depth or the flow where none is known, is never
\* judged worse: not by the label, and not by any of the gates.  A liquidity of
\* zero is not compared: the gates skip it, and the label is given without them, so
\* from there a deeper pool may well be judged worse (DrainedPoolNotActionable).
DeeperPoolNoWorse ==
    \A i \in DOMAIN rows : \A d \in Depth :
        LET r == rows[i]
            deeper == Decided(AtDepth(r, d), r.asOf, r.funding)
        IN  r.pool > 0 /\ d > r.pool =>
            /\ LabelRank[deeper.label] >= LabelRank[r.label]
            /\ \A g \in DOMAIN r.engine.gates :
                 deeper.engine.gates[g] = "failed" => r.engine.gates[g] = "failed"

\* "real_pool_depth_sol >= 0 -> verified" (docs/wow_spec.md) and "Use on-chain real
\* depth when available; fall back to observed swap-flow proxy." (ClassifyAt): a pool
\* verified as empty is judged as one, by an execution quality of zero, so its
\* token is not actionable.
DrainedPoolNotActionable ==
    \A i \in DOMAIN rows : rows[i].depth = 0 => ~rows[i].actionable
=============================================================================
