------------------------------ MODULE Snapshots ------------------------------
(***************************************************************************)
(* What a reader of the live store sees (internal/state/store.go): the     *)
(* snapshot of a token that deriveSnapshot computes under the read lock,   *)
(* the list of recent tokens, and the trades of a token.  Amounts are in   *)
(* hundredths of a SOL, shares in basis points, time in seconds.           *)
(***************************************************************************)
EXTENDS SwapStore, TradeShape

CONSTANT PumpMint  \* the mints whose events carry Pump.fun evidence

ASSUME SnapshotsAssumption == PumpMint \subseteq Mint

Minute == 60
Hour == 3600

\* Positions of the events strictly younger than `window` at time `at`: the whole
\* history is scanned, as deliveries are out of order.
Within(history, window, at) == {i \in DOMAIN history : history[i].at > at - window}

\* Buys between one and two minutes ago.
PriorMinute(history, at) == Within(history, 2 * Minute, at) \ Within(history, Minute, at)

WalletsAt(history, swaps) == {history[i].wallet : i \in swaps}

\* Per ten thousand buyers of the minute before; 0 without a base to compare with.
BuyerAcceleration(buys, at) ==
    Bp(Cardinality(WalletsAt(buys, Within(buys, Minute, at))),
       Cardinality(WalletsAt(buys, PriorMinute(buys, at))))

\* Of some of the buys, the share of the wallet that spent most.
TopWalletBuyShare(buys, swaps) ==
    LET spentBy(w) == TotalSol(buys, {i \in swaps : buys[i].wallet = w})
    IN  Bp(Max({spentBy(w) : w \in WalletsAt(buys, swaps)} \cup {0}), TotalSol(buys, swaps))

WalletDiversityRatio(buys, swaps) ==
    IF swaps = {} THEN 10000 ELSE Bp(Cardinality(WalletsAt(buys, swaps)), Cardinality(swaps))

\* The share of the last minute's buyers who bought in the minute before too.
RepeatBuyerShare(buys, at) ==
    LET recent == WalletsAt(buys, Within(buys, Minute, at))
    IN  Bp(Cardinality(recent \cap WalletsAt(buys, PriorMinute(buys, at))), Cardinality(recent))

TotalBuySOL(t) == SumFunction(t.spent)
TotalSellSOL(t) == SumFunction(t.earned)
UniqueBuyers(t) == {w \in Wallet : t.firstBuy[w] # Never}

\* Last price times the tokens still held; 0 when either is not known.
MarketCap(t) ==
    LET held == SumFunction([w \in Wallet |-> Most(t.net[w], 0)])
    IN  IF t.price = <<>> THEN 0 ELSE (t.price[1] * held) \div t.price[2]

\* Volume of the first 24 hours: exact for a younger token, and for an older
\* one what the bounded histories still hold.
Volume24h(t, at) ==
    LET firstDay(history) ==
            TotalSol(history, {i \in DOMAIN history : history[i].at < t.first + 24 * Hour})
    IN  IF at < t.first + 24 * Hour THEN TotalBuySOL(t) + TotalSellSOL(t)
        ELSE firstDay(t.buys) + firstDay(t.sells)

\* A launch is never exact, the store captures no create event: it is inferred
\* for a Pump.fun token first observed within a minute of its first event.
LaunchSource(mint, t) ==
    IF mint \in PumpMint /\ t.observed - t.first <= Minute THEN "pump_fun_first_seen" ELSE "unknown"

\* Verified on-chain depth, or else the flow of the swaps observed.
PoolOf(t) == IF t.depth >= 0 THEN t.depth ELSE TotalBuySOL(t) + TotalSellSOL(t)

-----------------------------------------------------------------------------
(* The inputs of the offline score for a live token.                       *)

ShadowWindow == 35 * Minute

ShadowRequired ==
    {"cohort_buyer_count", "mfe_multiple_30m", "buy_sol_0_35m", "sell_sol_0_35m",
     "sell_trade_count_5to35m", "sell_unique_traders_5to35m", "manipulation_risk_score",
     "first_minute_share", "sniper_intensity_ratio", "size_diversity_ratio",
     "wallets_that_exited", "median_realized_return", "wallets_gt_25pct", "winner_exit_ratio"}

\* What the bounded histories can tell once the window is over, and only while
\* no history has reached its bound.
ShadowObserved(t, at) ==
    IF at < t.first + ShadowWindow \/ Len(t.buys) >= BuyCap \/ Len(t.sells) >= SellCap THEN {}
    ELSE {"buy_sol_0_35m", "sell_sol_0_35m", "sell_trade_count_5to35m",
          "sell_unique_traders_5to35m", "wallets_that_exited", "wallets_gt_25pct",
          "median_realized_return"}
         \cup (IF \E i \in DOMAIN t.sells : t.sells[i].at <= t.first + ShadowWindow
               THEN {"winner_exit_ratio"} ELSE {})

\* Scored only with the window over and nothing missing.
Shadow(t, at) ==
    LET missing == ShadowRequired \ ShadowObserved(t, at)
        complete == at >= t.first + ShadowWindow
    IN  [complete |-> complete, missing |-> missing, eligible |-> complete /\ missing = {}]

-----------------------------------------------------------------------------

\* deriveSnapshot.
SnapshotOf(mint, t, at) ==
    LET last1m == Within(t.buys, Minute, at)
        last5m == Within(t.buys, 5 * Minute, at)
    IN  [mint |-> mint, age |-> Most(at - t.first, 0), first |-> t.first, last |-> t.last,
         firstSlot |-> SlotOf(t.first),
         pump |-> mint \in PumpMint, launchSource |-> LaunchSource(mint, t),
         uniqueBuyers |-> Cardinality(UniqueBuyers(t)), events |-> t.total,
         totalBuy |-> TotalBuySOL(t), totalSell |-> TotalSellSOL(t),
         wallets1m |-> WalletsAt(t.buys, last1m), wallets5m |-> WalletsAt(t.buys, last5m),
         accel |-> BuyerAcceleration(t.buys, at),
         topShare |-> TopWalletBuyShare(t.buys, last5m),
         diversity |-> WalletDiversityRatio(t.buys, last5m),
         repeat |-> RepeatBuyerShare(t.buys, at),
         buy1m |-> TotalSol(t.buys, last1m),
         sell1m |-> TotalSol(t.sells, Within(t.sells, Minute, at)),
         pool |-> PoolOf(t), depth |-> t.depth, reliable |-> t.depth >= 0,
         vol24h |-> Volume24h(t, at), mcap |-> MarketCap(t), priced |-> t.price # <<>>,
         top10 |-> Top10HolderPct(t.net), holders |-> CountHolders(t.net),
         winners |-> t.winners, holders30 |-> t.holders30, holders60 |-> t.holders60,
         shadow |-> Shadow(t, at), trades |-> t.trades]

\* RecentTokens: the most recently active first; equals in any order.
RecentTokens(window) ==
    LET recent == {mint \in Mint : Live(mint) /\ tokens[mint].last > now - window}
        snaps == {SnapshotOf(mint, tokens[mint], now) : mint \in recent}
    IN  {s \in [1 .. Cardinality(snaps) -> snaps] :
            /\ IsInjective(s)
            /\ \A i \in 1 .. Cardinality(snaps) - 1 : s[i].last >= s[i + 1].last}

\* Reads of one token by a later caller: nothing when the store forgot it.
TradesOf(mint) == IF Live(mint) THEN tokens[mint].trades ELSE <<>>

GetBuyEvents(mint, window) ==
    SelectSeq(TradesOf(mint), LAMBDA ev : ev.isBuy /\ ev.at >= now - window)
=============================================================================
