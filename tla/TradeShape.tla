------------------------------ MODULE TradeShape ------------------------------
(***************************************************************************)
(* What the shape of a token's recent trades says about who is trading:    *)
(* AnalyzeAuthenticity (internal/proxy/authenticity.go), whose verdicts    *)
(* feed the early proxy, and Detect (internal/authenticity/detector.go),   *)
(* whose verdicts feed the setup.  The two judge independently, with other *)
(* thresholds.  A trade is [wallet, isBuy, at, sol, qty].  creatorWallet   *)
(* and the creation block are never known to the store, so no buyer is     *)
(* excused as the creator.                                                 *)
(***************************************************************************)
EXTENDS Gates

\* Slots go by at 400 ms.
SlotOf(at) == (at * 5) \div 2

InTimeOrder(trades) == SortSeq(trades, LAMBDA a, b : a.at < b.at)
Buys(trades) == SelectSeq(trades, LAMBDA ev : ev.isBuy)
By(trades, w) == SelectSeq(trades, LAMBDA ev : ev.wallet = w)
Wallets(trades) == {trades[i].wallet : i \in DOMAIN trades}
SolOf(trades) == TotalOf(LAMBDA ev : ev.sol, trades)
SignedQty(ev) == IF ev.isBuy THEN ev.qty ELSE -ev.qty
NetQty(trades) == Abs(TotalOf(SignedQty, trades))
MaxQty(trades) == Max({trades[i].qty : i \in DOMAIN trades} \cup {0})

\* |a - b| is at most pct percent of the larger of the two.
NearSame(a, b, pct) == Most(a, b) > 0 /\ Abs(a - b) * 100 <= pct * Most(a, b)

NearMultiple(v, target, tol) == Least(v % target, target - (v % target)) <= tol

\* The coefficient of variation of xs, of which there are at least four, is below
\* 0.40.  The second conjunct follows from the third, and keeps TLC's integers in
\* their range.
Regular(xs) ==
    LET sum == TotalOf(LAMBDA x : x, xs)
    IN  /\ sum > 0
        /\ \A i \in DOMAIN xs : 100 * xs[i] <= 54 * sum
        /\ 100 * Len(xs) * TotalOf(LAMBDA x : x * x, xs) < 116 * sum * sum

Gaps(trades) == [i \in 1 .. Len(trades) - 1 |-> trades[i + 1].at - trades[i].at]

\* Positions where a wallet turns from buying to selling or back with the same
\* amount: of tokens, or of SOL when `bySol` and a token amount is missing.
Flips(evs, bySol) ==
    {i \in 2 .. Len(evs) :
        LET a == evs[i - 1]  b == evs[i]
        IN  /\ a.isBuy # b.isBuy
            /\ \/ NearSame(a.qty, b.qty, 1)
               \/ bySol /\ 0 \in {a.qty, b.qty} /\ NearSame(a.sol, b.sol, 3)}

-----------------------------------------------------------------------------
(* AnalyzeAuthenticity.                                                    *)

\* The bug of guarding the division by the tokens left: none left, nothing found.
BumpsOfAPosition(evs) ==
    LET flips == Cardinality(Flips(evs, TRUE))
    IN  NetQty(evs) > 0 /\ flips >= 50 * NetQty(evs)

\* bumpDetect: enough flips for the tokens the wallet is left with.  With
\* nothing left a single flip is enough.
Bumps(evs) ==
    LET flips == Cardinality(Flips(evs, TRUE))
    IN  /\ flips > 0
        /\ \/ flips >= 50 * NetQty(evs)
           \/ flips >= 3 /\ 20 * NetQty(evs) <= MaxQty(evs)

BumpWallets(events) == {w \in Wallets(events) : Bumps(By(events, w))}

\* Buys are in slots up to that of first sight plus five.
EarlyBuys(s, events) ==
    SelectSeq(events, LAMBDA ev : ev.isBuy /\ SlotOf(ev.at) <= s.firstSlot + 5)

BundleBot(s, events) ==
    Cardinality(Wallets(SelectSeq(Buys(events), LAMBDA ev : SlotOf(ev.at) = s.firstSlot))) >= 2

SniperShare(s, events) == IF SolOf(EarlyBuys(s, events)) > 0 THEN 10000 ELSE 0

RepeatedSizes(buys) ==
    \E i \in DOMAIN buys :
        10 * Cardinality({j \in DOMAIN buys : NearSame(buys[i].sol, buys[j].sol, 10)})
            >= 6 * Len(buys)

Cycles(events) ==
    {i \in 2 .. Len(events) : /\ events[i].isBuy # events[i - 1].isBuy
                              /\ events[i].wallet = events[i - 1].wallet}

FlowConcentrated(events) ==
    Len(events) >= 6 /\ \E w \in Wallets(events) :
        SolOf(By(events, w)) > 0 /\ 100 * SolOf(By(events, w)) >= 55 * SolOf(events)

\* mechanicalDetect's findings, each worth points of mechanicality.
Mechanical(events) ==
    LET buys == Buys(events)
        gaps == SelectSeq(Gaps(buys), LAMBDA d : d > 0)
        aligned == SelectSeq(gaps, LAMBDA d : NearMultiple(d, 30, 3) \/ NearMultiple(d, 60, 4))
        many == Len(buys) >= 5
    IN  Matches({<<many /\ Len(gaps) >= 4 /\ Regular(gaps), "regular interval buys">>,
                 <<many /\ Len(gaps) > 0 /\ 2 * Len(aligned) >= Len(gaps), "round-clock aligned buys">>,
                 <<many /\ RepeatedSizes(buys), "repeated identical buy sizes">>,
                 <<Cardinality(Cycles(events)) >= 3, "structured sell-buy cycle">>,
                 <<FlowConcentrated(events), "concentrated wallet flow">>})

IntervalFlags == {"regular interval buys", "structured sell-buy cycle", "repeated identical buy sizes"}

MechanicalPoints ==
    [flag \in IntervalFlags \cup {"round-clock aligned buys", "concentrated wallet flow"} |->
        CASE flag \in {"regular interval buys", "structured sell-buy cycle"} -> 30
          [] flag = "repeated identical buy sizes" -> 25
          [] OTHER -> 20]

Mechanicality(s, events) ==
    Least(100, SumFunctionOnSet(MechanicalPoints, Mechanical(events))
                 + IF s.clusterRatio >= 50 * Percent THEN 15 ELSE 0)

BotFlags(s, events) ==
    Matches({<<BundleBot(s, events), "approximate_bundle_bot">>,
             <<EarlyBuys(s, events) # <<>> /\ SniperShare(s, events) >= 70 * Percent, "high sniper share">>,
             <<EarlyBuys(s, events) # <<>> /\ SniperShare(s, events) < 70 * Percent, "sniper buys near first_seen_slot">>,
             <<BumpWallets(events) # {}, "bump bot buy/sell flips">>})
    \cup Mechanical(events)

AuthenticityLabel(mechanicality, bumped, flags) ==
    FirstMatch(<< <<mechanicality >= 70 \/ bumped, "bot_like">>,
                  <<mechanicality >= 40, "mechanical">>,
                  <<flags # {}, "mixed">> >>, "organic")

PerTrade(evs) == SolOf(evs) \div Most(Len(evs), 1)

VelocityLabel(raw, organic, steady) ==
    FirstMatch(<< <<steady /\ organic >= 3 * SOL, "exceptional">>,
                  <<steady /\ organic >= SOL, "strong">>,
                  <<raw * 5 >= SOL, "normal">> >>, "weak")

VelocityOf(recent, organic) ==
    [raw |-> PerTrade(recent), organic |-> PerTrade(organic),
     perBuyer |-> SolOf(recent) \div Most(Cardinality(Wallets(recent)), 1),
     label |-> VelocityLabel(PerTrade(recent), PerTrade(organic), Len(organic) >= 3)]

OrganicOf(recent, bumpers, label) ==
    IF label = "bot_like" THEN <<>> ELSE SelectSeq(recent, LAMBDA ev : ev.wallet \notin bumpers)

RecentBuys(s, events) == SelectSeq(Buys(events), LAMBDA ev : ev.at >= s.last - 300)

\* SOL per buy of the last five minutes, of all buys and of those not by bots.
LiquidityVelocity(s, events, label) ==
    VelocityOf(RecentBuys(s, events),
               OrganicOf(RecentBuys(s, events), BumpWallets(events), label))

SignalMode(s) ==
    FirstMatch(<< <<s.launchSource # "unknown" \/ s.bondingState, "launch_bonding">>,
                  <<s.age > 1800 /\ s.reliable, "migrated_amm_momentum">>,
                  <<s.age > 1800, "revival_existing_token">> >>, "unknown")

RunnerSubtype(mode) ==
    FirstMatch(<< <<mode = "launch_bonding", "LAUNCH_RUNNER">>,
                  <<mode = "revival_existing_token", "REVIVAL_RUNNER">>,
                  <<mode = "migrated_amm_momentum", "AMM_MOMENTUM_RUNNER">> >>, "WATCH")

WhyNotWOW(a) ==
    FirstMatch(<< <<a.bump, "bump bot">>, <<a.bundle, "bundle bot">>,
                  <<a.label = "bot_like", "bot-like">>,
                  <<a.flags \cap IntervalFlags # {}, "mechanical interval buying">>,
                  <<a.mode # "launch_bonding" /\ a.old, "revival, not launch">>,
                  <<a.velocity.label = "weak", "organic liquidity velocity weak">> >>, "")

OperatorAction(a) ==
    FirstMatch(<< <<a.bump \/ a.bundle \/ a.label = "bot_like", "AVOID">>,
                  <<a.flags \cap IntervalFlags # {}, "WATCH_AUTHENTICITY">>,
                  <<a.mode = "unknown" \/ a.velocity.label = "weak", "WATCH">> >>, "WATCH_RUNNER")

\* What the trades show by themselves, then the label, the velocity by that
\* label, and what the operator is told.  With no trades to look at nothing is
\* detected and the operator waits.
TradeFindings(s, events) ==
    [bundle |-> BundleBot(s, events), bump |-> BumpWallets(events) # {},
     sniper |-> EarlyBuys(s, events) # <<>>, sniperShare |-> SniperShare(s, events),
     flags |-> BotFlags(s, events),
     mechanicality |-> IF events = <<>> THEN 0 ELSE Mechanicality(s, events),
     mode |-> SignalMode(s), old |-> s.age > 1800]

Labelled(a) ==
    [label |-> AuthenticityLabel(a.mechanicality, a.bump, a.flags), subtype |-> RunnerSubtype(a.mode)] ++ a

WithVelocity(s, events, a) == [velocity |-> LiquidityVelocity(s, events, a.label)] ++ a

Concluded(events, a) ==
    [whyNotWOW |-> IF events = <<>> THEN "insufficient trade history" ELSE WhyNotWOW(a),
     action |-> IF events = <<>> THEN "WAIT" ELSE OperatorAction(a)] ++ a

AnalyzeTrades(s, events) == Concluded(events, WithVelocity(s, events, Labelled(TradeFindings(s, events))))

AnalyzeAuthenticity(s) == AnalyzeTrades(s, InTimeOrder(s.trades))

-----------------------------------------------------------------------------
(* Detect.  The creation block is always 0, so evidence of bundles and     *)
(* snipers is unavailable, and never found.                                *)

\* Flips without the fallback to SOL, over tokens left plus one.
IsBumpBot(evs) == Cardinality(Flips(evs, FALSE)) >= 50 * (NetQty(evs) + 1)

MechanicalRhythm(buys) == Len(buys) >= 8 /\ Regular(Gaps(InTimeOrder(buys)))

\* At least 60% of the amounts are within 10% of their median.
IdenticalBuySizes(buys) ==
    LET amounts == SortSeq(SelectSeq([i \in DOMAIN buys |-> buys[i].sol], LAMBDA a : a > 0), <)
        k == Len(amounts)
        twiceMedian == amounts[(k + 1) \div 2] + amounts[k \div 2 + 1]
        near == {i \in DOMAIN amounts : Abs(2 * amounts[i] - twiceMedian) * 10 <= twiceMedian}
    IN  k >= 5 /\ 10 * Cardinality(near) >= 6 * k

\* `known` is false when the store had forgotten the token by the time its
\* wallets' events were read.
Detect(s, buys, trades, known) ==
    LET bump == known /\ \E w \in Wallets(trades) : IsBumpBot(InTimeOrder(By(trades, w)))
        rhythm == MechanicalRhythm(buys)
        identical == IdenticalBuySizes(buys)
        flagged == \/ bump \/ ~known \/ s.clustering # "resolved" \/ s.top10 >= 95 * Percent
        base == 100 - (IF bump THEN 40 ELSE 0) - (IF rhythm THEN 30 ELSE 0)
                    - (IF identical THEN 20 ELSE 0)
    IN  [bump |-> bump, rhythm |-> rhythm, identical |-> identical,
         score |-> IF known THEN base ELSE Least(base, 70),
         severity |-> FirstMatch(<< <<bump /\ rhythm, "high">>,
                                    <<rhythm \/ identical, "medium">>,
                                    <<flagged, "low">> >>, "none")]
=============================================================================
