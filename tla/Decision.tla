------------------------------- MODULE Decision -------------------------------
(***************************************************************************)
(* The live decision (internal/live/decision.go) with the thresholds of    *)
(* DefaultLiveConfig: ClassifyAt labels one snapshot, and                  *)
(* AssignPriorityLabels ranks the rows of one answer.  A decision is added *)
(* to the fields of its snapshot.  Reasons are wording and left out; the   *)
(* texts the operator reads are kept as short names of their cases.        *)
(***************************************************************************)
EXTENDS Snapshots

LiveConfig ==
    [trade |-> 1 * SOL, multiplier |-> 20,
     buyers1mBUY |-> 3, accelBUY |-> 10000, strongVelocity |-> 8, execBUY |-> 10 * SOL,
     buyers5mREADY |-> 5, execREADY |-> 6 * SOL, buyersWATCH |-> 3, execAVOID |-> 2 * SOL,
     advBUY |-> 60 * Percent, advREADY |-> 75 * Percent, maxImpact |-> 15 * Percent,
     freshFor |-> 5 * Minute, coolingFor |-> 15 * Minute,
     warmAge |-> 90, confidentBuyers |-> 3, warmEvents |-> 3]

\* ExecutionPenalty: 0 to 1 in the code, here the liquidity it is a share of.
ExecutionPenalty(liq) == Least(liq, LiveConfig.multiplier * LiveConfig.trade)

\* Nothing observed counts as no impact.
EstimatedImpact(liq) == IF liq <= 0 THEN 0 ELSE Least(10000, Bp(LiveConfig.trade, liq))

AdversarialScore(s) ==
    (45 * Least(10000, 2 * s.topShare) + 30 * (10000 - s.diversity) + 25 * s.repeat) \div 100

-----------------------------------------------------------------------------
(* Effective buyers.  `resolve` maps a wallet to the root it is counted    *)
(* under and to whether its lookup failed; a wallet whose lookup failed is *)
(* its own root.                                                           *)

Cluster(wallets, resolve) ==
    LET raw == Cardinality(wallets)
        eff == Cardinality({resolve[w].root : w \in wallets})
    IN  [raw |-> raw, eff |-> eff, ratio |-> Bp(raw - eff, raw),
         fallbacks |-> Cardinality({w \in wallets : resolve[w].failed})]

ClusteringRowStatus(c) ==
    FirstMatch(<< <<c.fallbacks = 0, "resolved">>, <<c.fallbacks >= c.raw, "full_fallback">> >>,
               "partial_fallback")

-----------------------------------------------------------------------------
(* ClassifyAt.                                                             *)

\* On-chain depth when it is verified and not zero, else the observed flow.
LiquidityProxy(s) ==
    IF s.reliable /\ s.pool > 0 THEN [sol |-> s.pool, reliable |-> TRUE]
    ELSE [sol |-> s.totalBuy + s.totalSell, reliable |-> FALSE]

IsWarmingUp(s) ==
    \/ s.age < LiveConfig.warmAge
    \/ s.events > 0 /\ s.events < LiveConfig.warmEvents

\* The bug of not asking whether the last minute turned to selling.
CheckBUYWithoutReversal(s, d) ==
    /\ ~d.warmingUp /\ d.eff1m >= LiveConfig.buyers1mBUY
    /\ d.exec >= LiveConfig.execBUY /\ s.totalBuy > s.totalSell
    /\ d.adversarial <= LiveConfig.advBUY

CheckBUY(s, d) ==
    /\ ~d.warmingUp
    /\ d.eff1m >= LiveConfig.buyers1mBUY
    /\ s.accel >= LiveConfig.accelBUY \/ d.eff1m >= LiveConfig.strongVelocity
    /\ d.exec >= LiveConfig.execBUY
    /\ s.totalBuy > s.totalSell
    /\ d.adversarial <= LiveConfig.advBUY
    /\ s.buy1m + s.sell1m = 0 \/ s.sell1m < s.buy1m

CheckREADY(s, d) ==
    /\ d.eff5m >= LiveConfig.buyers5mREADY
    /\ d.exec >= LiveConfig.execREADY
    /\ d.adversarial <= LiveConfig.advREADY

CheckWATCH(s) == s.uniqueBuyers >= LiveConfig.buyersWATCH

LabelRank == [AVOID |-> 0, WATCH |-> 1, READY |-> 2, BUY |-> 3]

\* The gates lower a label, never raise it; "" is no ceiling.
ApplyLabelCeiling(label, ceiling) ==
    IF ceiling # "" /\ LabelRank[label] > LabelRank[ceiling] THEN ceiling ELSE label

\* Execution comes first, then the clustering backend (whose absence leaves
\* WATCH, whatever the gates say), then Layer 0, the checks and the gates.
Label(s, d, healthy) ==
    FirstMatch(<<
        <<d.exec < LiveConfig.execAVOID, "AVOID">>,
        <<d.impact > LiveConfig.maxImpact, "AVOID">>,
        <<~healthy, IF CheckWATCH(s) THEN "WATCH" ELSE "AVOID">>,
        <<d.engine.layer0 # "none", "AVOID">> >>,
        ApplyLabelCeiling(
            FirstMatch(<< <<CheckBUY(s, d), "BUY">>, <<CheckREADY(s, d), "READY">>,
                          <<CheckWATCH(s), "WATCH">> >>, "AVOID"),
            d.engine.maxLabel))

\* In hundredths of a point.
ComputeConfidence(s, d) ==
    LET short(have, need, points) == (Most(need - have, 0) * points * 100) \div need
        raw == 10000 - short(s.age, LiveConfig.warmAge, 25)
                 - (IF s.events > 0 THEN short(s.events, LiveConfig.warmEvents, 20) ELSE 0)
                 - short(d.eff1m, LiveConfig.confidentBuyers, 20)
                 - d.adversarial \div 5
                 - Clamp((d.impact - 500) \div 2, 0, 1500)
                 - (d.clusterRatio * 15) \div 100
        clamped == Clamp(raw, 0, 10000)
    IN  IF d.engine.scoreCap > 0 THEN Least(clamped, d.engine.scoreCap) ELSE clamped

\* The lifecycle looks for "self-bundl" or "hard rug"; the engine's reasons are
\* "self_bundled" and "impossible_execution".
TerminalLifecycleReject(d) == d.engine.layer0 \in {"self-bundled", "hard rug"}

SignalState(s, d, silence) ==
    FirstMatch(<< <<TerminalLifecycleReject(d), "expired">>,
                  <<s.age < 5 * Minute, "forming">>,
                  <<silence <= LiveConfig.freshFor, "active">>,
                  <<silence <= LiveConfig.coolingFor, "cooling">> >>, "expired")

IsActionable(label, state, silence) ==
    label \in {"BUY", "READY"} /\ state # "expired" /\ silence <= LiveConfig.freshFor

Measured(s, healthy, liq, c1, c5) ==
    [liq |-> liq.sol, reliable |-> liq.reliable, exec |-> ExecutionPenalty(liq.sol),
     source |-> IF liq.reliable THEN "raydium_wsol_vault" ELSE "observed_swaps_proxy",
     impact |-> EstimatedImpact(liq.sol), adversarial |-> AdversarialScore(s),
     buyers1m |-> c1.raw, buyers5m |-> c5.raw, eff1m |-> c1.eff, eff5m |-> c5.eff,
     clusterRatio |-> c1.ratio, compression |-> Most(c1.ratio, c5.ratio),
     clustering |-> ClusteringRowStatus(c1), healthy |-> healthy,
     warmingUp |-> IsWarmingUp(s), engine |-> EvaluateGates(s, c1.ratio)]

WithLabel(s, at, d) ==
    [label |-> Label(s, d, d.healthy), state |-> SignalState(s, d, Most(at - s.last, 0)),
     asOf |-> at, confidence |-> ComputeConfidence(s, d)] ++ d

WithActionable(s, d) ==
    [actionable |-> IsActionable(d.label, d.state, Most(d.asOf - s.last, 0))] ++ d

\* The row of snapshot s at time `at`: `healthy` is the resolver's health, and
\* the buyers of each window are resolved in a pass of its own.
ClassifyAt(s, at, healthy, resolve1m, resolve5m) ==
    WithActionable(s,
        WithLabel(s, at, Measured(s, healthy, LiquidityProxy(s), Cluster(s.wallets1m, resolve1m),
                                  Cluster(s.wallets5m, resolve5m)))) ++ s

-----------------------------------------------------------------------------
(* What the operator reads of a row r.                                     *)

Rejected(r) == r.engine.layer0 # "none"
Thin(r) == r.liq < 5 * SOL
Concentrated(r) == r.top10 >= 85 * Percent

\* Up to the first three of these.
WhyNow(r) ==
    LET said == SelectSeq(<<
            <<r.eff1m > 0, "eff buyers /1m">>, <<r.eff5m > 0, "eff buyers /5m">>,
            <<r.clustering = "resolved", "clean clustering">>, <<r.holders > 0, "holders">>,
            <<r.priced /\ r.mcap > 0, "priced structure">>,
            <<r.adversarial \in 1 .. 20 * Percent, "low adversarial">>,
            <<r.impact \in 1 .. 15 * Percent, "low impact">> >>, LAMBDA p : p[1])
    IN  {said[i][2] : i \in 1 .. Least(3, Len(said))}

\* Shown as WhyNotHigher too.
DominantBlocker(r) ==
    FirstMatch(<< <<r.engine.layer0 = "impossible_execution", "impossible execution">>,
                  <<r.clustering = "full_fallback", "full fallback">>,
                  <<r.clustering = "partial_fallback", "partial fallback">>,
                  <<r.mcap = 0, "no holder proxy">>,
                  <<Concentrated(r), "concentration">>,
                  <<r.impact > 15 * Percent, "observed liq proxy weak">>,
                  <<r.eff5m < 5, "too few effective buyers">> >>, "structural weakness")

OperatorVerdict(r) ==
    FirstMatch(<< <<Rejected(r), "structurally broken">>,
                  <<r.mcap = 0, "clean-ish but incomplete">>,
                  <<r.clustering # "resolved", "watchable, not trustworthy">>,
                  <<Concentrated(r), "sizeable but concentrated">>,
                  <<r.holders > 0 /\ r.eff5m > 5, "clean-ish but immature">> >>,
               "low-confidence setup")

\* BuildHistoricalAnalogueSummary, and the band that goes with it.
HistoricalAnalogue(r) ==
    FirstMatch(<< <<Rejected(r) \/ Thin(r), "failed early-interest">>,
                  <<r.mcap = 0, "incomplete structure">>,
                  <<r.clustering # "resolved", "compromised flow">>,
                  <<Concentrated(r), "concentrated launches">> >>, "monitorable early structure")

HistoricalTimeToOutcome(r) ==
    FirstMatch(<< <<Rejected(r) \/ Thin(r), "decided quickly">>,
                  <<r.mcap = 0, "until holder structure appears">>,
                  <<r.clustering # "resolved", "next buyer-quality cycle">> >>,
               "next few buyer-quality refreshes")

\* What would have to change; {} is to sustain what there is.
UpgradeTriggers(r) ==
    Matches({<<Thin(r), "liquidity">>, <<r.impact = 0 \/ r.impact > 15 * Percent, "impact">>,
             <<r.eff5m < 5, "effective buyers">>, <<r.mcap = 0, "market cap">>,
             <<r.clustering # "resolved", "clustering">>, <<Concentrated(r), "concentration">>})

InvalidateTriggers(r) ==
    Matches({<<Rejected(r) \/ Thin(r), "impossible execution">>,
             <<r.clustering = "full_fallback", "full fallback">>, <<r.mcap = 0, "no holder proxy">>,
             <<Concentrated(r), "concentration">>, <<r.impact > 25 * Percent, "impact">>,
             <<r.eff5m < 3, "buyer quality">>})

ActionabilityLabel(r) ==
    FirstMatch(<< <<r.label \in {"BUY", "READY"}, "actionable now">>,
                  <<r.eff5m >= 5 /\ ~Thin(r) /\ r.impact <= 15 * Percent, "observe closely">>,
                  <<r.mcap = 0 \/ Rejected(r), "not actionable">> >>, "reject quickly")

TriggerLine(r) ==
    <<IF r.eff1m > 0 THEN "flow" ELSE "no flow",
      FirstMatch(<< <<r.clustering = "resolved", "clean">>,
                    <<r.clustering = "partial_fallback", "partial">> >>, "fallback"),
      FirstMatch(<< <<Rejected(r) /\ r.liq > 0, "observed liq proxy">>,
                    <<r.impact > 0, "impact">>,
                    <<r.liq > 0, "observed liq proxy">> >>, "observed liq proxy absent")>>

NoTradeReason(r) ==
    FirstMatch(<< <<Rejected(r) /\ r.liq > 0 /\ Thin(r), "observed liq proxy below 5">>,
                  <<r.impact > 15 * Percent, "impact above 15%">>,
                  <<r.clustering = "partial_fallback", "partial fallback unresolved">>,
                  <<r.clustering = "full_fallback", "full fallback unresolved">>,
                  <<Concentrated(r), "top10 concentration">>,
                  <<r.eff5m \in 1 .. 4, "effective buyers below 5">> >>, DominantBlocker(r))

-----------------------------------------------------------------------------
(* Ranking the rows of one answer.                                         *)

ClusteringPriorityRank == [resolved |-> 3, partial_fallback |-> 2, full_fallback |-> 1]
SignalFreshnessRank == [forming |-> 3, active |-> 2, cooling |-> 1, expired |-> 0]
ImpactForPriority(impact) == IF impact <= 0 THEN 1000000 ELSE impact

\* The larger the better, the first difference decides; mints are numbered in
\* their own order and the smaller wins a tie.
PriorityKey(r) ==
    <<r.confidence, ClusteringPriorityRank[r.clustering], -r.adversarial, r.eff5m,
      -ImpactForPriority(r.impact), SignalFreshnessRank[r.state], r.last, -r.mint>>

PriorityLess(a, b) ==
    LET ka == PriorityKey(a)  kb == PriorityKey(b)
        differ == {i \in DOMAIN ka : ka[i] # kb[i]}
    IN  differ # {} /\ ka[Min(differ)] < kb[Min(differ)]

\* The best row so far, as a set of at most one, after one more row.
Better(best, r) == IF \A b \in best : PriorityLess(b, r) THEN {r} ELSE best

\* The bug of docs/hero_staleness_audit.md: expired rows compete too.
BestOfAllRows(rows) == FoldLeft(Better, {}, rows)

\* The rows are gone through from first to last, past the expired ones.
BestOf(rows) ==
    FoldLeft(LAMBDA best, r : IF r.state = "expired" THEN best ELSE Better(best, r), {}, rows)

PriorityLabel(r, best) ==
    FirstMatch(<< <<\E b \in best : b.mint = r.mint, "best_on_tape">>,
                  <<r.eff5m >= 3 \/ r.clustering # "resolved" \/ r.mcap = 0, "monitor_for_upgrade">> >>,
               "deprioritize")

OperatorFocus(r) ==
    FirstMatch(<< <<r.priority = "best_on_tape", "best available now">>,
                  <<r.priority = "monitor_for_upgrade", "monitor for upgrade">> >>, "reject quickly")

RelativeSetupLabel(r) ==
    FirstMatch(<<
        <<r.priority = "best_on_tape" /\ r.actionability = "not actionable", "least bad on tape">>,
        <<r.priority = "best_on_tape", "current lead setup">>,
        <<r.priority = "monitor_for_upgrade" /\ r.clustering = "resolved" /\ r.eff5m >= 3, "cleaner than peers">>,
        <<r.priority = "monitor_for_upgrade" /\ r.clustering # "resolved", "trust is compromised">>,
        <<r.mcap = 0, "structure incomplete">>,
        <<Rejected(r), "execution-failed reject">> >>, "low-value reject")

\* Funding ratios are known of the last minute's buyers, compression of both windows.
TrustReason(r) ==
    FirstMatch(<< <<Concentrated(r), "top10 concentration">>,
                  <<r.clustering # "resolved", r.clustering>>,
                  <<r.clusterRatio >= 30 * Percent, "funding cluster ratio">>,
                  <<r.compression > 0, "buyer compression">> >>, "none")

TrustLabel(r) ==
    FirstMatch(<< <<TrustReason(r) = "top10 concentration", "insider-controlled">>,
                  <<TrustReason(r) # "none", "compromised">> >>, "organic")

\* The label and its reason go by the same cases.
AsymmetryLabel(r) ==
    FirstMatch(<<
        <<r.priority = "best_on_tape" /\ r.actionability = "not actionable", "best among weak tape">>,
        <<r.priority = "best_on_tape" /\ r.actionability = "observe closely", "closest to upgrade">>,
        <<r.actionability = "actionable now", "live opportunity">>,
        <<r.trust = "insider-controlled", "likely distribution trap">>,
        <<r.trust = "compromised", "trust-degraded flow">> >>, "low asymmetry")

QualityTier(r) ==
    FirstMatch(<<
        <<r.priority = "best_on_tape" /\ r.actionability = "actionable now", "RUNNER">>,
        <<r.priority = "best_on_tape" \/ r.actionability = "observe closely", "WATCH">>,
        <<r.trust = "insider-controlled", "TRAP">> >>, "DEAD")

Rationale(r) ==
    [whyNow |-> WhyNow(r), blocker |-> DominantBlocker(r), verdict |-> OperatorVerdict(r),
     analogue |-> HistoricalAnalogue(r), timeToOutcome |-> HistoricalTimeToOutcome(r),
     upgrade |-> UpgradeTriggers(r), invalidate |-> InvalidateTriggers(r),
     actionability |-> ActionabilityLabel(r), trust |-> TrustLabel(r), trustReason |-> TrustReason(r),
     trigger |-> TriggerLine(r), noTrade |-> NoTradeReason(r)]

Ranked(r, best) ==
    LET labelled == [priority |-> PriorityLabel(r, best)] ++ Rationale(r) ++ r
    IN  [focus |-> OperatorFocus(labelled), relative |-> RelativeSetupLabel(labelled),
         asymmetry |-> AsymmetryLabel(labelled), tier |-> QualityTier(labelled)] ++ labelled

AssignPriorityLabels(rows) ==
    LET best == BestOf(rows)
    IN  [i \in DOMAIN rows |-> Ranked(rows[i], best)]
=============================================================================
