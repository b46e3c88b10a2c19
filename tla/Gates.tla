-------------------------------- MODULE Gates --------------------------------
(***************************************************************************)
(* The gate engine (EvaluateGates in internal/engine/scorer.go) with the   *)
(* thresholds of DefaultEngineConfig: a Layer 0 reject that stops the      *)
(* evaluation, then seven gates, each passed, failed or skipped for want   *)
(* of data, and the highest label they allow.  The reason and the margin   *)
(* of a gate are wording and left out.                                     *)
(***************************************************************************)
EXTENDS Rules

EngineConfig ==
    [minLiqMC |-> 5 * Percent, avoidLiqMC |-> 3 * Percent,
     maxTop10 |-> 15 * Percent, newTokenAge |-> 6 * 3600,
     maxSharedFunder |-> 5 * Percent, minVolMC |-> 1 * Percent, maxVolMC |-> 100 * Percent,
     minOrganicWinners |-> 10, sellTest |-> 25 * SOL, maxSlippage |-> 5 * Percent,
     scoreCap |-> 40 * Percent, maxLayer0Cluster |-> 80 * Percent, minExecLiq |-> 5 * SOL]

\* What a gate did: nothing for want of data, or a verdict.
Gate(evaluated, ok) == IF ~evaluated THEN "skipped" ELSE IF ok THEN "passed" ELSE "failed"

\* A reading of zero means nothing was observed: no reject on an empty pool.
Layer0(s, clusterRatio) ==
    FirstMatch(<<
        <<clusterRatio > EngineConfig.maxLayer0Cluster, "self_bundled">>,
        <<s.pool > 0 /\ s.pool < EngineConfig.minExecLiq, "impossible_execution">> >>, "none")

LiquidityMC(s) ==
    Gate(s.mcap > 0 /\ s.pool > 0, s.pool * 10000 >= EngineConfig.minLiqMC * s.mcap)

SupplyConc(s) ==
    Gate(s.top10 > 0, s.age > EngineConfig.newTokenAge \/ s.top10 <= EngineConfig.maxTop10)

BundleFunder(clusterRatio) == Gate(TRUE, clusterRatio <= EngineConfig.maxSharedFunder)

VolumeMC(s) ==
    Gate(s.mcap > 0 /\ s.vol24h > 0,
         /\ s.vol24h * 10000 >= EngineConfig.minVolMC * s.mcap
         /\ s.vol24h <= s.mcap)

OrganicWinners(s) == Gate(s.holders60 # 0, s.winners >= EngineConfig.minOrganicWinners)

HolderGrowth(s) == Gate(s.holders30 # 0 /\ s.holders60 # 0, s.holders60 > s.holders30)

\* The bug of comparing with the size of the sale, not with what it costs.
SlippageCeilingOfTheSale(s) ==
    Gate(s.pool > 0, EngineConfig.sellTest * 10000 >= EngineConfig.maxSlippage * s.pool)

SlippageCeiling(s) ==
    Gate(s.pool > 0, EngineConfig.sellTest * 10000 <= EngineConfig.maxSlippage * s.pool)

GatesOf(s, clusterRatio) ==
    <<LiquidityMC(s), SupplyConc(s), BundleFunder(clusterRatio), VolumeMC(s),
      OrganicWinners(s), HolderGrowth(s), SlippageCeiling(s)>>

\* Below the floor of gate 1, not only below what it asks for.
BelowAvoidFloor(s) == s.pool * 10000 < EngineConfig.avoidLiqMC * s.mcap

\* The label the number of failed gates allows; "" is no constraint.
ByFailures(gates) ==
    IF \A i \in DOMAIN gates : gates[i] = "skipped" THEN ""
    ELSE Step(4 - Cardinality({i \in DOMAIN gates : gates[i] = "failed"}),
              <<<<4, "BUY">>, <<3, "READY">>, <<2, "WATCH">>, <<-3, "AVOID">>>>)

MaxLabel(s, gates) ==
    FirstMatch(<<
        <<gates[7] = "failed", "AVOID">>,
        <<gates[1] = "failed" /\ BelowAvoidFloor(s), "AVOID">>,
        <<gates[6] = "failed", "AVOID">>,
        <<gates[4] = "failed" /\ ByFailures(gates) \in {"BUY", "READY"}, "WATCH">> >>,
        ByFailures(gates))

Passing(s, gates) ==
    [layer0 |-> "none", gates |-> gates, maxLabel |-> MaxLabel(s, gates),
     scoreCap |-> IF gates[7] = "failed" THEN EngineConfig.scoreCap ELSE 0]

\* EvaluateGates; no gates were evaluated for a Layer 0 reject.
EvaluateGates(s, clusterRatio) ==
    IF Layer0(s, clusterRatio) # "none"
    THEN [layer0 |-> Layer0(s, clusterRatio), gates |-> <<>>, maxLabel |-> "AVOID", scoreCap |-> 0]
    ELSE Passing(s, GatesOf(s, clusterRatio))

\* ComputeTop10HolderPct over a wallet -> net tokens map: of each balance, the
\* holders of it that are still among the ten largest.
Top10HolderPct(net) ==
    LET holders == {w \in DOMAIN net : net[w] > 0}
        balances == {net[w] : w \in holders}
        above(b) == Cardinality({w \in holders : net[w] > b})
        with(b) == Cardinality({w \in holders : net[w] = b})
        top10 == SumFunction([b \in balances |-> b * Clamp(10 - above(b), 0, with(b))])
    IN  Bp(top10, SumFunctionOnSet(net, holders))
=============================================================================
