-------------------------------- MODULE Proxy --------------------------------
(***************************************************************************)
(* The early proxy (internal/proxy/early_proxy.go): a score of the row, a  *)
(* band, and the caps that take back a band its evidence does not support. *)
(* r is a decision row joined with what AnalyzeAuthenticity found, under   *)
(* the field auth, and with the velocity of the last five minutes.  Scores *)
(* are in quarter points.                                                  *)
(***************************************************************************)
EXTENDS Decision

Point == 4
Threshold == 62 * Point

\* On-chain depth that the decision did use.
VerifiedPoolDepth(r) ==
    r.reliable /\ r.source \in {"raydium_pc_vault", "raydium_wsol_vault"} /\ r.depth >= 0

LiquidityForScoring(r) == IF r.depth >= 0 THEN r.depth ELSE r.liq

UnreliableObservedLiquidityProxy(r) == r.source = "observed_swaps_proxy" /\ ~r.reliable

HasRealBuyerFlow(r) == r.buyers1m > 0 \/ r.buyers5m > 1

NoFlow(r) == r.buyers1m = 0 /\ r.buyers5m = 0 /\ r.buy1m = 0

HighImpactWithoutCompensatingEvidence(r) ==
    r.impact >= 50 * Percent /\ r.eff5m < 5 /\ r.buyers5m < 5 /\ r.buy1m <= 0

\* Looks for words the engine's reasons do not hold, as the lifecycle does.
TerminalRugSignal(r) == r.engine.layer0 \in {"self-bundled", "hard rug"}

HardRugVeto(r) ==
    \/ r.top10 >= 95 * Percent
    \/ r.clustering = "full_fallback"
    \/ NoFlow(r)
    \/ HighImpactWithoutCompensatingEvidence(r)
    \/ TerminalRugSignal(r)
    \/ r.engine.layer0 = "impossible_execution" /\ ~UnreliableObservedLiquidityProxy(r)

\* Evidence that should be there and is not.
MissingCoreInputs(r) ==
    LET flow == r.buyers1m > 0 \/ r.buyers5m > 0 \/ r.buy1m > 0 \/ r.sell1m > 0
    IN  Matches({<<flow /\ r.liq = 0, "liquidity_proxy_sol">>,
                 <<flow /\ r.liq = 0 /\ r.impact = 0, "estimated_impact_pct">>,
                 <<flow /\ r.liq = 0 /\ r.exec = 0, "execution_penalty">>,
                 <<r.buyers1m > 0 /\ r.eff1m = 0, "effective_buyers_1m">>,
                 <<r.buyers5m > 0 /\ r.eff5m = 0, "effective_buyers_5m">>,
                 <<r.holders = 0, "holder_count">>, <<r.mcap = 0, "market_cap_sol">>,
                 <<r.top10 = 0 /\ r.holders = 0, "top10_holder_pct">>})

ObservedRiskFlags(r) ==
    LET thin == LiquidityForScoring(r) < 5 * SOL
    IN  Matches({<<r.clustering # "resolved", r.clustering>>,
                 <<r.top10 >= 95 * Percent, "extreme top10 concentration">>,
                 <<r.top10 \in 85 * Percent .. 95 * Percent - 1, "high top10 concentration">>,
                 <<~VerifiedPoolDepth(r), "unverified liquidity">>,
                 <<thin /\ VerifiedPoolDepth(r), "pool depth below 5 SOL">>,
                 <<thin /\ UnreliableObservedLiquidityProxy(r), "observed liq proxy below 5 SOL">>,
                 <<r.impact > 15 * Percent, "estimated impact">>,
                 <<NoFlow(r), "no real flow">>,
                 <<r.adversarial >= 75 * Percent, "high adversarial score">>,
                 <<Rejected(r), r.engine.layer0>>})

RiskPenalty(r) ==
    (IF r.clustering = "full_fallback" THEN 10 ELSE 0)
    + (IF r.top10 >= 85 * Percent THEN 10 ELSE 0)
    + (IF VerifiedPoolDepth(r) /\ r.depth \in 1 .. 5 * SOL - 1 THEN 12 ELSE 0)
    + Step(r.impact, <<<<25 * Percent + 1, 12>>, <<15 * Percent + 1, 6>>>>)
    + (IF r.adversarial >= 75 * Percent THEN 8 ELSE 0)

-----------------------------------------------------------------------------
(* The score.                                                              *)

\* Points for the buyers, their flow and the holders.
FlowPoints(r) ==
    LET net == r.buy1m - r.sell1m
    IN  Step(r.eff1m, <<<<3, 12>>, <<1, 5>>>>)
        + Step(r.eff5m, <<<<8, 14>>, <<5, 10>>, <<3, 5>>>>)
        + FirstMatch(<< <<r.buyers1m >= 5 \/ r.buyers5m >= 10, 8>>,
                        <<r.buyers1m > 0 \/ r.buyers5m > 0, 3>> >>, 0)
        + (IF net > 0 THEN Step(Bp(net, r.buy1m + r.sell1m), <<<<7000, 12>>, <<3500, 8>>, <<0, 3>>>>)
                      ELSE 0)
        + Step(r.accel, <<<<20000, 10>>, <<10000, 6>>>>)
        + Step(r.holders, <<<<25, 8>>, <<10, 5>>, <<1, 2>>>>)

\* Points for liquidity, execution and clustering.
EvidencePoints(r) ==
    (IF VerifiedPoolDepth(r) THEN Step(r.depth, <<<<20 * SOL, 10>>, <<5 * SOL, 6>>>>) ELSE 0)
    + FirstMatch(<< <<r.impact \in 1 .. 5 * Percent, 8>>, <<r.impact \in 1 .. 15 * Percent, 4>> >>, 0)
    + (IF r.mcap > 0 THEN 4 ELSE 0)
    + [resolved |-> 8, partial_fallback |-> 3, full_fallback |-> 0][r.clustering]
    + (IF r.clusterRatio \in 1 .. 15 * Percent THEN 3 ELSE 0)
    + (IF r.adversarial \in 1 .. 25 * Percent THEN 4 ELSE 0)
    + (IF r.exec >= 10 * SOL THEN 6 ELSE 0)

ContaminatedVelocity(a) == a.velocity.raw > 2 * a.velocity.organic /\ a.label # "organic"

HighSniperShare(a) == a.sniper /\ a.sniperShare >= 70 * Percent

AuthenticityPoints(a) ==
    (IF a.velocity.label \in {"strong", "exceptional"} /\ a.label = "organic" THEN 6 ELSE 0)
    - (IF a.label = "bot_like" THEN 35 ELSE 0) - (IF a.bundle THEN 35 ELSE 0)
    - (IF a.bump THEN 45 ELSE 0) - (IF HighSniperShare(a) THEN 18 ELSE 0)
    - (IF a.flags \cap IntervalFlags # {} THEN 18 ELSE 0)

\* Fast committed capital: SOL per trade and per buyer of the last five minutes.
VelocityPoints(r) ==
    Step(r.solPerTrade, <<<<SOL, 20>>, <<SOL \div 2, 10>>>>)
    + (IF r.solPerBuyer >= SOL THEN 5 ELSE 0)
    - (IF 20 * r.solPerTrade < SOL /\ r.solPerTrade > 0 THEN 15 ELSE 0)

\* The bug of adding the velocity points after the score was clamped.
ScoreUnclamped(r) ==
    LET points == FlowPoints(r) + EvidencePoints(r) + AuthenticityPoints(r.auth) - RiskPenalty(r)
    IN  IF HardRugVeto(r) THEN 0 ELSE Clamp(Point * points, 0, 100 * Point) + VelocityPoints(r) * Point

\* Three quarters of the points on thin evidence, and nothing left after a veto.
Score(r) ==
    LET a == r.auth
        points == FlowPoints(r) + EvidencePoints(r) + AuthenticityPoints(a) - RiskPenalty(r)
        weighed == IF Cardinality(MissingCoreInputs(r)) >= 6 THEN 3 * points ELSE Point * points
        vetoed == HardRugVeto(r) \/ a.bundle \/ a.bump \/ (HighSniperShare(a) /\ Concentrated(r))
    IN  IF vetoed THEN 0 ELSE Clamp(weighed + VelocityPoints(r) * Point, 0, 100 * Point)

-----------------------------------------------------------------------------
(* The band.                                                               *)

BandRank == [RUNNER |-> 4, WATCH |-> 3, REJECT |-> 2, DEAD |-> 1]

Capped(band, cap) == IF BandRank[band] > BandRank[cap] THEN cap ELSE band

BandFor(score) ==
    FirstMatch(<< <<score >= Threshold, "RUNNER">>, <<score >= 45 * Point, "WATCH">>,
                  <<score >= Point, "REJECT">> >>, "DEAD")

\* Launch evidence, with liquidity by any of the three measures.
ValidBondingLiquidityState(r) ==
    /\ r.launchSource # "unknown"
    /\ \/ LiquidityForScoring(r) >= 5 * SOL \/ r.pool >= 5 * SOL \/ r.liq >= 5 * SOL

ValidUnverifiedBondingRunner(r) ==
    /\ ValidBondingLiquidityState(r)
    /\ r.auth.mechanicality < 40 /\ r.auth.flags = {}
    /\ r.auth.velocity.label \in {"strong", "exceptional"} \/ r.auth.velocity.organic >= SOL

RunnerEligible(r) ==
    /\ VerifiedPoolDepth(r) /\ r.depth >= 5 * SOL /\ r.impact <= 15 * Percent
    /\ r.top10 < 95 * Percent /\ r.clustering # "full_fallback" /\ r.eff5m >= 5

QualifiesForUnreliableLiquidityWatch(r) ==
    /\ UnreliableObservedLiquidityProxy(r) /\ Thin(r) /\ HasRealBuyerFlow(r)
    /\ r.top10 < 95 * Percent /\ r.clustering # "full_fallback"
    /\ ~TerminalRugSignal(r) /\ ~HighImpactWithoutCompensatingEvidence(r)

ApplyLiquidityEvidenceBandCap(r, band) ==
    IF (r.reliable /\ r.depth >= 0) \/ ValidUnverifiedBondingRunner(r) THEN band ELSE Capped(band, "WATCH")

\* ScoreEarlyProxy's own downgrades of a RUNNER, in its order.
Downgraded(r, band) ==
    LET a == r.auth
        sound == ValidUnverifiedBondingRunner(r)
    IN  IF band # "RUNNER" THEN band
        ELSE FirstMatch(<<
                <<~RunnerEligible(r) /\ ~sound, "WATCH">>,
                <<a.label = "bot_like" \/ a.bundle \/ a.bump \/ r.clustering = "full_fallback", "DEAD">>,
                <<a.flags \cap IntervalFlags # {}, "WATCH">>,
                <<ContaminatedVelocity(a), "WATCH">>,
                <<a.mode = "unknown" /\ ~sound, "WATCH">> >>, "RUNNER")

BandOf(r, score) == ApplyLiquidityEvidenceBandCap(r, Downgraded(r, BandFor(score)))

\* A row without verified depth and with less than 5 SOL of flow is a WATCH at
\* its floor of 45 points, or nothing.
ScoredBand(r, score) ==
    FirstMatch(<<
        <<~(UnreliableObservedLiquidityProxy(r) /\ Thin(r)),
          [score |-> score, band |-> BandOf(r, score)]>>,
        <<QualifiesForUnreliableLiquidityWatch(r),
          [score |-> Most(score, 45 * Point), band |-> "WATCH"]>> >>,
        [score |-> 0, band |-> "DEAD"])

MechanicalPattern(flags) ==
    flags \cap (IntervalFlags \cup {"round-clock aligned buys", "bump bot buy/sell flips"}) # {}

\* What makes any row DEAD.
TerminalCaps(r) ==
    r.auth.bundle \/ r.auth.bump \/ HardRugVeto(r)

\* The bug of leaving the age of a launch to the signal mode.
RunnerCapsAgeless(r) ==
    \/ r.auth.label = "bot_like"
    \/ ~VerifiedPoolDepth(r) /\ ~ValidBondingLiquidityState(r)
    \/ ~r.reliable /\ ~ValidUnverifiedBondingRunner(r)

\* What makes a RUNNER a WATCH.
RunnerCaps(r) ==
    LET a == r.auth
    IN  \/ a.label = "bot_like"
        \/ a.mode = "unknown" /\ ~ValidUnverifiedBondingRunner(r)
        \/ MechanicalPattern(a.flags) /\ ~(a.label = "mixed" /\ a.mechanicality < 40)
        \/ ~VerifiedPoolDepth(r) /\ ~ValidBondingLiquidityState(r)
        \/ ~r.reliable /\ ~ValidUnverifiedBondingRunner(r)
        \/ r.age > 30 * Minute /\ a.subtype = "LAUNCH_RUNNER"

\* EnforceRunnerInvariants.  No rule produces the band APEX it could also cap.
EnforceRunnerInvariants(r, band) ==
    IF TerminalCaps(r) THEN "DEAD" ELSE IF RunnerCaps(r) THEN Capped(band, "WATCH") ELSE band

Enforced(r, scored) == [scored EXCEPT !.band = EnforceRunnerInvariants(r, @)]

WithEligibility(p) == [eligible |-> p.band = "RUNNER" /\ p.score >= Threshold] ++ p

ScoreEarlyProxy(r) ==
    WithEligibility(Enforced(r, ScoredBand(r, Score(r))))
    ++ [risks |-> ObservedRiskFlags(r) \cup r.auth.flags, missing |-> MissingCoreInputs(r)]
=============================================================================
