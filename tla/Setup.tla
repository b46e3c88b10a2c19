-------------------------------- MODULE Setup --------------------------------
(***************************************************************************)
(* The setup of a row (internal/setup/classifier.go), the state an         *)
(* operator acts on, with the token mode and the catalyst it rests on      *)
(* (internal/mode, internal/catalyst).  The store never learns of a        *)
(* migration, of the progress of a bonding curve or of a deployer, so the  *)
(* modes and catalysts that need one do not occur.  r is a row with its    *)
(* early proxy under the field proxy and what Detect found under detect.   *)
(***************************************************************************)
EXTENDS Proxy

LaunchInferred(r) == r.launchSource # "unknown"

HasFreshDemand(r) ==
    /\ r.buyers5m >= 5 \/ r.eff5m >= 5
    /\ r.buy1m > 0 \/ r.solPerBuyer > 0

\* The age since launch is the token's age: a launch is inferred at first sight.
TokenMode(r) ==
    FirstMatch(<< <<LaunchInferred(r) /\ r.age < 15 * Minute, "launch">>,
                  <<HasFreshDemand(r), "revival">> >>, "unknown")

\* No token in launch, revival or unknown mode has one.
CatalystStatus(r) == "unknown"

UnknownCatalyst(r) ==
    FirstMatch(<< <<r.mode = "launch", FALSE>>,
                  <<r.mode = "revival", CatalystStatus(r) = "unknown" /\ ~LaunchInferred(r)>> >>, TRUE)

VelocityAdequate(r) == 20 * r.solPerTrade >= SOL \/ 10 * r.solPerBuyer >= SOL \/ 10 * r.buy1m >= SOL
VelocityBonus(r) ==
    Step(r.solPerTrade, <<<<SOL, 20>>, <<SOL \div 2, 10>>>>) + (IF r.solPerBuyer >= SOL THEN 5 ELSE 0)

LiquidityReliableForWOW(r) == r.depth >= 5 * SOL /\ r.reliable
DistributionWOWAllowed(r) == r.holders >= 10 /\ r.top10 < 85 * Percent
AuthLowOrNone(r) == r.detect.severity \in {"none", "low"}

-----------------------------------------------------------------------------
(* Blockers, as <<text, severity>>.                                        *)

ConcentrationBlockers(r) ==
    FirstMatch(<<
        <<r.holders = 0, {<<"holder distribution unavailable", "avoid">>}>>,
        <<r.holders < 10 /\ r.top10 >= 95 * Percent, {<<"distribution immature", "avoid">>}>>,
        <<r.top10 >= 95 * Percent, {<<"terminal holder concentration", "dead">>}>>,
        <<r.top10 >= 90 * Percent, {<<"near-terminal holder concentration", "avoid">>}>>,
        <<r.top10 >= 85 * Percent, {<<"high holder concentration", "watch">>}>> >>, {})

\* Detect finds no bundles or snipers without a creation block.
AuthenticityBlockers(r) ==
    Matches({<<r.detect.bump, <<"bump bot evidence", "avoid">>>>,
             <<r.detect.rhythm, <<"mechanical rhythm", "avoid">>>>,
             <<r.detect.identical, <<"identical buy sizes", "avoid">>>>})

LiquidityBlockers(r) ==
    Matches({<<r.depth = -1 \/ ~r.reliable, <<"unverified liquidity", "avoid">>>>,
             <<r.depth = 0 /\ r.reliable, <<"verified pool depth is zero", "dead">>>>,
             <<r.depth \in 0 .. 5 * SOL - 1 /\ ~(r.depth = 0 /\ r.reliable),
               <<"verified pool depth below 5 SOL", "avoid">>>>,
             <<r.impact >= 50 * Percent, <<"estimated impact >= 50%", "avoid">>>>})

SynthesizeBlockers(r) ==
    ConcentrationBlockers(r) \cup AuthenticityBlockers(r) \cup LiquidityBlockers(r)
    \cup Matches({<<r.buyers1m = 0 /\ r.buyers5m = 0, <<"no real flow", "dead">>>>,
                  <<r.clustering = "full_fallback", <<"full clustering fallback", "dead">>>>,
                  <<r.clustering = "partial_fallback", <<"partial clustering fallback", "avoid">>>>,
                  <<~VelocityAdequate(r), <<"weak velocity", "watch">>>>,
                  <<UnknownCatalyst(r), <<"unknown catalyst", "watch">>>>,
                  <<r.proxy.score < Threshold, <<"proxy score below WOW threshold", "watch">>>>})

Severe(blockers, severity) == \E b \in blockers : b[2] = severity
Texts(blockers) == {b[1] : b \in blockers}

MaxSeverity(blockers) ==
    FirstMatch(<< <<Severe(blockers, "dead"), "dead">>, <<Severe(blockers, "avoid"), "avoid">>,
                  <<Severe(blockers, "watch"), "watch">> >>, "none")

-----------------------------------------------------------------------------

ManipulatedMomentum(r) ==
    r.detect.severity \in {"high", "medium"} /\ r.proxy.score >= 50 * Point /\ VelocityBonus(r) > 0

\* The texts are matched by their parts: "terminal holder concentration" is a
\* part of the near-terminal one.
HardReviewBlockers ==
    {"no real flow", "terminal holder concentration", "near-terminal holder concentration",
     "full clustering fallback", "verified pool depth below 5 SOL", "estimated impact >= 50%",
     "bump bot evidence", "mechanical rhythm"}

ReviewableBlockers ==
    {"partial clustering fallback", "unknown catalyst",
     "high holder concentration", "near-terminal holder concentration"}

LiquidityEnoughForReview(r) ==
    \/ r.depth >= 5 * SOL
    \/ r.source = "raydium_wsol_vault"
    \/ r.pump /\ LaunchInferred(r) /\ r.depth # 0 /\ r.pool > 0

ReviewCandidate(r, blockers) ==
    /\ r.proxy.score >= 75 * Point /\ r.detect.score >= 80 /\ AuthLowOrNone(r)
    /\ LiquidityEnoughForReview(r) /\ r.impact < 50 * Percent
    /\ r.buyers1m > 0 \/ r.buyers5m >= 5
    /\ r.top10 < 95 * Percent
    /\ Texts(blockers) \cap HardReviewBlockers = {}
    /\ Texts(blockers) \cap ReviewableBlockers # {}

\* What the operator is told stands between the row and a WOW.
SoftBlockers(blockers) ==
    (Texts(blockers) \ HardReviewBlockers)
        \cap (ReviewableBlockers \cup {"terminal holder concentration"})

WowLaunch(r) ==
    /\ r.mode = "launch" /\ r.proxy.score >= Threshold /\ r.detect.severity = "none"
    /\ r.clustering # "partial_fallback" /\ DistributionWOWAllowed(r)
    /\ VelocityAdequate(r) /\ LiquidityReliableForWOW(r)

WowRevival(r) ==
    /\ r.mode = "revival" /\ r.proxy.score >= 55 * Point /\ r.detect.severity = "none"
    /\ HasFreshDemand(r) /\ ~UnknownCatalyst(r)
    /\ DistributionWOWAllowed(r) /\ LiquidityReliableForWOW(r)

SetupMode(r, blockers) ==
    FirstMatch(<<
        <<Severe(blockers, "dead"), "DEAD">>,
        <<ManipulatedMomentum(r), "MANIPULATED_MOMENTUM">>,
        <<ReviewCandidate(r, blockers), "REVIEW_CANDIDATE">>,
        <<Severe(blockers, "avoid"), "AVOID">>,
        <<WowLaunch(r), "LAUNCH_WOW">>,
        <<WowRevival(r), "REVIVAL_WOW">>,
        <<\/ Severe(blockers, "watch")
          \/ r.proxy.score \in 45 * Point .. Threshold - 1 /\ r.detect.severity # "high", "WATCH">> >>,
        "AVOID")

ActionOf(mode) ==
    FirstMatch(<< <<mode \in {"LAUNCH_WOW", "REVIVAL_WOW"}, "PAPER_LOG">>,
                  <<mode = "REVIEW_CANDIDATE", "WATCH_1M">>,
                  <<mode = "MANIPULATED_MOMENTUM", "EXIT_AVOID">>,
                  <<mode = "WATCH", "WATCH_5M">> >>, "NO_TRADE")

IsWOW(mode) == mode \in {"LAUNCH_WOW", "REVIVAL_WOW"}

ScoreTier(r, mode) ==
    IF ~IsWOW(mode) THEN ""
    ELSE FirstMatch(<< <<r.proxy.score >= 80 * Point /\ r.detect.score >= 80, "APEX">>,
                       <<r.proxy.score >= Threshold /\ r.detect.score >= 60, "HIGH">> >>, "LOW")

\* Classify.
ClassifySetup(r) ==
    LET blockers == SynthesizeBlockers(r)
        mode == SetupMode(r, blockers)
    IN  [mode |-> mode, action |-> ActionOf(mode), tier |-> ScoreTier(r, mode),
         blockers |-> Texts(blockers), severity |-> MaxSeverity(blockers),
         velocity |-> Least(VelocityBonus(r) * 4, 100),
         softBlockers |-> IF mode = "REVIEW_CANDIDATE" THEN SoftBlockers(blockers) ELSE {}]
=============================================================================
