---------------------------- MODULE PipelineProofs ----------------------------
(***************************************************************************)
(* What an answer may say, for any store, bursts, depths, queries and      *)
(* outcomes of the lookups, and whatever the store does while the answer   *)
(* is built.                                                               *)
(*                                                                         *)
(* PipelineInv is inductive: the store is sound, as SwapStoreProofs has    *)
(* it; each collected snapshot is of a record made of the swaps its token  *)
(* had by then; each row carries the decision on such a snapshot, has the  *)
(* verdicts its rules give, and remembers those swaps.  What the theorems  *)
(* say of the rows of an answer follows from what those swaps were:        *)
(* AnswersFavourDepth by the gates and rules of one decision,              *)
(* AnswersLeadWithTheBest by the fold over the rows, AnswersAreTyped by    *)
(* the scale of each field, AnswersAreSupported and                        *)
(* HighVerdictsAreEvidenced by tracing the fields a verdict goes by back   *)
(* to sums and sets over the history.                                      *)
(***************************************************************************)
EXTENDS Pipeline, SwapStoreProofs

-----------------------------------------------------------------------------
(* The forms of Rules.                                                     *)

\* A chain ends at its first rule that applies, or with what is left.
LEMMA FirstOfMany ==
    ASSUME NEW rules, NEW k \in Nat, DOMAIN rules = 1 .. k, NEW otherwise
    PROVE  \/ /\ FirstMatch(rules, otherwise) = otherwise
              /\ \A i \in 1 .. k : ~rules[i][1]
           \/ \E i \in 1 .. k : /\ FirstMatch(rules, otherwise) = rules[i][2]
                                /\ rules[i][1] /\ \A j \in 1 .. i - 1 : ~rules[j][1]
  <1> DEFINE hits == {i \in DOMAIN rules : rules[i][1]}
  <1>1. CASE hits = {}
    BY <1>1 DEF FirstMatch
  <1>2. CASE hits # {}
    <2>1. hits \in SUBSET Nat
      OBVIOUS
    <2>2. PICK i : i = Min(hits)
      OBVIOUS
    <2>3. i \in hits /\ \A j \in hits : i <= j
      <3> HIDE DEF hits
      <3> QED
        BY <1>2, <2>1, <2>2, LeastExists DEF Min
    <2>4. FirstMatch(rules, otherwise) = rules[i][2]
      BY <1>2, <2>2 DEF FirstMatch
    <2>5. \A j \in 1 .. i - 1 : j \notin hits
      BY <2>1, <2>3
    <2>6. \A j \in 1 .. i - 1 : j \in DOMAIN rules
      BY <2>1, <2>3
    <2> QED
      BY <2>3, <2>4, <2>5, <2>6
  <1> QED
    BY <1>1, <1>2

\* Two rules.
LEMMA FirstOfTwo ==
    ASSUME NEW a1, NEW a2, NEW b1, NEW b2, NEW o
    PROVE  FirstMatch(<< <<a1, b1>>, <<a2, b2>> >>, o) = IF a1 THEN b1 ELSE IF a2 THEN b2 ELSE o
  <1>1. PICK rules : rules = << <<a1, b1>>, <<a2, b2>> >>
    OBVIOUS
  <1>2. DOMAIN rules = 1 .. 2 /\ rules[1] = <<a1, b1>> /\ rules[2] = <<a2, b2>>
    BY <1>1
  <1>3. \/ FirstMatch(rules, o) = o /\ \A i \in 1 .. 2 : ~rules[i][1]
        \/ \E i \in 1 .. 2 : /\ FirstMatch(rules, o) = rules[i][2]
                             /\ rules[i][1] /\ \A j \in 1 .. i - 1 : ~rules[j][1]
    BY <1>2, FirstOfMany
  <1> QED
    BY <1>1, <1>2, <1>3

\* Three rules.
LEMMA FirstOfThree ==
    ASSUME NEW a1, NEW a2, NEW a3, NEW b1, NEW b2, NEW b3, NEW o
    PROVE  FirstMatch(<< <<a1, b1>>, <<a2, b2>>, <<a3, b3>> >>, o) =
             IF a1 THEN b1 ELSE IF a2 THEN b2 ELSE IF a3 THEN b3 ELSE o
  <1>1. PICK rules : rules = << <<a1, b1>>, <<a2, b2>>, <<a3, b3>> >>
    OBVIOUS
  <1>2. /\ DOMAIN rules = 1 .. 3
        /\ rules[1] = <<a1, b1>> /\ rules[2] = <<a2, b2>> /\ rules[3] = <<a3, b3>>
    BY <1>1
  <1>3. \/ FirstMatch(rules, o) = o /\ \A i \in 1 .. 3 : ~rules[i][1]
        \/ \E i \in 1 .. 3 : /\ FirstMatch(rules, o) = rules[i][2]
                             /\ rules[i][1] /\ \A j \in 1 .. i - 1 : ~rules[j][1]
    BY <1>2, FirstOfMany
  <1> QED
    BY <1>1, <1>2, <1>3

\* Four rules.
LEMMA FirstOfFour ==
    ASSUME NEW a1, NEW a2, NEW a3, NEW a4, NEW b1, NEW b2, NEW b3, NEW b4, NEW o
    PROVE  FirstMatch(<< <<a1, b1>>, <<a2, b2>>, <<a3, b3>>, <<a4, b4>> >>, o) =
             IF a1 THEN b1 ELSE IF a2 THEN b2 ELSE IF a3 THEN b3 ELSE IF a4 THEN b4 ELSE o
  <1>1. PICK rules : rules = << <<a1, b1>>, <<a2, b2>>, <<a3, b3>>, <<a4, b4>> >>
    OBVIOUS
  <1>2. /\ DOMAIN rules = 1 .. 4 /\ rules[1] = <<a1, b1>> /\ rules[2] = <<a2, b2>>
        /\ rules[3] = <<a3, b3>> /\ rules[4] = <<a4, b4>>
    BY <1>1
  <1>3. \/ FirstMatch(rules, o) = o /\ \A i \in 1 .. 4 : ~rules[i][1]
        \/ \E i \in 1 .. 4 : /\ FirstMatch(rules, o) = rules[i][2]
                             /\ rules[i][1] /\ \A j \in 1 .. i - 1 : ~rules[j][1]
    BY <1>2, FirstOfMany
  <1> QED
    BY <1>1, <1>2, <1>3

\* Points by steps are the points of a step, or none.
LEMMA StepOfMany ==
    ASSUME NEW reading, NEW steps, NEW k \in Nat, DOMAIN steps = 1 .. k
    PROVE  \/ Step(reading, steps) = 0 /\ \A i \in 1 .. k : ~(reading >= steps[i][1])
           \/ \E i \in 1 .. k :
                /\ Step(reading, steps) = steps[i][2] /\ reading >= steps[i][1]
                /\ \A j \in 1 .. i - 1 : ~(reading >= steps[j][1])
  <1>1. PICK rules : rules = [i \in DOMAIN steps |-> <<reading >= steps[i][1], steps[i][2]>>]
    OBVIOUS
  <1>2. /\ DOMAIN rules = 1 .. k
        /\ \A i \in 1 .. k : rules[i][2] = steps[i][2] /\ (rules[i][1] <=> reading >= steps[i][1])
    BY <1>1
  <1>3. Step(reading, steps) = FirstMatch(rules, 0)
    BY <1>1 DEF Step
  <1>4. \/ FirstMatch(rules, 0) = 0 /\ \A i \in 1 .. k : ~rules[i][1]
        \/ \E i \in 1 .. k : /\ FirstMatch(rules, 0) = rules[i][2]
                             /\ rules[i][1] /\ \A j \in 1 .. i - 1 : ~rules[j][1]
    BY <1>2, FirstOfMany
  <1>5. CASE FirstMatch(rules, 0) = 0 /\ \A i \in 1 .. k : ~rules[i][1]
    BY <1>2, <1>3, <1>5
  <1>6. ASSUME NEW i \in 1 .. k, FirstMatch(rules, 0) = rules[i][2],
               rules[i][1], \A j \in 1 .. i - 1 : ~rules[j][1]
        PROVE  /\ Step(reading, steps) = steps[i][2] /\ reading >= steps[i][1]
               /\ \A j \in 1 .. i - 1 : ~(reading >= steps[j][1])
    <2>1. \A j \in 1 .. i - 1 : j \in 1 .. k
      OBVIOUS
    <2> QED
      BY <1>2, <1>3, <1>6, <2>1
  <1> QED
    BY <1>4, <1>5, <1>6

\* A share in basis points is a number.
LEMMA BpIsInt ==
    ASSUME NEW part \in Int, NEW whole \in Nat
    PROVE  Bp(part, whole) \in Int
  <1>1. CASE whole = 0
    BY <1>1 DEF Bp
  <1>2. CASE whole > 0
    <2>1. PICK x \in Int : x = part * 10000
      OBVIOUS
    <2>2. x \div whole \in Int
      BY <1>2, <2>1
    <2> QED
      BY <1>2, <2>1, <2>2 DEF Bp
  <1> QED
    BY <1>1, <1>2

\* A part of a whole is a share of it.
IsShare(k) == k \in Nat /\ k <= 10000

\* A part of a whole is a share, and a part of nothing is none.
LEMMA PartIsShare ==
    ASSUME NEW part \in Nat, NEW whole \in Nat, part <= whole
    PROVE  IsShare(Bp(part, whole))
  <1>1. CASE whole = 0
    BY <1>1 DEF Bp, IsShare
  <1>2. CASE whole > 0
    <2>1. PICK q : q = (part * 10000) \div whole
      OBVIOUS
    <2>2. q \in Int /\ whole * q <= part * 10000 /\ part * 10000 < whole * q + whole
      BY <1>2, <2>1
    <2>3. q < 10001
      <3> SUFFICES ASSUME q >= 10001 PROVE FALSE
        BY <2>2
      <3>1. whole * q >= whole * 10001
        BY <1>2, <2>2
      <3> QED
        BY <1>2, <2>2, <3>1
    <2>4. q > -1
      <3> SUFFICES ASSUME q <= -1 PROVE FALSE
        BY <2>2
      <3>1. whole * q <= whole * (-1)
        BY <1>2, <2>2
      <3> QED
        BY <1>2, <2>2, <3>1
    <2>5. Bp(part, whole) = q
      BY <1>2, <2>1 DEF Bp
    <2> QED
      BY <2>2, <2>3, <2>4, <2>5 DEF IsShare
  <1> QED
    BY <1>1, <1>2

\* The larger the whole, the smaller the share.
LEMMA BpFalls ==
    ASSUME NEW part \in Nat, NEW whole \in Nat, NEW more \in Nat, 0 < whole, whole <= more
    PROVE  Bp(part, more) <= Bp(part, whole)
  <1>1. PICK q, p : q = (part * 10000) \div more /\ p = (part * 10000) \div whole
    OBVIOUS
  <1>2. /\ q \in Int /\ more * q <= part * 10000
        /\ p \in Int /\ part * 10000 < whole * p + whole
    BY <1>1
  <1>3. q <= p
    <2> SUFFICES ASSUME q >= p + 1 PROVE FALSE
      BY <1>2
    <2>1. p >= 0
      <3> SUFFICES ASSUME p + 1 <= 0 PROVE FALSE
        BY <1>2
      <3>1. whole * (p + 1) <= 0
        BY <1>2
      <3>2. whole * (p + 1) = whole * p + whole /\ part * 10000 >= 0
        BY <1>2
      <3> QED
        BY <1>2, <3>1, <3>2
    <2>2. more * q >= more * (p + 1)
      BY <1>2
    <2>3. more * (p + 1) >= whole * (p + 1)
      BY <1>2, <2>1
    <2>4. whole * (p + 1) = whole * p + whole
      BY <1>2
    <2> QED
      BY <1>2, <2>2, <2>3, <2>4
  <1> QED
    BY <1>1, <1>3 DEF Bp

-----------------------------------------------------------------------------
(* The decision on one snapshot.                                           *)

\* What the properties read of a snapshot, of what is measured of it, and of a
\* decision.
SnapshotFields ==
    {"mint", "age", "first", "last", "launchSource", "uniqueBuyers", "events", "totalBuy", "totalSell",
     "wallets1m", "wallets5m", "accel", "topShare", "diversity", "repeat", "buy1m", "sell1m",
     "pool", "depth", "vol24h", "mcap", "top10", "holders", "winners", "holders30",
     "holders60"}

MeasuredFields ==
    {"liq", "reliable", "exec", "source", "impact", "adversarial", "buyers1m", "buyers5m",
     "eff1m", "eff5m", "clusterRatio", "compression", "clustering", "healthy", "warmingUp",
     "engine"}

LabelFields == {"label", "state", "asOf", "confidence"}

DecisionFields == SnapshotFields \cup MeasuredFields \cup LabelFields \cup {"actionable"}

\* Where the buyers of the last minute, and of the last five, are counted.
FirstRoots(funding) == [w \in Wallet |-> ResolveAs(funding.first, w)]
SecondRoots(funding) == [w \in Wallet |-> ResolveAs(funding.second, w)]

MeasuredOf(s, funding) ==
    Measured(s, funding.healthy, LiquidityProxy(s),
             Cluster(s.wallets1m, FirstRoots(funding)), Cluster(s.wallets5m, SecondRoots(funding)))

\* r has the decision d in it.
Carries(r, d) == \A x \in DecisionFields : x \in DOMAIN d /\ x \in DOMAIN r /\ r[x] = d[x]

\* Fields of other names leave the decision as it was.
LEMMA CarriesOn ==
    ASSUME NEW r, NEW d, NEW more, DOMAIN more \cap DecisionFields = {}, Carries(r, d)
    PROVE  Carries(more ++ r, d)
  BY DEF Carries, ++

\* A decision is a snapshot's fields with what was measured, a label and what
\* follows from it.
LEMMA DecidedFields ==
    ASSUME NEW s, SnapshotFields \subseteq DOMAIN s, NEW at, NEW funding
    PROVE  LET d == MeasuredOf(s, funding)
               u == Decided(s, at, funding)
           IN  /\ DecisionFields \subseteq DOMAIN u
               /\ \A x \in SnapshotFields : u[x] = s[x]
               /\ \A x \in MeasuredFields : u[x] = d[x]
               /\ u.label = Label(s, d, funding.healthy)
               /\ u.state = SignalState(s, d, Most(at - s.last, 0))
               /\ u.asOf = at /\ u.confidence = ComputeConfidence(s, d)
               /\ u.actionable = IsActionable(u.label, u.state, Most(at - s.last, 0))
  <1>1. PICK d : d = MeasuredOf(s, funding)
    OBVIOUS
  <1>2. DOMAIN d = MeasuredFields /\ d.healthy = funding.healthy
    BY <1>1 DEF MeasuredOf, Measured, MeasuredFields
  <1>3. PICK e : e = WithLabel(s, at, d)
    OBVIOUS
  <1>4. /\ DOMAIN e = MeasuredFields \cup LabelFields
        /\ \A x \in MeasuredFields : e[x] = d[x]
        /\ e.label = Label(s, d, funding.healthy)
        /\ e.state = SignalState(s, d, Most(at - s.last, 0))
        /\ e.asOf = at /\ e.confidence = ComputeConfidence(s, d)
    <2>1. PICK label, state, confidence :
             /\ label = Label(s, d, d.healthy) /\ state = SignalState(s, d, Most(at - s.last, 0))
             /\ confidence = ComputeConfidence(s, d)
      OBVIOUS
    <2>2. e = [label |-> label, state |-> state, asOf |-> at, confidence |-> confidence] ++ d
      BY <1>3, <2>1 DEF WithLabel
    <2> QED
      BY <1>2, <2>1, <2>2 DEF ++, MeasuredFields, LabelFields
  <1>5. PICK a : a = IsActionable(e.label, e.state, Most(at - s.last, 0))
    OBVIOUS
  <1>6. Decided(s, at, funding) = [actionable |-> a] ++ e ++ s
    BY <1>1, <1>3, <1>4, <1>5
       DEF Decided, ClassifyAt, WithActionable, MeasuredOf, FirstRoots, SecondRoots
  <1>7. PICK v : v = [actionable |-> a] ++ e
    OBVIOUS
  <1>8. /\ DOMAIN v = MeasuredFields \cup LabelFields \cup {"actionable"}
        /\ \A x \in MeasuredFields \cup LabelFields : v[x] = e[x]
        /\ v.actionable = a
    BY <1>4, <1>7 DEF ++, MeasuredFields, LabelFields
  <1>9. PICK u : u = v ++ s
    OBVIOUS
  <1>10. /\ DecisionFields \subseteq DOMAIN u
         /\ \A x \in SnapshotFields : u[x] = s[x]
         /\ \A x \in DOMAIN v : u[x] = v[x]
    BY <1>8, <1>9 DEF ++, DecisionFields, SnapshotFields, MeasuredFields, LabelFields
  <1>11. u = Decided(s, at, funding)
    BY <1>6, <1>7, <1>9
  <1>12. /\ \A x \in MeasuredFields : u[x] = d[x]
         /\ u.label = e.label /\ u.state = e.state /\ u.asOf = e.asOf
         /\ u.confidence = e.confidence /\ u.actionable = a
    BY <1>4, <1>8, <1>10 DEF LabelFields
  <1> QED
    BY <1>1, <1>4, <1>5, <1>10, <1>11, <1>12

-----------------------------------------------------------------------------
(* A pool verified to be deeper.                                           *)

\* z is s with a verified pool that holds more than what s is judged by.
Deeper(s, z) ==
    /\ s.reliable \/ s.pool = s.totalBuy + s.totalSell
    /\ z.reliable
    /\ s.pool \in Nat \ {0} /\ z.pool \in Nat /\ s.pool <= z.pool /\ s.mcap \in Int
    /\ \A x \in SnapshotFields \ {"pool", "depth", "reliable"} : z[x] = s[x]

\* Layer 0 and each gate: what fails of the deeper pool failed of the other.
LEMMA GatesOfDeeper ==
    ASSUME NEW s, NEW z, Deeper(s, z), NEW ratio
    PROVE  /\ Layer0(z, ratio) # "none" => Layer0(s, ratio) # "none"
           /\ \A g \in 1 .. 7 : GatesOf(z, ratio)[g] = "failed" => GatesOf(s, ratio)[g] = "failed"
           /\ BelowAvoidFloor(z) => BelowAvoidFloor(s)
           /\ GatesOf(z, ratio)[3] # "skipped" /\ GatesOf(s, ratio)[3] # "skipped"
  <1>1. /\ s.pool \in Nat \ {0} /\ z.pool \in Nat /\ s.pool <= z.pool /\ s.mcap \in Int
        /\ z.mcap = s.mcap /\ z.top10 = s.top10 /\ z.age = s.age /\ z.vol24h = s.vol24h
        /\ z.holders30 = s.holders30 /\ z.holders60 = s.holders60 /\ z.winners = s.winners
    BY DEF Deeper, SnapshotFields
  <1>2. Layer0(z, ratio) # "none" => Layer0(s, ratio) # "none"
    <2> DEFINE a1 == ratio > EngineConfig.maxLayer0Cluster
               a2(t) == t.pool > 0 /\ t.pool < EngineConfig.minExecLiq
    <2>1. EngineConfig.minExecLiq = 500
      BY DEF EngineConfig, SOL, Percent
    <2>2. a2(z) => a2(s)
      BY <1>1, <2>1
    <2>3. /\ Layer0(z, ratio) =
               FirstMatch(<< <<a1, "self_bundled">>, <<a2(z), "impossible_execution">> >>, "none")
          /\ Layer0(s, ratio) =
               FirstMatch(<< <<a1, "self_bundled">>, <<a2(s), "impossible_execution">> >>, "none")
      BY DEF Layer0
    <2> HIDE DEF a1, a2
    <2>4. /\ Layer0(z, ratio) = IF a1 THEN "self_bundled"
                                ELSE IF a2(z) THEN "impossible_execution" ELSE "none"
          /\ Layer0(s, ratio) = IF a1 THEN "self_bundled"
                                ELSE IF a2(s) THEN "impossible_execution" ELSE "none"
      BY <2>3, FirstOfTwo
    <2> QED
      BY <2>2, <2>4
  <1>3. /\ EngineConfig.minLiqMC = 500 /\ EngineConfig.avoidLiqMC = 300
        /\ EngineConfig.sellTest = 2500 /\ EngineConfig.maxSlippage = 500
    BY DEF EngineConfig, SOL, Percent
  <1>4. LiquidityMC(z) = "failed" => LiquidityMC(s) = "failed"
    BY <1>1, <1>3 DEF LiquidityMC, Gate
  <1>5. SlippageCeiling(z) = "failed" => SlippageCeiling(s) = "failed"
    BY <1>1, <1>3 DEF SlippageCeiling, Gate
  <1>6. /\ SupplyConc(z) = SupplyConc(s) /\ VolumeMC(z) = VolumeMC(s)
        /\ OrganicWinners(z) = OrganicWinners(s) /\ HolderGrowth(z) = HolderGrowth(s)
    BY <1>1 DEF SupplyConc, VolumeMC, OrganicWinners, HolderGrowth
  <1>7. BelowAvoidFloor(z) => BelowAvoidFloor(s)
    BY <1>1, <1>3 DEF BelowAvoidFloor
  <1>8. BundleFunder(ratio) # "skipped"
    BY DEF BundleFunder, Gate
  <1>9. \A t : /\ GatesOf(t, ratio)[1] = LiquidityMC(t) /\ GatesOf(t, ratio)[2] = SupplyConc(t)
               /\ GatesOf(t, ratio)[3] = BundleFunder(ratio) /\ GatesOf(t, ratio)[4] = VolumeMC(t)
               /\ GatesOf(t, ratio)[5] = OrganicWinners(t) /\ GatesOf(t, ratio)[6] = HolderGrowth(t)
               /\ GatesOf(t, ratio)[7] = SlippageCeiling(t)
    BY DEF GatesOf
  <1> QED
    BY <1>2, <1>4, <1>5, <1>6, <1>7, <1>8, <1>9

\* The labels, from the lowest to the highest.
LEMMA LabelRanks ==
    /\ DOMAIN LabelRank = {"AVOID", "WATCH", "READY", "BUY"}
    /\ LabelRank["AVOID"] = 0 /\ LabelRank["WATCH"] = 1
    /\ LabelRank["READY"] = 2 /\ LabelRank["BUY"] = 3
  BY DEF LabelRank

\* Some of the seven gates.
LEMMA SomeGates ==
    ASSUME NEW S \in SUBSET (1 .. 7)
    PROVE  IsFiniteSet(S) /\ Cardinality(S) \in 0 .. 7
  <1>1. PICK k \in Nat : k = 7
    OBVIOUS
  <1>2. IsFiniteSet(1 .. k) /\ Cardinality(1 .. k) = k
    BY FS_Interval
  <1>3. S \in SUBSET (1 .. k)
    BY <1>1
  <1>4. IsFiniteSet(S) /\ Cardinality(S) <= k /\ Cardinality(S) \in Nat
    BY <1>2, <1>3, FS_Subset, FS_CardinalityType
  <1> QED
    BY <1>1, <1>4

\* A label by the number of failed gates.
LEMMA FailuresRank ==
    ASSUME NEW gates, DOMAIN gates = 1 .. 7, gates[3] # "skipped"
    PROVE  LET k == Cardinality({i \in 1 .. 7 : gates[i] = "failed"})
           IN  /\ k \in 0 .. 7
               /\ ByFailures(gates) = IF k = 0 THEN "BUY" ELSE IF k = 1 THEN "READY"
                                      ELSE IF k = 2 THEN "WATCH" ELSE "AVOID"
  <1>1. PICK k : k = Cardinality({i \in 1 .. 7 : gates[i] = "failed"})
    OBVIOUS
  <1>2. k \in 0 .. 7
    <2>1. {i \in 1 .. 7 : gates[i] = "failed"} \in SUBSET (1 .. 7)
      OBVIOUS
    <2> QED
      BY <1>1, <2>1, SomeGates
  <1>3. PICK steps : steps = <<<<4, "BUY">>, <<3, "READY">>, <<2, "WATCH">>, <<-3, "AVOID">>>>
    OBVIOUS
  <1>4. DOMAIN steps = 1 .. 4 /\ 4 \in Nat
    BY <1>3
  <1>5. ByFailures(gates) = Step(4 - k, steps)
    BY <1>1, <1>3 DEF ByFailures
  <1>6. \/ Step(4 - k, steps) = 0 /\ \A i \in 1 .. 4 : ~(4 - k >= steps[i][1])
        \/ \E i \in 1 .. 4 :
             /\ Step(4 - k, steps) = steps[i][2] /\ 4 - k >= steps[i][1]
             /\ \A j \in 1 .. i - 1 : ~(4 - k >= steps[j][1])
    BY <1>4, StepOfMany
  <1>7. /\ steps[1][1] = 4 /\ steps[2][1] = 3 /\ steps[3][1] = 2 /\ steps[4][1] = -3
        /\ steps[1][2] = "BUY" /\ steps[2][2] = "READY" /\ steps[3][2] = "WATCH"
        /\ steps[4][2] = "AVOID"
    BY <1>3
  <1>8. Step(4 - k, steps) = IF k = 0 THEN "BUY" ELSE IF k = 1 THEN "READY"
                             ELSE IF k = 2 THEN "WATCH" ELSE "AVOID"
    BY <1>2, <1>6, <1>7
  <1> QED
    BY <1>1, <1>2, <1>5, <1>8

\* The highest label the gates allow, as one conditional.
LEMMA MaxLabelCases ==
    ASSUME NEW s, NEW gates
    PROVE  MaxLabel(s, gates) =
             IF \/ gates[7] = "failed" \/ (gates[1] = "failed" /\ BelowAvoidFloor(s))
                \/ gates[6] = "failed"
             THEN "AVOID"
             ELSE IF gates[4] = "failed" /\ ByFailures(gates) \in {"BUY", "READY"} THEN "WATCH"
             ELSE ByFailures(gates)
  <1> DEFINE a1 == gates[7] = "failed"
             a2 == gates[1] = "failed" /\ BelowAvoidFloor(s)
             a3 == gates[6] = "failed"
             a4 == gates[4] = "failed" /\ ByFailures(gates) \in {"BUY", "READY"}
             o == ByFailures(gates)
  <1>1. MaxLabel(s, gates) =
          FirstMatch(<< <<a1, "AVOID">>, <<a2, "AVOID">>, <<a3, "AVOID">>, <<a4, "WATCH">> >>, o)
    BY DEF MaxLabel
  <1> HIDE DEF a1, a2, a3, a4, o
  <1>2. MaxLabel(s, gates) =
          IF a1 THEN "AVOID" ELSE IF a2 THEN "AVOID" ELSE IF a3 THEN "AVOID"
          ELSE IF a4 THEN "WATCH" ELSE o
    BY <1>1, FirstOfFour
  <1> QED
    <2>1. CASE a1 \/ a2 \/ a3
      <3>1. MaxLabel(s, gates) = "AVOID"
        BY <1>2, <2>1
      <3> QED
        BY <2>1, <3>1 DEF a1, a2, a3
    <2>2. CASE ~(a1 \/ a2 \/ a3)
      <3>1. MaxLabel(s, gates) = IF a4 THEN "WATCH" ELSE o
        BY <1>2, <2>2
      <3> QED
        BY <2>2, <3>1 DEF a1, a2, a3, a4, o
    <2> QED
      BY <2>1, <2>2

\* It is a label, and no lower for a deeper pool.
LEMMA MaxLabelOfDeeper ==
    ASSUME NEW s, NEW z, Deeper(s, z), NEW ratio
    PROVE  LET a == MaxLabel(s, GatesOf(s, ratio))
               b == MaxLabel(z, GatesOf(z, ratio))
           IN  /\ a \in DOMAIN LabelRank /\ b \in DOMAIN LabelRank
               /\ LabelRank[a] <= LabelRank[b]
  <1>1. PICK ga, gb : ga = GatesOf(s, ratio) /\ gb = GatesOf(z, ratio)
    OBVIOUS
  <1>2. /\ \A g \in 1 .. 7 : gb[g] = "failed" => ga[g] = "failed"
        /\ BelowAvoidFloor(z) => BelowAvoidFloor(s)
        /\ ga[3] # "skipped" /\ gb[3] # "skipped"
    BY <1>1, GatesOfDeeper
  <1>3. DOMAIN ga = 1 .. 7 /\ DOMAIN gb = 1 .. 7 /\ gb[6] = ga[6] /\ gb[4] = ga[4]
    <2>1. /\ z.mcap = s.mcap /\ z.vol24h = s.vol24h
          /\ z.holders30 = s.holders30 /\ z.holders60 = s.holders60
      BY DEF Deeper, SnapshotFields
    <2>2. HolderGrowth(z) = HolderGrowth(s) /\ VolumeMC(z) = VolumeMC(s)
      BY <2>1 DEF HolderGrowth, VolumeMC
    <2> QED
      BY <1>1, <2>2 DEF GatesOf
  <1>4. PICK ka, kb : /\ ka = Cardinality({i \in 1 .. 7 : ga[i] = "failed"})
                      /\ kb = Cardinality({i \in 1 .. 7 : gb[i] = "failed"})
    OBVIOUS
  <1>5. kb <= ka
    <2>1. IsFiniteSet({i \in 1 .. 7 : ga[i] = "failed"})
      <3>1. {i \in 1 .. 7 : ga[i] = "failed"} \in SUBSET (1 .. 7)
        OBVIOUS
      <3> QED
        BY <3>1, SomeGates
    <2>2. {i \in 1 .. 7 : gb[i] = "failed"} \in SUBSET {i \in 1 .. 7 : ga[i] = "failed"}
      BY <1>2
    <2> QED
      BY <1>4, <2>1, <2>2, FS_Subset
  <1>6. /\ ka \in 0 .. 7 /\ kb \in 0 .. 7
        /\ ByFailures(ga) = IF ka = 0 THEN "BUY" ELSE IF ka = 1 THEN "READY"
                            ELSE IF ka = 2 THEN "WATCH" ELSE "AVOID"
        /\ ByFailures(gb) = IF kb = 0 THEN "BUY" ELSE IF kb = 1 THEN "READY"
                            ELSE IF kb = 2 THEN "WATCH" ELSE "AVOID"
    BY <1>2, <1>3, <1>4, FailuresRank
  <1>7. PICK fa, fb : fa = ByFailures(ga) /\ fb = ByFailures(gb)
    OBVIOUS
  <1>8. /\ fa \in DOMAIN LabelRank /\ fb \in DOMAIN LabelRank /\ LabelRank[fa] <= LabelRank[fb]
    BY <1>5, <1>6, <1>7 DEF LabelRank
  <1>9. /\ MaxLabel(s, ga) =
             IF \/ ga[7] = "failed" \/ (ga[1] = "failed" /\ BelowAvoidFloor(s))
                \/ ga[6] = "failed"
             THEN "AVOID"
             ELSE IF ga[4] = "failed" /\ fa \in {"BUY", "READY"} THEN "WATCH" ELSE fa
        /\ MaxLabel(z, gb) =
             IF \/ gb[7] = "failed" \/ (gb[1] = "failed" /\ BelowAvoidFloor(z))
                \/ gb[6] = "failed"
             THEN "AVOID"
             ELSE IF gb[4] = "failed" /\ fb \in {"BUY", "READY"} THEN "WATCH" ELSE fb
    BY <1>7, MaxLabelCases
  <1>10. /\ MaxLabel(s, ga) \in DOMAIN LabelRank /\ MaxLabel(z, gb) \in DOMAIN LabelRank
         /\ LabelRank[MaxLabel(s, ga)] <= LabelRank[MaxLabel(z, gb)]
    BY <1>2, <1>3, <1>8, <1>9 DEF LabelRank
  <1> QED
    BY <1>1, <1>10

\* The label without a ceiling, and under one.
LEMMA LabelCases ==
    ASSUME NEW s, NEW d, NEW healthy
    PROVE  LET low == \/ d.exec < LiveConfig.execAVOID \/ d.impact > LiveConfig.maxImpact
               watched == IF CheckWATCH(s) THEN "WATCH" ELSE "AVOID"
               checked == IF CheckBUY(s, d) THEN "BUY" ELSE IF CheckREADY(s, d) THEN "READY"
                          ELSE watched
           IN  Label(s, d, healthy) =
                 IF low THEN "AVOID" ELSE IF ~healthy THEN watched
                 ELSE IF d.engine.layer0 # "none" THEN "AVOID"
                 ELSE ApplyLabelCeiling(checked, d.engine.maxLabel)
  <1> DEFINE a1 == d.exec < LiveConfig.execAVOID
             a2 == d.impact > LiveConfig.maxImpact
             a3 == ~healthy
             a4 == d.engine.layer0 # "none"
             w == CheckWATCH(s)
             buy == CheckBUY(s, d)
             ready == CheckREADY(s, d)
             watched == IF w THEN "WATCH" ELSE "AVOID"
             checks == FirstMatch(<< <<buy, "BUY">>, <<ready, "READY">>, <<w, "WATCH">> >>, "AVOID")
             o == ApplyLabelCeiling(checks, d.engine.maxLabel)
  <1>1. Label(s, d, healthy) =
          FirstMatch(<< <<a1, "AVOID">>, <<a2, "AVOID">>, <<a3, watched>>, <<a4, "AVOID">> >>, o)
    BY DEF Label
  <1>2. checks = IF buy THEN "BUY" ELSE IF ready THEN "READY" ELSE watched
    <2> HIDE DEF buy, ready, w
    <2> QED
      BY FirstOfThree
  <1> HIDE DEF a1, a2, a3, a4, watched, buy, ready, checks
  <1>3. Label(s, d, healthy) = IF a1 THEN "AVOID" ELSE IF a2 THEN "AVOID" ELSE IF a3 THEN watched
                               ELSE IF a4 THEN "AVOID" ELSE o
    <2> HIDE DEF o
    <2> QED
      BY <1>1, FirstOfFour
  <1>4. CASE a1 \/ a2
    <2>1. Label(s, d, healthy) = "AVOID"
      BY <1>3, <1>4
    <2> QED
      BY <1>4, <2>1 DEF a1, a2
  <1>5. CASE ~(a1 \/ a2) /\ a3
    <2>1. Label(s, d, healthy) = watched
      BY <1>3, <1>5
    <2> QED
      BY <1>5, <2>1 DEF a1, a2, a3, watched
  <1>6. CASE ~(a1 \/ a2) /\ ~a3 /\ a4
    <2>1. Label(s, d, healthy) = "AVOID"
      BY <1>3, <1>6
    <2> QED
      BY <1>6, <2>1 DEF a1, a2, a3, a4
  <1>7. CASE ~(a1 \/ a2) /\ ~a3 /\ ~a4
    <2>1. Label(s, d, healthy) = o
      BY <1>3, <1>7
    <2> QED
      BY <1>2, <1>7, <2>1 DEF a1, a2, a3, a4, buy, ready, watched
  <1> QED
    BY <1>4, <1>5, <1>6, <1>7

\* What is measured of the deeper pool is no worse, and otherwise the same.
LEMMA MeasuredOfDeeper ==
    ASSUME NEW s, NEW z, Deeper(s, z), NEW funding
    PROVE  LET d == MeasuredOf(s, funding)
               e == MeasuredOf(z, funding)
           IN  /\ d.exec \in Int /\ e.exec \in Int /\ d.exec <= e.exec
               /\ d.impact \in Int /\ e.impact \in Int /\ e.impact <= d.impact
               /\ e.adversarial = d.adversarial /\ e.eff1m = d.eff1m /\ e.eff5m = d.eff5m
               /\ e.warmingUp = d.warmingUp /\ e.clusterRatio = d.clusterRatio
               /\ d.engine = EvaluateGates(s, d.clusterRatio)
               /\ e.engine = EvaluateGates(z, d.clusterRatio)
  <1>1. /\ s.reliable \/ s.pool = s.totalBuy + s.totalSell
        /\ z.reliable
        /\ s.pool \in Nat \ {0} /\ z.pool \in Nat \ {0} /\ s.pool <= z.pool
        /\ z.wallets1m = s.wallets1m /\ z.wallets5m = s.wallets5m
        /\ z.topShare = s.topShare /\ z.diversity = s.diversity /\ z.repeat = s.repeat
        /\ z.age = s.age /\ z.events = s.events
    BY DEF Deeper, SnapshotFields
  <1>2. PICK c1, c5 : /\ c1 = Cluster(s.wallets1m, FirstRoots(funding))
                      /\ c5 = Cluster(s.wallets5m, SecondRoots(funding))
    OBVIOUS
  <1>3. PICK verified :
          /\ LiquidityProxy(s) = [sol |-> s.pool, reliable |-> verified]
          /\ LiquidityProxy(z) = [sol |-> z.pool, reliable |-> TRUE]
    <2>1. LiquidityProxy(z) = [sol |-> z.pool, reliable |-> TRUE]
      BY <1>1 DEF LiquidityProxy
    <2>2. CASE s.reliable
      <3>1. LiquidityProxy(s) = [sol |-> s.pool, reliable |-> TRUE]
        BY <1>1, <2>2 DEF LiquidityProxy
      <3> QED
        BY <2>1, <3>1
    <2>3. CASE ~s.reliable
      <3>1. LiquidityProxy(s) = [sol |-> s.pool, reliable |-> FALSE]
        BY <1>1, <2>3 DEF LiquidityProxy
      <3> QED
        BY <2>1, <3>1
    <2> QED
      BY <2>2, <2>3
  <1>4. AdversarialScore(z) = AdversarialScore(s) /\ IsWarmingUp(z) = IsWarmingUp(s)
    BY <1>1 DEF AdversarialScore, IsWarmingUp
  <1>5. \A t : MeasuredOf(t, funding) =
                 Measured(t, funding.healthy, LiquidityProxy(t),
                          Cluster(t.wallets1m, FirstRoots(funding)),
                          Cluster(t.wallets5m, SecondRoots(funding)))
    BY DEF MeasuredOf
  <1>6. PICK d, e :
          /\ d = Measured(s, funding.healthy, [sol |-> s.pool, reliable |-> verified], c1, c5)
          /\ e = Measured(z, funding.healthy, [sol |-> z.pool, reliable |-> TRUE], c1, c5)
    OBVIOUS
  <1>7. d = MeasuredOf(s, funding) /\ e = MeasuredOf(z, funding)
    BY <1>1, <1>2, <1>3, <1>5, <1>6
  <1>8. /\ d.exec = ExecutionPenalty(s.pool) /\ e.exec = ExecutionPenalty(z.pool)
        /\ d.impact = EstimatedImpact(s.pool) /\ e.impact = EstimatedImpact(z.pool)
        /\ d.adversarial = AdversarialScore(s) /\ e.adversarial = AdversarialScore(z)
        /\ d.eff1m = c1.eff /\ e.eff1m = c1.eff /\ d.eff5m = c5.eff /\ e.eff5m = c5.eff
        /\ d.warmingUp = IsWarmingUp(s) /\ e.warmingUp = IsWarmingUp(z)
        /\ d.clusterRatio = c1.ratio /\ e.clusterRatio = c1.ratio
        /\ d.engine = EvaluateGates(s, c1.ratio) /\ e.engine = EvaluateGates(z, c1.ratio)
    BY <1>6 DEF Measured
  <1>9. LiveConfig.multiplier = 20 /\ LiveConfig.trade = 100
    BY DEF LiveConfig, SOL
  <1>10. /\ ExecutionPenalty(s.pool) \in Int /\ ExecutionPenalty(z.pool) \in Int
         /\ ExecutionPenalty(s.pool) <= ExecutionPenalty(z.pool)
    BY <1>1, <1>9 DEF ExecutionPenalty, Least
  <1>11. /\ EstimatedImpact(s.pool) \in Int /\ EstimatedImpact(z.pool) \in Int
         /\ EstimatedImpact(z.pool) <= EstimatedImpact(s.pool)
    <2>1. PICK p, q : p = Bp(100, s.pool) /\ q = Bp(100, z.pool)
      OBVIOUS
    <2>2. p \in Int /\ q \in Int /\ q <= p
      <3>1. 100 \in Nat /\ 100 \in Int
        OBVIOUS
      <3>2. \A whole \in Nat : Bp(100, whole) \in Int
        BY <3>1, BpIsInt
      <3>3. s.pool > 0
        BY <1>1
      <3>4. Bp(100, z.pool) <= Bp(100, s.pool)
        BY <1>1, <3>1, <3>3, BpFalls
      <3> QED
        BY <1>1, <2>1, <3>2, <3>4
    <2>3. EstimatedImpact(s.pool) = Least(10000, p) /\ EstimatedImpact(z.pool) = Least(10000, q)
      BY <1>1, <1>9, <2>1 DEF EstimatedImpact
    <2> QED
      BY <2>2, <2>3 DEF Least
  <1> QED
    BY <1>4, <1>7, <1>8, <1>10, <1>11

\* Nor is the decision.
LEMMA DecidedOfDeeper ==
    ASSUME NEW s, NEW z, Deeper(s, z), NEW funding
    PROVE  LET d == MeasuredOf(s, funding)
               e == MeasuredOf(z, funding)
           IN  /\ LabelRank[Label(s, d, funding.healthy)] <= LabelRank[Label(z, e, funding.healthy)]
               /\ \A g \in DOMAIN d.engine.gates :
                    e.engine.gates[g] = "failed" => d.engine.gates[g] = "failed"
  <1>1. PICK d, e, ratio : /\ d = MeasuredOf(s, funding) /\ e = MeasuredOf(z, funding)
                           /\ ratio = d.clusterRatio
    OBVIOUS
  <1>2. /\ d.exec \in Int /\ e.exec \in Int /\ d.exec <= e.exec
        /\ d.impact \in Int /\ e.impact \in Int /\ e.impact <= d.impact
        /\ e.adversarial = d.adversarial /\ e.eff1m = d.eff1m /\ e.eff5m = d.eff5m
        /\ e.warmingUp = d.warmingUp
        /\ d.engine = EvaluateGates(s, ratio) /\ e.engine = EvaluateGates(z, ratio)
    BY <1>1, MeasuredOfDeeper
  <1>3. /\ Layer0(z, ratio) # "none" => Layer0(s, ratio) # "none"
        /\ \A g \in 1 .. 7 : GatesOf(z, ratio)[g] = "failed" => GatesOf(s, ratio)[g] = "failed"
    BY GatesOfDeeper
  <1>4. PICK a, b : a = MaxLabel(s, GatesOf(s, ratio)) /\ b = MaxLabel(z, GatesOf(z, ratio))
    OBVIOUS
  <1>5. a \in DOMAIN LabelRank /\ b \in DOMAIN LabelRank /\ LabelRank[a] <= LabelRank[b]
    BY <1>4, MaxLabelOfDeeper
  <1>6. \A t : /\ EvaluateGates(t, ratio).layer0 = Layer0(t, ratio)
               /\ EvaluateGates(t, ratio).gates =
                    IF Layer0(t, ratio) # "none" THEN <<>> ELSE GatesOf(t, ratio)
               /\ Layer0(t, ratio) = "none" =>
                    EvaluateGates(t, ratio).maxLabel = MaxLabel(t, GatesOf(t, ratio))
    BY DEF EvaluateGates, Passing
  <1>7. \A g \in DOMAIN d.engine.gates :
          e.engine.gates[g] = "failed" => d.engine.gates[g] = "failed"
    <2>1. CASE Layer0(s, ratio) # "none"
      <3>1. d.engine.gates = <<>>
        BY <1>2, <1>6, <2>1
      <3> QED
        BY <3>1
    <2>2. CASE Layer0(s, ratio) = "none"
      <3>1. d.engine.gates = GatesOf(s, ratio) /\ e.engine.gates = GatesOf(z, ratio)
        BY <1>2, <1>3, <1>6, <2>2
      <3>2. DOMAIN GatesOf(s, ratio) = 1 .. 7
        BY DEF GatesOf
      <3> QED
        BY <1>3, <3>1, <3>2
    <2> QED
      BY <2>1, <2>2
  <1>8. /\ CheckBUY(s, d) => CheckBUY(z, e)
        /\ CheckREADY(s, d) => CheckREADY(z, e)
        /\ CheckWATCH(z) <=> CheckWATCH(s)
    <2>1. /\ z.accel = s.accel /\ z.totalBuy = s.totalBuy /\ z.totalSell = s.totalSell
          /\ z.buy1m = s.buy1m /\ z.sell1m = s.sell1m /\ z.uniqueBuyers = s.uniqueBuyers
      BY DEF Deeper, SnapshotFields
    <2>2. LiveConfig.execBUY = 1000 /\ LiveConfig.execREADY = 600
      BY DEF LiveConfig, SOL
    <2> QED
      BY <1>2, <2>1, <2>2 DEF CheckBUY, CheckREADY, CheckWATCH
  <1> DEFINE low(f) == f.exec < LiveConfig.execAVOID \/ f.impact > LiveConfig.maxImpact
             watched(t) == IF CheckWATCH(t) THEN "WATCH" ELSE "AVOID"
             checked(t, f) == IF CheckBUY(t, f) THEN "BUY" ELSE IF CheckREADY(t, f) THEN "READY"
                              ELSE watched(t)
  <1>9. \A t, f : Label(t, f, funding.healthy) =
                    IF low(f) THEN "AVOID" ELSE IF ~funding.healthy THEN watched(t)
                    ELSE IF f.engine.layer0 # "none" THEN "AVOID"
                    ELSE ApplyLabelCeiling(checked(t, f), f.engine.maxLabel)
    BY LabelCases
  <1>10. low(e) => low(d)
    <2>1. LiveConfig.execAVOID = 200 /\ LiveConfig.maxImpact = 1500
      BY DEF LiveConfig, SOL, Percent
    <2> QED
      BY <1>2, <2>1
  <1>11. PICK x, y : x = checked(s, d) /\ y = checked(z, e)
    OBVIOUS
  <1>12. /\ x \in DOMAIN LabelRank /\ y \in DOMAIN LabelRank /\ LabelRank[x] <= LabelRank[y]
    BY <1>8, <1>11, LabelRanks
  <1>13. watched(z) = watched(s) /\ watched(s) \in {"WATCH", "AVOID"}
    BY <1>8
  <1>14. \A l, c \in DOMAIN LabelRank :
           /\ ApplyLabelCeiling(l, c) \in {l, c}
           /\ LabelRank[ApplyLabelCeiling(l, c)] =
                IF LabelRank[l] > LabelRank[c] THEN LabelRank[c] ELSE LabelRank[l]
    BY DEF ApplyLabelCeiling, LabelRank
  <1>15. LabelRank[ApplyLabelCeiling(x, a)] <= LabelRank[ApplyLabelCeiling(y, b)]
    <2>1. \A l \in DOMAIN LabelRank : LabelRank[l] \in Int
      BY DEF LabelRank
    <2> QED
      BY <1>5, <1>12, <1>14, <2>1
  <1>16. \A l \in DOMAIN LabelRank : LabelRank["AVOID"] <= LabelRank[l]
    BY DEF LabelRank
  <1>17. /\ ApplyLabelCeiling(y, b) \in DOMAIN LabelRank
         /\ {"WATCH", "AVOID"} \subseteq DOMAIN LabelRank
    BY <1>5, <1>12, <1>14 DEF LabelRank
  <1> HIDE DEF low, watched, checked
  <1>18. /\ Label(s, d, funding.healthy) =
               IF low(d) THEN "AVOID" ELSE IF ~funding.healthy THEN watched(s)
               ELSE IF Layer0(s, ratio) # "none" THEN "AVOID" ELSE ApplyLabelCeiling(x, a)
         /\ Label(z, e, funding.healthy) =
               IF low(e) THEN "AVOID" ELSE IF ~funding.healthy THEN watched(z)
               ELSE IF Layer0(z, ratio) # "none" THEN "AVOID" ELSE ApplyLabelCeiling(y, b)
    BY <1>2, <1>4, <1>6, <1>9, <1>11
  <1>19. LabelRank[Label(s, d, funding.healthy)] <= LabelRank[Label(z, e, funding.healthy)]
    <2>1. \A l \in DOMAIN LabelRank : LabelRank[l] <= LabelRank[l]
      BY DEF LabelRank
    <2>2. Label(z, e, funding.healthy) \in DOMAIN LabelRank
      BY <1>13, <1>17, <1>18 DEF LabelRank
    <2> QED
      BY <1>3, <1>10, <1>13, <1>15, <1>16, <1>17, <1>18, <2>1, <2>2
  <1> QED
    BY <1>1, <1>7, <1>19
-----------------------------------------------------------------------------
(* Folds over a sequence, which FoldLeft defines by recursion on the set of *)
(* its positions.                                                           *)

\* The greatest of some positions, when k is among them and none is later.
LEMMA GreatestIs ==
    ASSUME NEW k \in Nat, NEW s \in SUBSET (1 .. k), k \in s
    PROVE  Max(s) = k
  <1>1. \E x \in s : \A y \in s : x >= y
    <2>1. \A y \in s : k >= y
      OBVIOUS
    <2> QED
      BY <2>1
  <1>2. Max(s) \in s /\ \A y \in s : Max(s) >= y
    BY <1>1 DEF Max
  <1>3. PICK x : x = Max(s)
    OBVIOUS
  <1>4. x \in 1 .. k /\ x >= k
    BY <1>2, <1>3
  <1> QED
    BY <1>3, <1>4

\* g folds the positions up to size from the first to the last, with steps F.
Folds(g, size, base, F) ==
    \A s \in SUBSET (1 .. size) :
        g[s] = IF s = {} THEN base ELSE F[<<g[s \ {Max(s)}], Max(s)>>]

\* The recursion by which a fold with steps F is defined has a
\* solution.
LEMMA FoldExists ==
    ASSUME NEW size \in Nat, NEW A, NEW base \in A, NEW F \in [A \X (1 .. size) -> A]
    PROVE  \E g \in [SUBSET (1 .. size) -> A] : Folds(g, size, base, F)
  <1> DEFINE Good(g, k) == \A s \in SUBSET (1 .. k) :
                             /\ g[s] \in A
                             /\ g[s] = IF s = {} THEN base ELSE F[<<g[s \ {Max(s)}], Max(s)>>]
             Bad == {k \in 0 .. size : ~ \E g : Good(g, k)}
  <1>1. \E g : Good(g, 0)
    <2>1. PICK g : g = [s \in SUBSET (1 .. size) |-> base]
      OBVIOUS
    <2>2. \A s \in SUBSET (1 .. 0) : s = {} /\ g[s] = base
      BY <2>1
    <2>3. Good(g, 0)
      BY <2>2
    <2> QED
      BY <2>3
  <1>2. ASSUME NEW k \in Nat, k < size, NEW g, Good(g, k) PROVE \E h : Good(h, k + 1)
    <2>1. PICK h : h = [s \in SUBSET (1 .. size) |-> IF k + 1 \in s THEN F[<<g[s \ {k + 1}], k + 1>>]
                                                  ELSE g[s]]
      OBVIOUS
    <2>2. \A s \in SUBSET (1 .. k) : h[s] = g[s] /\ s \ {Max(s)} \in SUBSET (1 .. k)
      <3> SUFFICES ASSUME NEW s \in SUBSET (1 .. k) PROVE h[s] = g[s]
        OBVIOUS
      <3>1. s \in SUBSET (1 .. size) /\ k + 1 \notin s
        BY <1>2
      <3> QED
        BY <2>1, <3>1
    <2>3. ASSUME NEW s \in SUBSET (1 .. (k + 1))
          PROVE  /\ h[s] \in A
                 /\ h[s] = IF s = {} THEN base ELSE F[<<h[s \ {Max(s)}], Max(s)>>]
      <3>1. CASE k + 1 \in s
        <4>1. Max(s) = k + 1
          BY <3>1, GreatestIs
        <4>2. PICK r : r = s \ {k + 1}
          OBVIOUS
        <4>3. r \in SUBSET (1 .. k) /\ s \in SUBSET (1 .. size) /\ k + 1 \in 1 .. size
          BY <1>2, <4>2
        <4>4. h[s] = F[<<g[r], k + 1>>] /\ h[r] = g[r] /\ g[r] \in A
          BY <1>2, <2>1, <2>2, <3>1, <4>2, <4>3
        <4>5. F[<<g[r], k + 1>>] \in A
          BY <4>3, <4>4
        <4> QED
          BY <3>1, <4>1, <4>2, <4>4, <4>5
      <3>2. CASE k + 1 \notin s
        <4>1. s \in SUBSET (1 .. k)
          BY <3>2
        <4> QED
          BY <1>2, <2>2, <4>1
      <3> QED
        BY <3>1, <3>2
    <2> QED
      BY <2>3
  <1>3. Bad = {}
    <2> SUFFICES ASSUME Bad # {} PROVE FALSE
      OBVIOUS
    <2>1. Bad \in SUBSET Nat
      OBVIOUS
    <2> HIDE DEF Good
    <2>2. PICK k \in Bad : \A other \in Bad : k <= other
      <3> HIDE DEF Bad
      <3> QED
        BY <2>1, LeastExists
    <2>3. k \in 0 .. size /\ k # 0 /\ ~ \E g : Good(g, k)
      BY <1>1, <2>2
    <2>4. k - 1 \in 0 .. size /\ ~(k <= k - 1) /\ (k - 1) + 1 = k /\ k - 1 < size
      BY <2>3
    <2>5. \E g : Good(g, k - 1)
      BY <2>2, <2>4
    <2> QED
      BY <1>2, <2>3, <2>4, <2>5
  <1>4. PICK g : Good(g, size)
    <2> HIDE DEF Good
    <2> QED
      BY <1>3
  <1>5. PICK f : f = [s \in SUBSET (1 .. size) |-> g[s]]
    OBVIOUS
  <1>6. ASSUME NEW s \in SUBSET (1 .. size)
        PROVE  f[s] = IF s = {} THEN base ELSE F[<<f[s \ {Max(s)}], Max(s)>>]
    <2>1. s \ {Max(s)} \in SUBSET (1 .. size)
      OBVIOUS
    <2> QED
      BY <1>4, <1>5, <2>1
  <1>7. f \in [SUBSET (1 .. size) -> A]
    BY <1>4, <1>5
  <1> QED
    BY <1>5, <1>6, <1>7 DEF Folds

\* A set of positions that is not empty has its greatest as a member.
LEMMA GreatestIsIn ==
    ASSUME NEW size \in Nat, NEW s \in SUBSET (1 .. size), s # {}
    PROVE  Max(s) \in s
  <1>1. IsFiniteSet(1 .. size)
    BY FS_Interval
  <1>2. s \in SUBSET Nat /\ IsFiniteSet(s)
    <2>1. IsFiniteSet(s)
      BY <1>1, FS_Subset
    <2> QED
      BY <2>1
  <1>3. PICK x \in s : \A y \in s : y <= x
    BY <1>2, GreatestExists
  <1>4. \A y \in s : x >= y
    BY <1>2, <1>3
  <1> QED
    BY <1>3, <1>4 DEF Max

\* The positions up to k without the last of them.
LEMMA PrefixWithoutLast ==
    ASSUME NEW k \in Nat \ {0}
    PROVE  Max(1 .. k) = k /\ (1 .. k) \ {k} = 1 .. (k - 1) /\ 1 .. k # {}
  <1>1. Max(1 .. k) = k
    <2>1. k \in 1 .. k /\ (1 .. k) \in SUBSET (1 .. k)
      OBVIOUS
    <2> QED
      BY <2>1, GreatestIs
  <1>2. (1 .. k) \ {k} = 1 .. (k - 1)
    OBVIOUS
  <1>3. 1 .. k # {}
    <2>1. 1 \in 1 .. k
      OBVIOUS
    <2> QED
      BY <2>1
  <1> QED
    BY <1>1, <1>2, <1>3

-----------------------------------------------------------------------------
(* A burst of swaps.                                                       *)

\* One event after another, a record stays made of the events applied to it.
LEMMA DeliveredMade ==
    ASSUME now \in Nat, NEW t, NEW h \in Seq(AnySwap), NEW evs \in Seq(AnySwap), evs # <<>>,
           Made(t, h, now), Spanned(t, h) \/ (t.first = evs[1].at /\ t.last = evs[1].at)
    PROVE  LET u == FoldLeft(Recorded, t, evs)
           IN  Made(u, h \o evs, now) /\ Spanned(u, h \o evs) /\ u \in TokenRecord
  <1> DEFINE size == Len(evs)
             Fitting == {u \in TokenRecord : Len(u.buys) <= BuyCap /\ Len(u.sells) <= SellCap}
             pass(g) == [s \in SUBSET (1 .. size) |->
                           IF s = {} THEN t ELSE Recorded(g[s \ {Max(s)}], evs[Max(s)])]
  <1>1. size \in Nat \ {0} /\ DOMAIN evs = 1 .. size /\ \A i \in 1 .. size : evs[i] \in AnySwap
    OBVIOUS
  <1>2. t \in Fitting
    BY DEF Made, TokenType
  <1>3. \A u \in Fitting, i \in 1 .. size : Recorded(u, evs[i]) \in Fitting
    <2> SUFFICES ASSUME NEW u \in Fitting, NEW ev \in AnySwap PROVE Recorded(u, ev) \in Fitting
      BY <1>1
    <2>1. PICK v : v = Recorded(u, ev)
      OBVIOUS
    <2>2. /\ v \in TokenRecord
          /\ ev.isBuy => v.buys = AppendCapped(u.buys, BuyCap, ev) /\ v.sells = u.sells
          /\ ~ev.isBuy => v.buys = u.buys /\ v.sells = AppendCapped(u.sells, SellCap, ev)
      BY <2>1, RecordedFields
    <2>3. /\ u.buys \in Seq(AnySwap) /\ u.sells \in Seq(AnySwap)
          /\ BuyCap \in Nat \ {0} /\ SellCap \in Nat \ {0}
      BY SwapStoreAssumption DEF TokenRecord
    <2>4. Len(AppendCapped(u.buys, BuyCap, ev)) <= BuyCap
      BY <2>3, AppendCappedKeeps DEF Keeps
    <2>5. Len(AppendCapped(u.sells, SellCap, ev)) <= SellCap
      BY <2>3, AppendCappedKeeps DEF Keeps
    <2> QED
      BY <2>1, <2>2, <2>4, <2>5
  <1>4. PICK F : F = [x \in Fitting \X (1 .. size) |-> Recorded(x[1], evs[x[2]])]
    OBVIOUS
  <1>5. F \in [Fitting \X (1 .. size) -> Fitting]
    <2> HIDE DEF Fitting, size
    <2> QED
      BY <1>3, <1>4
  <1>6. PICK g \in [SUBSET (1 .. size) -> Fitting] : Folds(g, size, t, F)
    <2> HIDE DEF Fitting, size
    <2>1. size \in Nat /\ t \in Fitting
      BY <1>1, <1>2
    <2> QED
      BY <2>1, <1>5, FoldExists
  <1>7. g = pass(g)
    <2>1. ASSUME NEW s \in SUBSET (1 .. size), s # {}
          PROVE  F[<<g[s \ {Max(s)}], Max(s)>>] = Recorded(g[s \ {Max(s)}], evs[Max(s)])
      <3> HIDE DEF Fitting, size
      <3>1. Max(s) \in 1 .. size
        BY <1>1, <2>1, GreatestIsIn
      <3>2. s \ {Max(s)} \in SUBSET (1 .. size)
        OBVIOUS
      <3>3. PICK r, k : r = g[s \ {Max(s)}] /\ k = Max(s)
        OBVIOUS
      <3>4. r \in Fitting /\ k \in 1 .. size
        BY <1>6, <3>1, <3>2, <3>3
      <3>5. F[<<r, k>>] = Recorded(r, evs[k])
        BY <1>4, <3>4
      <3> QED
        BY <3>3, <3>5
    <2> HIDE DEF Fitting, size
    <2> QED
      BY <1>6, <2>1 DEF Folds
  <1>8. PICK iter : iter = CHOOSE f : f = pass(f)
    OBVIOUS
  <1>9. iter = pass(iter)
    BY <1>7, <1>8
  <1>10. FoldLeft(Recorded, t, evs) = iter[1 .. size]
    BY <1>1, <1>8 DEF FoldLeft, MapThenFoldSet
  <1>11. \A k \in 1 .. size :
           iter[1 .. k] = Recorded(IF k = 1 THEN t ELSE iter[1 .. (k - 1)], evs[k])
    <2> SUFFICES ASSUME NEW k \in 1 .. size
                 PROVE  iter[1 .. k] = Recorded(IF k = 1 THEN t ELSE iter[1 .. (k - 1)], evs[k])
      OBVIOUS
    <2>1. 1 .. k \in SUBSET (1 .. size) /\ Max(1 .. k) = k /\ 1 .. k # {}
          /\ (1 .. k) \ {k} = 1 .. (k - 1)
      <3>1. k \in Nat \ {0} /\ 1 .. k \in SUBSET (1 .. size)
        BY <1>1
      <3> QED
        BY <3>1, PrefixWithoutLast
    <2>2. iter[1 .. k] = Recorded(iter[(1 .. k) \ {Max(1 .. k)}], evs[Max(1 .. k)])
      <3> HIDE DEF size
      <3> QED
        BY <1>9, <2>1
    <2>3. iter[1 .. k] = Recorded(iter[1 .. (k - 1)], evs[k])
      BY <2>1, <2>2
    <2>4. k = 1 => iter[1 .. (k - 1)] = t
      <3>1. iter[{}] = t
        BY <1>9
      <3>2. 1 .. 0 = {}
        OBVIOUS
      <3> QED
        BY <3>1, <3>2
    <2> QED
      BY <2>3, <2>4
  <1> DEFINE upTo(k) == [i \in 1 .. (Len(h) + k) |-> IF i <= Len(h) THEN h[i] ELSE evs[i - Len(h)]]
             holds(k) == LET u == iter[1 .. k]
                         IN  Made(u, upTo(k), now) /\ Spanned(u, upTo(k)) /\ u \in TokenRecord
             Bad == {k \in 1 .. size : ~holds(k)}
  <1>12. /\ upTo(0) = h /\ upTo(size) = h \o evs
         /\ \A k \in 0 .. size : upTo(k) \in Seq(AnySwap)
    <2>1. Len(h) \in Nat /\ DOMAIN h = 1 .. Len(h) /\ \A i \in 1 .. Len(h) : h[i] \in AnySwap
      OBVIOUS
    <2>2. upTo(0) = h
      BY <2>1
    <2>3. upTo(size) = h \o evs
      <3>1. PICK b : b = h \o evs
        OBVIOUS
      <3>2. /\ DOMAIN b = 1 .. (Len(h) + size)
            /\ \A i \in 1 .. (Len(h) + size) :
                 b[i] = IF i <= Len(h) THEN h[i] ELSE evs[i - Len(h)]
        BY <1>1, <2>1, <3>1
      <3>3. b = [i \in DOMAIN b |-> b[i]]
        <4>1. b \in Seq(AnySwap)
          BY <3>1
        <4> QED
          BY <4>1
      <3> QED
        BY <3>1, <3>2, <3>3
    <2>4. ASSUME NEW k \in 0 .. size PROVE upTo(k) \in Seq(AnySwap)
      <3> HIDE DEF size
      <3>1. \A i \in 1 .. (Len(h) + k) : upTo(k)[i] \in AnySwap
        BY <1>1, <2>1
      <3> QED
        BY <1>1, <2>1, <3>1
    <2> QED
      BY <2>2, <2>3, <2>4
  <1>13. ASSUME NEW k \in 1 .. size PROVE upTo(k) = Append(upTo(k - 1), evs[k])
    <2>1. PICK a, b : a = upTo(k - 1) /\ b = upTo(k)
      OBVIOUS
    <2>2. /\ a \in Seq(AnySwap) /\ Len(a) = Len(h) + k - 1 /\ Len(h) \in Nat /\ k \in Nat
          /\ b \in Seq(AnySwap) /\ Len(b) = Len(h) + k /\ DOMAIN b = 1 .. (Len(h) + k)
          /\ DOMAIN a = 1 .. (Len(h) + k - 1)
          /\ \A i \in 1 .. (Len(h) + k - 1) : b[i] = a[i]
          /\ b[Len(h) + k] = evs[k] /\ evs[k] \in AnySwap
      <3>1. k - 1 \in 0 .. size /\ k \in 0 .. size /\ k \in Nat /\ Len(h) \in Nat
        BY <1>1
      <3>2. a \in Seq(AnySwap) /\ b \in Seq(AnySwap)
        BY <1>12, <2>1, <3>1
      <3> HIDE DEF size
      <3> QED
        BY <1>1, <2>1, <3>1, <3>2
    <2>3. PICK c : c = Append(a, evs[k])
      OBVIOUS
    <2>4. /\ c \in Seq(AnySwap) /\ Len(c) = Len(a) + 1 /\ c[Len(a) + 1] = evs[k]
          /\ \A i \in DOMAIN a : c[i] = a[i]
      BY <2>2, <2>3, AppendedElements
    <2>5. Len(c) = Len(b) /\ \A i \in 1 .. Len(b) : c[i] = b[i]
      <3>1. Len(c) = Len(b) /\ Len(b) = Len(a) + 1 /\ Len(a) \in Nat
        BY <2>2, <2>4
      <3>2. c[Len(b)] = b[Len(b)]
        BY <2>2, <2>4, <3>1
      <3>3. \A i \in 1 .. Len(b) : i = Len(b) \/ i \in DOMAIN a
        BY <2>2, <3>1
      <3>4. \A i \in DOMAIN a : c[i] = b[i]
        BY <2>2, <2>4
      <3> QED
        BY <3>1, <3>2, <3>3, <3>4
    <2>6. b = c
      BY <2>2, <2>4, <2>5
    <2> QED
      BY <2>1, <2>3, <2>6
  <1> HIDE DEF size, upTo
  <1>14. ASSUME NEW k \in 1 .. size, k = 1 \/ holds(k - 1) PROVE holds(k)
    <2>1. PICK u, a, ev : /\ u = (IF k = 1 THEN t ELSE iter[1 .. (k - 1)])
                          /\ a = upTo(k - 1) /\ ev = evs[k]
      OBVIOUS
    <2>2. ev \in AnySwap /\ a \in Seq(AnySwap) /\ k \in Nat
      BY <1>1, <1>12, <2>1
    <2>3. Made(u, a, now) /\ (Spanned(u, a) \/ (u.first = ev.at /\ u.last = ev.at))
      <3>1. CASE k = 1
        <4>1. a = h /\ u = t /\ ev = evs[1]
          BY <1>12, <2>1, <3>1
        <4> QED
          BY <4>1
      <3>2. CASE k # 1
        BY <1>14, <2>1, <3>2
      <3> QED
        BY <3>1, <3>2
    <2>4. /\ Made(Recorded(u, ev), Append(a, ev), now) /\ Spanned(Recorded(u, ev), Append(a, ev))
          /\ Recorded(u, ev) \in TokenRecord
      BY <2>2, <2>3, MadeStep
    <2>5. upTo(k) = Append(a, ev) /\ iter[1 .. k] = Recorded(u, ev)
      BY <1>11, <1>13, <2>1
    <2> QED
      BY <2>4, <2>5
  <1> HIDE DEF holds
  <1>15. Bad = {}
    <2> SUFFICES ASSUME Bad # {} PROVE FALSE
      OBVIOUS
    <2>1. Bad \in SUBSET Nat
      OBVIOUS
    <2>2. PICK k \in Bad : \A other \in Bad : k <= other
      <3> HIDE DEF Bad
      <3> QED
        BY <2>1, LeastExists
    <2>3. k \in 1 .. size /\ k # 1 /\ ~holds(k)
      BY <1>14, <2>2
    <2>4. k - 1 \in 1 .. size /\ ~(k <= k - 1)
      BY <1>1, <2>3
    <2>5. holds(k - 1)
      BY <2>2, <2>4
    <2> QED
      BY <1>14, <2>3, <2>5
  <1>16. holds(size)
    BY <1>1, <1>15
  <1> QED
    BY <1>10, <1>12, <1>16 DEF holds


-----------------------------------------------------------------------------
(* The verdicts of a row.                                                  *)

\* Scores of the early proxy, of the trades' shape and of the two together are on
\* their scales.
VerdictTypes(r) ==
    /\ r.proxy.score \in Nat /\ r.proxy.score <= 400
    /\ r.proxy.band \in {"RUNNER", "WATCH", "REJECT", "DEAD"}
    /\ r.detect.score \in Nat /\ r.detect.score <= 100
    /\ r.auth.mechanicality \in Nat /\ r.auth.mechanicality <= 100

\* Points by two steps are a number.
LEMMA StepOfTwoIsInt ==
    ASSUME NEW x, NEW a1, NEW a2, NEW b1 \in Int, NEW b2 \in Int
    PROVE  Step(x, <<<<a1, b1>>, <<a2, b2>>>>) \in Int
  <1>1. PICK steps : steps = <<<<a1, b1>>, <<a2, b2>>>>
    OBVIOUS
  <1>2. /\ DOMAIN steps = 1 .. 2 /\ 2 \in Nat /\ 0 \in Int
        /\ \A i \in 1 .. 2 : steps[i][2] \in Int
    BY <1>1
  <1>3. \/ Step(x, steps) = 0 /\ \A i \in 1 .. 2 : ~(x >= steps[i][1])
        \/ \E i \in 1 .. 2 : /\ Step(x, steps) = steps[i][2] /\ x >= steps[i][1]
                             /\ \A j \in 1 .. i - 1 : ~(x >= steps[j][1])
    BY <1>2, StepOfMany
  <1>4. Step(x, steps) \in Int
    BY <1>2, <1>3
  <1> QED
    BY <1>1, <1>4

\* Points by three steps are a number.
LEMMA StepOfThreeIsInt ==
    ASSUME NEW x, NEW a1, NEW a2, NEW a3, NEW b1 \in Int, NEW b2 \in Int, NEW b3 \in Int
    PROVE  Step(x, <<<<a1, b1>>, <<a2, b2>>, <<a3, b3>>>>) \in Int
  <1>1. PICK steps : steps = <<<<a1, b1>>, <<a2, b2>>, <<a3, b3>>>>
    OBVIOUS
  <1>2. /\ DOMAIN steps = 1 .. 3 /\ 3 \in Nat /\ 0 \in Int
        /\ \A i \in 1 .. 3 : steps[i][2] \in Int
    BY <1>1
  <1>3. \/ Step(x, steps) = 0 /\ \A i \in 1 .. 3 : ~(x >= steps[i][1])
        \/ \E i \in 1 .. 3 : /\ Step(x, steps) = steps[i][2] /\ x >= steps[i][1]
                             /\ \A j \in 1 .. i - 1 : ~(x >= steps[j][1])
    BY <1>2, StepOfMany
  <1>4. Step(x, steps) \in Int
    BY <1>2, <1>3
  <1> QED
    BY <1>1, <1>4

\* So are the points of a row, by whatever it shows.
LEMMA FlowPointsAreInt ==
    ASSUME NEW r
    PROVE  FlowPoints(r) \in Int
  <1> DEFINE net == r.buy1m - r.sell1m
             share == Bp(net, r.buy1m + r.sell1m)
             b1 == r.buyers1m >= 5 \/ r.buyers5m >= 10
             b2 == r.buyers1m > 0 \/ r.buyers5m > 0
             inflow == net > 0
  <1>1. PICK p1, p2, p3, p4, p5, p6 :
          /\ p1 = Step(r.eff1m, <<<<3, 12>>, <<1, 5>>>>)
          /\ p2 = Step(r.eff5m, <<<<8, 14>>, <<5, 10>>, <<3, 5>>>>)
          /\ p3 = FirstMatch(<< <<b1, 8>>, <<b2, 3>> >>, 0)
          /\ p4 = Step(share, <<<<7000, 12>>, <<3500, 8>>, <<0, 3>>>>)
          /\ p5 = Step(r.accel, <<<<20000, 10>>, <<10000, 6>>>>)
          /\ p6 = Step(r.holders, <<<<25, 8>>, <<10, 5>>, <<1, 2>>>>)
    OBVIOUS
  <1>2. FlowPoints(r) = p1 + p2 + p3 + (IF inflow THEN p4 ELSE 0) + p5 + p6
    BY <1>1 DEF FlowPoints
  <1> HIDE DEF share, b1, b2, inflow
  <1>3. p1 \in Int /\ p5 \in Int
    <2>1. 12 \in Int /\ 5 \in Int /\ 10 \in Int /\ 6 \in Int
      OBVIOUS
    <2>2. Step(r.eff1m, <<<<3, 12>>, <<1, 5>>>>) \in Int
      BY <2>1, StepOfTwoIsInt
    <2>3. Step(r.accel, <<<<20000, 10>>, <<10000, 6>>>>) \in Int
      BY <2>1, StepOfTwoIsInt
    <2> QED
      BY <1>1, <2>2, <2>3
  <1>4. p2 \in Int /\ p4 \in Int /\ p6 \in Int
    BY <1>1, StepOfThreeIsInt
  <1>5. p3 = IF b1 THEN 8 ELSE IF b2 THEN 3 ELSE 0
    BY <1>1, FirstOfTwo
  <1>6. p3 \in Int
    BY <1>5
  <1> QED
    BY <1>2, <1>3, <1>4, <1>6

\* So are those of what is known of its pool, its market and its lookups.
LEMMA EvidencePointsAreInt ==
    ASSUME NEW r, r.clustering \in {"resolved", "partial_fallback", "full_fallback"}
    PROVE  EvidencePoints(r) \in Int
  <1> DEFINE c1 == VerifiedPoolDepth(r)
             c2 == r.impact \in 1 .. 5 * Percent
             c3 == r.impact \in 1 .. 15 * Percent
             c4 == r.mcap > 0
             c5 == r.clusterRatio \in 1 .. 15 * Percent
             c6 == r.adversarial \in 1 .. 25 * Percent
             c7 == r.exec >= 10 * SOL
  <1>1. PICK p1, p2, p3 :
          /\ p1 = Step(r.depth, <<<<20 * SOL, 10>>, <<5 * SOL, 6>>>>)
          /\ p2 = FirstMatch(<< <<c2, 8>>, <<c3, 4>> >>, 0)
          /\ p3 = [resolved |-> 8, partial_fallback |-> 3, full_fallback |-> 0][r.clustering]
    OBVIOUS
  <1>2. EvidencePoints(r) =
          (IF c1 THEN p1 ELSE 0) + p2 + (IF c4 THEN 4 ELSE 0) + p3
          + (IF c5 THEN 3 ELSE 0) + (IF c6 THEN 4 ELSE 0) + (IF c7 THEN 6 ELSE 0)
    BY <1>1 DEF EvidencePoints
  <1> HIDE DEF c1, c2, c3, c4, c5, c6, c7
  <1>3. p1 \in Int
    BY <1>1, StepOfTwoIsInt
  <1>4. p2 = IF c2 THEN 8 ELSE IF c3 THEN 4 ELSE 0
    BY <1>1, FirstOfTwo
  <1>5. p2 \in Int
    BY <1>4
  <1>6. p3 \in Int
    BY <1>1
  <1> QED
    BY <1>2, <1>3, <1>5, <1>6

\* So is what its risks take off.
LEMMA RiskPenaltyIsInt ==
    ASSUME NEW r
    PROVE  RiskPenalty(r) \in Int
  <1> DEFINE c1 == r.clustering = "full_fallback"
             c2 == r.top10 >= 85 * Percent
             c3 == VerifiedPoolDepth(r) /\ r.depth \in 1 .. 5 * SOL - 1
             c4 == r.adversarial >= 75 * Percent
  <1>1. PICK p : p = Step(r.impact, <<<<25 * Percent + 1, 12>>, <<15 * Percent + 1, 6>>>>)
    OBVIOUS
  <1>2. RiskPenalty(r) = (IF c1 THEN 10 ELSE 0) + (IF c2 THEN 10 ELSE 0)
                         + (IF c3 THEN 12 ELSE 0) + p + (IF c4 THEN 8 ELSE 0)
    BY <1>1 DEF RiskPenalty
  <1> HIDE DEF c1, c2, c3, c4
  <1>3. p \in Int
    BY <1>1, StepOfTwoIsInt
  <1> QED
    BY <1>2, <1>3

\* So are those of how authentic its trades are.
LEMMA AuthenticityPointsAreInt ==
    ASSUME NEW a
    PROVE  AuthenticityPoints(a) \in Int
  <1> DEFINE c1 == a.velocity.label \in {"strong", "exceptional"} /\ a.label = "organic"
             c2 == a.label = "bot_like"
             c3 == HighSniperShare(a)
             c4 == a.flags \cap IntervalFlags # {}
             c5 == a.bundle
             c6 == a.bump
  <1>1. AuthenticityPoints(a) =
          (IF c1 THEN 6 ELSE 0) - (IF c2 THEN 35 ELSE 0) - (IF c5 THEN 35 ELSE 0)
          - (IF c6 THEN 45 ELSE 0) - (IF c3 THEN 18 ELSE 0) - (IF c4 THEN 18 ELSE 0)
    BY DEF AuthenticityPoints
  <1> HIDE DEF c1, c2, c3, c4, c5, c6
  <1> QED
    BY <1>1

\* So are those of its velocity.
LEMMA VelocityPointsAreInt ==
    ASSUME NEW r
    PROVE  VelocityPoints(r) \in Int
  <1> DEFINE c1 == r.solPerBuyer >= SOL
             c2 == 20 * r.solPerTrade < SOL /\ r.solPerTrade > 0
  <1>1. PICK p : p = Step(r.solPerTrade, <<<<SOL, 20>>, <<SOL \div 2, 10>>>>)
    OBVIOUS
  <1>2. VelocityPoints(r) = p + (IF c1 THEN 5 ELSE 0) - (IF c2 THEN 15 ELSE 0)
    BY <1>1 DEF VelocityPoints
  <1> HIDE DEF c1, c2
  <1>3. p \in Int
    BY <1>1, StepOfTwoIsInt
  <1> QED
    BY <1>2, <1>3

\* The score is clamped last: a hundred points at most, and never below none.
LEMMA ScoreIsOnItsScale ==
    ASSUME NEW r, r.clustering \in {"resolved", "partial_fallback", "full_fallback"}
    PROVE  Score(r) \in Nat /\ Score(r) <= 400
  <1> DEFINE a == r.auth
             few == Cardinality(MissingCoreInputs(r)) >= 6
             vetoed == HardRugVeto(r) \/ a.bundle \/ a.bump
                       \/ (HighSniperShare(a) /\ Concentrated(r))
  <1>1. PICK flow, evidence, auth, penalty, speed \in Int :
          /\ flow = FlowPoints(r) /\ evidence = EvidencePoints(r)
          /\ auth = AuthenticityPoints(r.auth) /\ penalty = RiskPenalty(r)
          /\ speed = VelocityPoints(r)
    BY FlowPointsAreInt, EvidencePointsAreInt, AuthenticityPointsAreInt, RiskPenaltyIsInt,
       VelocityPointsAreInt
  <1>2. PICK points : points = flow + evidence + auth - penalty
    OBVIOUS
  <1>3. Score(r) = IF vetoed THEN 0
                   ELSE Clamp((IF few THEN 3 * points ELSE 4 * points) + speed * 4, 0, 400)
    <2>1. Point = 4 /\ 100 * Point = 400
      BY DEF Point
    <2> QED
      BY <1>1, <1>2, <2>1 DEF Score
  <1> HIDE DEF few, vetoed
  <1>4. PICK w \in Int : w = (IF few THEN 3 * points ELSE 4 * points) + speed * 4
    BY <1>1, <1>2
  <1>5. Clamp(w, 0, 400) \in Nat /\ Clamp(w, 0, 400) <= 400
    BY DEF Clamp, Most, Least
  <1> QED
    BY <1>3, <1>4, <1>5

\* A score has a band.
LEMMA BandForIsABand ==
    ASSUME NEW score
    PROVE  BandFor(score) \in {"RUNNER", "WATCH", "REJECT", "DEAD"}
  <1> DEFINE a1 == score >= Threshold
             a2 == score >= 45 * Point
             a3 == score >= Point
  <1>1. BandFor(score) =
          FirstMatch(<< <<a1, "RUNNER">>, <<a2, "WATCH">>, <<a3, "REJECT">> >>, "DEAD")
    BY DEF BandFor
  <1> HIDE DEF a1, a2, a3
  <1>2. BandFor(score) = IF a1 THEN "RUNNER" ELSE IF a2 THEN "WATCH" ELSE IF a3 THEN "REJECT"
                         ELSE "DEAD"
    BY <1>1, FirstOfThree
  <1> QED
    BY <1>2

\* A band that is downgraded is a band.
LEMMA DowngradedIsABand ==
    ASSUME NEW r, NEW band \in {"RUNNER", "WATCH", "REJECT", "DEAD"}
    PROVE  Downgraded(r, band) \in {"RUNNER", "WATCH", "REJECT", "DEAD"}
  <1> DEFINE a == r.auth
             sound == ValidUnverifiedBondingRunner(r)
             a1 == ~RunnerEligible(r) /\ ~sound
             a2 == a.label = "bot_like" \/ a.bundle \/ a.bump \/ r.clustering = "full_fallback"
             a3 == a.flags \cap IntervalFlags # {}
             a4 == ContaminatedVelocity(a)
             a5 == a.mode = "unknown" /\ ~sound
  <1>1. PICK rules : rules = << <<a1, "WATCH">>, <<a2, "DEAD">>, <<a3, "WATCH">>,
                               <<a4, "WATCH">>, <<a5, "WATCH">> >>
    OBVIOUS
  <1>2. Downgraded(r, band) = IF band # "RUNNER" THEN band ELSE FirstMatch(rules, "RUNNER")
    BY <1>1 DEF Downgraded
  <1> HIDE DEF a1, a2, a3, a4, a5
  <1>3. PICK k \in Nat : DOMAIN rules = 1 .. k /\ \A i \in 1 .. k : rules[i][2] \in {"WATCH", "DEAD"}
    <2>1. DOMAIN rules = 1 .. 5 /\ 5 \in Nat /\ \A i \in 1 .. 5 : rules[i][2] \in {"WATCH", "DEAD"}
      BY <1>1
    <2> QED
      BY <2>1
  <1>4. \/ FirstMatch(rules, "RUNNER") = "RUNNER"
        \/ \E i \in 1 .. k : FirstMatch(rules, "RUNNER") = rules[i][2]
    BY <1>3, FirstOfMany
  <1>5. FirstMatch(rules, "RUNNER") \in {"RUNNER", "WATCH", "DEAD"}
    BY <1>3, <1>4
  <1> QED
    BY <1>2, <1>5

\* The band of a score after every cap, and the score it is given for.
LEMMA ProxyIsTyped ==
    ASSUME NEW r, r.clustering \in {"resolved", "partial_fallback", "full_fallback"}
    PROVE  /\ ScoreEarlyProxy(r).score \in Nat /\ ScoreEarlyProxy(r).score <= 400
           /\ ScoreEarlyProxy(r).band \in {"RUNNER", "WATCH", "REJECT", "DEAD"}
           /\ \E bd \in {"RUNNER", "WATCH", "REJECT", "DEAD"} :
                /\ ScoreEarlyProxy(r).band = EnforceRunnerInvariants(r, bd)
                /\ bd = "RUNNER" => BandOf(r, Score(r)) = "RUNNER"
  <1> DEFINE Bands == {"RUNNER", "WATCH", "REJECT", "DEAD"}
  <1>1. \A band \in Bands : Capped(band, "WATCH") \in Bands
    BY DEF Capped
  <1>2. PICK k \in Nat : k = Score(r) /\ k <= 400
    BY ScoreIsOnItsScale
  <1>3. PICK band \in Bands : band = BandOf(r, k)
    <2>1. BandFor(k) \in Bands
      BY BandForIsABand
    <2>2. Downgraded(r, BandFor(k)) \in Bands
      BY <2>1, DowngradedIsABand
    <2> QED
      BY <1>1, <2>2 DEF BandOf, ApplyLiquidityEvidenceBandCap
  <1>4. PICK x, y, z : /\ x = [score |-> k, band |-> band]
                       /\ y = [score |-> Most(k, 180), band |-> "WATCH"]
                       /\ z = [score |-> 0, band |-> "DEAD"]
    OBVIOUS
  <1>5. PICK scored : scored = ScoredBand(r, k)
    OBVIOUS
  <1>6. scored \in {x, y, z}
    <2> DEFINE a1 == ~(UnreliableObservedLiquidityProxy(r) /\ Thin(r))
               a2 == QualifiesForUnreliableLiquidityWatch(r)
    <2>1. scored = FirstMatch(<< <<a1, x>>, <<a2, y>> >>, z)
      <3>1. 45 * Point = 180
        BY DEF Point
      <3> QED
        BY <1>3, <1>4, <1>5, <3>1 DEF ScoredBand
    <2> HIDE DEF a1, a2
    <2>2. scored = IF a1 THEN x ELSE IF a2 THEN y ELSE z
      BY <2>1, FirstOfTwo
    <2> QED
      BY <2>2
  <1>7. Most(k, 180) \in Nat /\ Most(k, 180) <= 400
    BY <1>2 DEF Most
  <1>8. PICK sc, bd : /\ sc \in Nat /\ sc <= 400 /\ bd \in Bands
                      /\ scored = [score |-> sc, band |-> bd]
                      /\ bd = "RUNNER" => bd = band
    BY <1>2, <1>3, <1>4, <1>6, <1>7
  <1>9. PICK final \in Bands : final = EnforceRunnerInvariants(r, bd)
    BY <1>1, <1>8 DEF EnforceRunnerInvariants
  <1>10. Enforced(r, scored) = [score |-> sc, band |-> final]
    BY <1>8, <1>9 DEF Enforced
  <1>11. PICK q : q = [score |-> sc, band |-> final]
    OBVIOUS
  <1>12. PICK p, e, more : /\ e = [eligible |-> q.band = "RUNNER" /\ q.score >= Threshold]
                           /\ more = [risks |-> ObservedRiskFlags(r) \cup r.auth.flags,
                                      missing |-> MissingCoreInputs(r)]
                           /\ p = (e ++ q) ++ more
    OBVIOUS
  <1>13. p = ScoreEarlyProxy(r)
    BY <1>2, <1>5, <1>10, <1>11, <1>12 DEF ScoreEarlyProxy, WithEligibility
  <1>14. DOMAIN e = {"eligible"} /\ DOMAIN q = {"score", "band"}
         /\ q.score = sc /\ q.band = final
    BY <1>11, <1>12
  <1>15. p.score = sc /\ p.band = final
    <2>1. PICK v : v = e ++ q
      OBVIOUS
    <2>2. {"score", "band"} \subseteq DOMAIN v /\ v.score = sc /\ v.band = final
      BY <1>14, <2>1 DEF ++
    <2>3. p = v ++ more
      BY <1>12, <2>1
    <2> QED
      BY <2>2, <2>3 DEF ++
  <1>16. /\ bd \in Bands /\ p.band = EnforceRunnerInvariants(r, bd)
         /\ bd = "RUNNER" => BandOf(r, Score(r)) = "RUNNER"
    BY <1>2, <1>3, <1>8, <1>9, <1>15
  <1> QED
    BY <1>8, <1>13, <1>15, <1>16

\* The points of what was found are a sum of some of the five.
LEMMA MechanicalityIsOnItsScale ==
    ASSUME NEW s
    PROVE  AnalyzeAuthenticity(s).mechanicality \in Nat /\ AnalyzeAuthenticity(s).mechanicality <= 100
  <1>1. PICK evs : evs = InTimeOrder(s.trades)
    OBVIOUS
  <1>2. PICK found, sum : found = Mechanical(evs) /\ sum = SumFunctionOnSet(MechanicalPoints, found)
    OBVIOUS
  <1>3. found \in SUBSET DOMAIN MechanicalPoints /\ IsFiniteSet(DOMAIN MechanicalPoints)
    <2>1. DOMAIN MechanicalPoints =
            {"regular interval buys", "structured sell-buy cycle", "repeated identical buy sizes",
             "round-clock aligned buys", "concentrated wallet flow"}
      BY DEF MechanicalPoints, IntervalFlags
    <2>2. found \subseteq
            {"regular interval buys", "structured sell-buy cycle", "repeated identical buy sizes",
             "round-clock aligned buys", "concentrated wallet flow"}
      <3> DEFINE buys == Buys(evs)
                 gaps == SelectSeq(Gaps(buys), LAMBDA d : d > 0)
                 aligned == SelectSeq(gaps, LAMBDA d : NearMultiple(d, 30, 3) \/ NearMultiple(d, 60, 4))
                 many == Len(buys) >= 5
                 c1 == many /\ Len(gaps) >= 4 /\ Regular(gaps)
                 c2 == many /\ Len(gaps) > 0 /\ 2 * Len(aligned) >= Len(gaps)
                 c3 == many /\ RepeatedSizes(buys)
                 c4 == Cardinality(Cycles(evs)) >= 3
                 c5 == FlowConcentrated(evs)
      <3>1. Mechanical(evs) = Matches({<<c1, "regular interval buys">>,
                                       <<c2, "round-clock aligned buys">>,
                                       <<c3, "repeated identical buy sizes">>,
                                       <<c4, "structured sell-buy cycle">>,
                                       <<c5, "concentrated wallet flow">>})
        BY DEF Mechanical
      <3> HIDE DEF c1, c2, c3, c4, c5
      <3>2. PICK p1, p2, p3, p4, p5 :
              /\ p1 = <<c1, "regular interval buys">> /\ p2 = <<c2, "round-clock aligned buys">>
              /\ p3 = <<c3, "repeated identical buy sizes">>
              /\ p4 = <<c4, "structured sell-buy cycle">> /\ p5 = <<c5, "concentrated wallet flow">>
        OBVIOUS
      <3>3. \A p \in {p1, p2, p3, p4, p5} :
              p[2] \in {"regular interval buys", "structured sell-buy cycle",
                        "repeated identical buy sizes", "round-clock aligned buys",
                        "concentrated wallet flow"}
        <4>1. \A c, x : <<c, x>>[2] = x
          OBVIOUS
        <4>2. p1[2] = "regular interval buys" /\ p2[2] = "round-clock aligned buys"
          BY <3>2, <4>1, Zenon
        <4>3. p3[2] = "repeated identical buy sizes" /\ p4[2] = "structured sell-buy cycle"
          BY <3>2, <4>1, Zenon
        <4>4. p5[2] = "concentrated wallet flow"
          BY <3>2, <4>1, Zenon
        <4> QED
          BY <4>2, <4>3, <4>4
      <3>4. found = Matches({p1, p2, p3, p4, p5})
        BY <1>2, <3>1, <3>2
      <3>5. \A x \in found : \E p \in {p1, p2, p3, p4, p5} : x = p[2]
        BY <3>4 DEF Matches
      <3>6. PICK known, pairs :
              /\ known = {"regular interval buys", "structured sell-buy cycle",
                           "repeated identical buy sizes", "round-clock aligned buys",
                           "concentrated wallet flow"}
              /\ pairs = {p1, p2, p3, p4, p5}
        OBVIOUS
      <3>7. /\ \A p \in pairs : p[2] \in known
            /\ \A x \in found : \E p \in pairs : x = p[2]
        BY <3>3, <3>5, <3>6
      <3>8. found \subseteq known
        BY <3>7
      <3> QED
        BY <3>6, <3>8
    <2>3. IsFiniteSet({"regular interval buys"} \cup {"structured sell-buy cycle"}
                      \cup {"repeated identical buy sizes"} \cup {"round-clock aligned buys"}
                      \cup {"concentrated wallet flow"})
      BY FS_Singleton, FS_Union
    <2> QED
      BY <2>1, <2>2, <2>3
  <1>4. \A flag \in DOMAIN MechanicalPoints : MechanicalPoints[flag] \in Nat
    BY DEF MechanicalPoints
  <1>5. sum \in Nat
    <2>1. IsFiniteSet(found)
      BY <1>3, FS_Subset
    <2> QED
      BY <1>2, <1>3, <1>4, <2>1, SumIsNat
  <1>6. PICK more \in Nat : more = IF s.clusterRatio >= 50 * Percent THEN 15 ELSE 0
    OBVIOUS
  <1>7. Mechanicality(s, evs) = Least(100, sum + more)
    BY <1>2, <1>6 DEF Mechanicality
  <1>8. PICK k \in Nat : k <= 100 /\ k = IF evs = <<>> THEN 0 ELSE Mechanicality(s, evs)
    BY <1>5, <1>7 DEF Least
  <1>9. PICK a : a = TradeFindings(s, evs)
    OBVIOUS
  <1>10. "mechanicality" \in DOMAIN a /\ a.mechanicality = k
    BY <1>8, <1>9 DEF TradeFindings
  <1>11. PICK b : b = Labelled(a)
    OBVIOUS
  <1>12. "mechanicality" \in DOMAIN b /\ b.mechanicality = k
    BY <1>10, <1>11 DEF Labelled, ++
  <1>13. PICK c : c = WithVelocity(s, evs, b)
    OBVIOUS
  <1>14. "mechanicality" \in DOMAIN c /\ c.mechanicality = k
    BY <1>12, <1>13 DEF WithVelocity, ++
  <1>15. Concluded(evs, c).mechanicality = k
    BY <1>14 DEF Concluded, ++
  <1>16. AnalyzeAuthenticity(s) = Concluded(evs, c)
    BY <1>1, <1>9, <1>11, <1>13 DEF AnalyzeAuthenticity, AnalyzeTrades
  <1> QED
    BY <1>8, <1>15, <1>16

\* What Detect takes off a hundred leaves ten at least.
LEMMA DetectIsOnItsScale ==
    ASSUME NEW r
    PROVE  Detected(r).score \in Nat /\ Detected(r).score <= 100
  <1>1. PICK bought, trades, known :
          /\ bought = GetBuyEvents(r.mint, 5 * Minute) /\ trades = TradesOf(r.mint)
          /\ known = Live(r.mint)
    OBVIOUS
  <1> DEFINE bump == known /\ \E w \in Wallets(trades) : IsBumpBot(InTimeOrder(By(trades, w)))
             rhythm == MechanicalRhythm(bought)
             identical == IdenticalBuySizes(bought)
  <1>2. PICK base : base = 100 - (IF bump THEN 40 ELSE 0) - (IF rhythm THEN 30 ELSE 0)
                           - (IF identical THEN 20 ELSE 0)
    OBVIOUS
  <1>3. Detected(r).score = IF known THEN base ELSE Least(base, 70)
    BY <1>1, <1>2 DEF Detected, Detect
  <1> HIDE DEF bump, rhythm, identical
  <1>4. base \in Nat /\ base <= 100
    BY <1>2
  <1> QED
    BY <1>3, <1>4 DEF Least

\* The lookups of a window's buyers went one of three ways.
LEMMA ClusteringIsKnown ==
    ASSUME NEW c
    PROVE  ClusteringRowStatus(c) \in {"resolved", "partial_fallback", "full_fallback"}
  <1> DEFINE a1 == c.fallbacks = 0
             a2 == c.fallbacks >= c.raw
  <1>1. ClusteringRowStatus(c) =
          FirstMatch(<<<<a1, "resolved">>, <<a2, "full_fallback">>>>, "partial_fallback")
    BY DEF ClusteringRowStatus
  <1> HIDE DEF a1, a2
  <1>2. FirstMatch(<<<<a1, "resolved">>, <<a2, "full_fallback">>>>, "partial_fallback")
          = IF a1 THEN "resolved" ELSE IF a2 THEN "full_fallback" ELSE "partial_fallback"
    BY FirstOfTwo
  <1> QED
    BY <1>1, <1>2

\* So does a row that carries the decision of a snapshot.
LEMMA ClusteringOfDecided ==
    ASSUME NEW s, SnapshotFields \subseteq DOMAIN s, NEW at, NEW funding,
           NEW r, Carries(r, Decided(s, at, funding))
    PROVE  r.clustering \in {"resolved", "partial_fallback", "full_fallback"}
  <1>1. PICK d, u : d = MeasuredOf(s, funding) /\ u = Decided(s, at, funding)
    OBVIOUS
  <1>2. u.clustering = d.clustering
    <2>1. \A x \in MeasuredFields : u[x] = d[x]
      BY <1>1, DecidedFields
    <2> QED
      BY <2>1 DEF MeasuredFields
  <1>3. r.clustering = u.clustering
    BY <1>1 DEF Carries, DecisionFields, MeasuredFields
  <1>4. d.clustering \in {"resolved", "partial_fallback", "full_fallback"}
    <2>1. PICK liq, c1, c5 : /\ liq = LiquidityProxy(s)
                             /\ c1 = Cluster(s.wallets1m, FirstRoots(funding))
                             /\ c5 = Cluster(s.wallets5m, SecondRoots(funding))
      OBVIOUS
    <2>2. d = Measured(s, funding.healthy, liq, c1, c5)
      BY <1>1, <2>1 DEF MeasuredOf
    <2>3. d.clustering = ClusteringRowStatus(c1)
      BY <2>2 DEF Measured
    <2> QED
      BY <2>3, ClusteringIsKnown
  <1> QED
    BY <1>2, <1>3, <1>4

-----------------------------------------------------------------------------
(* What the highest verdicts take.                                         *)

\* What the fields of a RUNNER say.
RunnerSays(r) ==
    /\ r.clustering # "full_fallback"
    /\ \/ r.depth >= 5 * SOL /\ r.eff5m >= 5
       \/ /\ r.launchSource # "unknown"
          /\ \/ LiquidityForScoring(r) >= 5 * SOL
             \/ r.pool >= 5 * SOL \/ r.liq >= 5 * SOL
    /\ r.age > 30 * Minute => r.auth.subtype # "LAUNCH_RUNNER"

\* And those of a WOW.
WowSays(r) ==
    /\ r.depth >= 5 * SOL /\ r.holders >= 10 /\ r.top10 < 85 * Percent
    /\ r.clustering # "full_fallback"
    /\ r.setup.mode = "LAUNCH_WOW" => r.clustering # "partial_fallback"

\* Rows that carry one decision say the same.
LEMMA CarriedSays ==
    ASSUME NEW d, NEW r, NEW z, Carries(r, d), Carries(z, d)
    PROVE  /\ r.auth = z.auth /\ RunnerSays(z) => RunnerSays(r)
           /\ r.depth = z.depth /\ r.holders = z.holders /\ r.clustering = z.clustering
           /\ r.top10 = z.top10
  <1>1. /\ r.clustering = z.clustering /\ r.depth = z.depth /\ r.eff5m = z.eff5m
        /\ r.launchSource = z.launchSource /\ r.pool = z.pool /\ r.liq = z.liq
        /\ r.age = z.age /\ r.holders = z.holders /\ r.top10 = z.top10
    BY DEF Carries, DecisionFields, SnapshotFields, MeasuredFields
  <1>2. LiquidityForScoring(r) = LiquidityForScoring(z)
    BY <1>1 DEF LiquidityForScoring
  <1> QED
    BY <1>1, <1>2 DEF RunnerSays

\* A score that was downgraded to nothing less than RUNNER has the evidence.
LEMMA DowngradedRunner ==
    ASSUME NEW r, NEW band, Downgraded(r, band) = "RUNNER"
    PROVE  RunnerEligible(r) \/ ValidUnverifiedBondingRunner(r)
  <1> DEFINE a == r.auth
             sound == ValidUnverifiedBondingRunner(r)
             a1 == ~RunnerEligible(r) /\ ~sound
             a2 == a.label = "bot_like" \/ a.bundle \/ a.bump \/ r.clustering = "full_fallback"
             a3 == a.flags \cap IntervalFlags # {}
             a4 == ContaminatedVelocity(a)
             a5 == a.mode = "unknown" /\ ~sound
  <1>1. PICK rules : rules = << <<a1, "WATCH">>, <<a2, "DEAD">>, <<a3, "WATCH">>,
                               <<a4, "WATCH">>, <<a5, "WATCH">> >>
    OBVIOUS
  <1>2. Downgraded(r, band) = IF band # "RUNNER" THEN band ELSE FirstMatch(rules, "RUNNER")
    BY <1>1 DEF Downgraded
  <1>3. FirstMatch(rules, "RUNNER") = "RUNNER"
    BY <1>2
  <1>4. ASSUME ~a1 PROVE RunnerEligible(r) \/ ValidUnverifiedBondingRunner(r)
    BY <1>4
  <1> HIDE DEF a1, a2, a3, a4, a5
  <1>5. PICK k \in Nat : /\ DOMAIN rules = 1 .. k /\ 1 \in 1 .. k /\ rules[1][1] = a1
                         /\ \A i \in 1 .. k : rules[i][2] # "RUNNER"
    <2>1. /\ DOMAIN rules = 1 .. 5 /\ 5 \in Nat /\ 1 \in 1 .. 5
          /\ \A i \in 1 .. 5 : rules[i][2] # "RUNNER"
      BY <1>1
    <2>2. rules[1] = <<a1, "WATCH">>
      BY <1>1
    <2>3. \A c, x : <<c, x>>[1] = c
      OBVIOUS
    <2>4. rules[1][1] = a1
      BY <2>2, <2>3, Zenon
    <2> QED
      BY <2>1, <2>4
  <1>6. \/ /\ FirstMatch(rules, "RUNNER") = "RUNNER" /\ \A i \in 1 .. k : ~rules[i][1]
        \/ \E i \in 1 .. k : /\ FirstMatch(rules, "RUNNER") = rules[i][2]
                             /\ rules[i][1] /\ \A j \in 1 .. i - 1 : ~rules[j][1]
    BY <1>5, FirstOfMany
  <1>7. \A i \in 1 .. k : ~rules[i][1]
    BY <1>3, <1>5, <1>6
  <1>8. ~rules[1][1]
    BY <1>5, <1>7
  <1>9. ~a1
    BY <1>5, <1>8, Zenon
  <1> QED
    BY <1>4, <1>9

\* A RUNNER is not vetoed, not capped and not downgraded.
LEMMA RunnerNeeds ==
    ASSUME NEW r, r.clustering \in {"resolved", "partial_fallback", "full_fallback"},
           ScoreEarlyProxy(r).band = "RUNNER"
    PROVE  RunnerSays(r)
  <1>1. PICK bd \in {"RUNNER", "WATCH", "REJECT", "DEAD"} :
               /\ ScoreEarlyProxy(r).band = EnforceRunnerInvariants(r, bd)
               /\ bd = "RUNNER" => BandOf(r, Score(r)) = "RUNNER"
    BY ProxyIsTyped
  <1>2. \A band \in {"RUNNER", "WATCH", "REJECT", "DEAD"} : Capped(band, "WATCH") # "RUNNER"
    BY DEF Capped, BandRank
  <1>3. EnforceRunnerInvariants(r, bd) =
          IF TerminalCaps(r) THEN "DEAD" ELSE IF RunnerCaps(r) THEN Capped(bd, "WATCH") ELSE bd
    BY DEF EnforceRunnerInvariants
  <1>4. ~TerminalCaps(r) /\ ~RunnerCaps(r) /\ bd = "RUNNER"
    BY <1>1, <1>2, <1>3
  <1>5. r.clustering # "full_fallback"
    BY <1>4 DEF TerminalCaps, HardRugVeto
  <1>6. r.age > 30 * Minute => r.auth.subtype # "LAUNCH_RUNNER"
    BY <1>4 DEF RunnerCaps
  <1>7. PICK low : low = Downgraded(r, BandFor(Score(r)))
    OBVIOUS
  <1>8. low \in {"RUNNER", "WATCH", "REJECT", "DEAD"}
    BY <1>7, BandForIsABand, DowngradedIsABand
  <1>9. "RUNNER" = ApplyLiquidityEvidenceBandCap(r, low)
    BY <1>1, <1>4, <1>7 DEF BandOf
  <1>10. low = "RUNNER"
    BY <1>2, <1>8, <1>9 DEF ApplyLiquidityEvidenceBandCap
  <1>11. RunnerEligible(r) \/ ValidUnverifiedBondingRunner(r)
    BY <1>7, <1>10, DowngradedRunner
  <1>12. CASE RunnerEligible(r)
    <2>1. r.depth >= 5 * SOL /\ r.eff5m >= 5
      BY <1>12 DEF RunnerEligible
    <2> QED
      BY <1>5, <1>6, <2>1 DEF RunnerSays
  <1>13. CASE ValidUnverifiedBondingRunner(r)
    <2>1. ValidBondingLiquidityState(r)
      BY <1>13 DEF ValidUnverifiedBondingRunner
    <2> QED
      BY <1>5, <1>6, <2>1 DEF RunnerSays, ValidBondingLiquidityState
  <1> QED
    BY <1>11, <1>12, <1>13

\* A row whose every lookup failed has a blocker that makes it DEAD.
LEMMA FullFallbackIsSevere ==
    ASSUME NEW r, r.clustering = "full_fallback"
    PROVE  Severe(SynthesizeBlockers(r), "dead")
  <1>1. PICK b : b = <<"full clustering fallback", "dead">>
    OBVIOUS
  <1>2. b[2] = "dead"
    BY <1>1
  <1> DEFINE c1 == r.buyers1m = 0 /\ r.buyers5m = 0
             c2 == r.clustering = "full_fallback"
             c3 == r.clustering = "partial_fallback"
             c4 == ~VelocityAdequate(r)
             c5 == UnknownCatalyst(r)
             c6 == r.proxy.score < Threshold
  <1>3. PICK all, more : /\ all = {<<c1, <<"no real flow", "dead">>>>, <<c2, b>>,
                                   <<c3, <<"partial clustering fallback", "avoid">>>>,
                                   <<c4, <<"weak velocity", "watch">>>>,
                                   <<c5, <<"unknown catalyst", "watch">>>>,
                                   <<c6, <<"proxy score below WOW threshold", "watch">>>>}
                         /\ more = Matches(all)
    OBVIOUS
  <1>4. SynthesizeBlockers(r) = ConcentrationBlockers(r) \cup AuthenticityBlockers(r)
                                \cup LiquidityBlockers(r) \cup more
    BY <1>1, <1>3 DEF SynthesizeBlockers
  <1>5. c2
    OBVIOUS
  <1> HIDE DEF c1, c2, c3, c4, c5, c6
  <1>6. PICK p : p = <<c2, b>>
    OBVIOUS
  <1>7. p \in all
    BY <1>3, <1>6
  <1>8. p[1] /\ p[2] = b
    <2>1. \A c, x : <<c, x>>[1] = c /\ <<c, x>>[2] = x
      OBVIOUS
    <2> QED
      BY <1>5, <1>6, <2>1, Zenon
  <1>9. b \in more
    BY <1>3, <1>7, <1>8 DEF Matches
  <1> QED
    BY <1>2, <1>4, <1>9 DEF Severe

\* A WOW has no dead blocker and passes the conditions of its mode.
LEMMA WowNeeds ==
    ASSUME NEW r, NEW mode, mode = ClassifySetup(r).mode, IsWOW(mode)
    PROVE  /\ r.depth >= 5 * SOL /\ r.holders >= 10 /\ r.top10 < 85 * Percent
           /\ r.clustering # "full_fallback"
           /\ mode = "LAUNCH_WOW" => r.clustering # "partial_fallback"
  <1>1. PICK blockers : blockers = SynthesizeBlockers(r)
    OBVIOUS
  <1>2. mode = SetupMode(r, blockers)
    BY <1>1 DEF ClassifySetup
  <1> DEFINE a1 == Severe(blockers, "dead")
             a2 == ManipulatedMomentum(r)
             a3 == ReviewCandidate(r, blockers)
             a4 == Severe(blockers, "avoid")
             a5 == WowLaunch(r)
             a6 == WowRevival(r)
             a7 == \/ Severe(blockers, "watch")
                   \/ r.proxy.score \in 45 * Point .. Threshold - 1 /\ r.detect.severity # "high"
  <1>3. PICK rules : rules = << <<a1, "DEAD">>, <<a2, "MANIPULATED_MOMENTUM">>,
                               <<a3, "REVIEW_CANDIDATE">>, <<a4, "AVOID">>, <<a5, "LAUNCH_WOW">>,
                               <<a6, "REVIVAL_WOW">>, <<a7, "WATCH">> >>
    OBVIOUS
  <1>4. mode = FirstMatch(rules, "AVOID")
    BY <1>2, <1>3 DEF SetupMode
  <1> HIDE DEF a1, a2, a3, a4, a5, a6, a7
  <1>5. PICK top \in Nat : top = 7 /\ DOMAIN rules = 1 .. top
    BY <1>3
  <1>6. \A c, x : <<c, x>>[2] = x
    OBVIOUS
  <1>7. /\ rules[1][1] = a1 /\ rules[5][1] = a5 /\ rules[6][1] = a6
        /\ rules[1][2] = "DEAD" /\ rules[2][2] = "MANIPULATED_MOMENTUM"
        /\ rules[3][2] = "REVIEW_CANDIDATE" /\ rules[4][2] = "AVOID"
        /\ rules[5][2] = "LAUNCH_WOW" /\ rules[6][2] = "REVIVAL_WOW" /\ rules[7][2] = "WATCH"
    <2>1. rules[1][1] = a1 /\ rules[1][2] = "DEAD"
      <3>1. rules[1] = <<a1, "DEAD">>
        BY <1>3
      <3>2. \A c, x : <<c, x>>[1] = c
        OBVIOUS
      <3>3. rules[1][1] = a1
        BY <3>1, <3>2, Zenon
      <3>4. rules[1][2] = "DEAD"
        BY <1>6, <3>1, Zenon
      <3> QED
        BY <3>3, <3>4, Zenon
    <2>2. rules[2][2] = "MANIPULATED_MOMENTUM"
      <3>1. rules[2] = <<a2, "MANIPULATED_MOMENTUM">>
        BY <1>3
      <3> QED
        BY <1>6, <3>1, Zenon
    <2>3. rules[3][2] = "REVIEW_CANDIDATE"
      <3>1. rules[3] = <<a3, "REVIEW_CANDIDATE">>
        BY <1>3
      <3> QED
        BY <1>6, <3>1, Zenon
    <2>4. rules[4][2] = "AVOID"
      <3>1. rules[4] = <<a4, "AVOID">>
        BY <1>3
      <3> QED
        BY <1>6, <3>1, Zenon
    <2>5. rules[5][1] = a5 /\ rules[5][2] = "LAUNCH_WOW"
      <3>1. rules[5] = <<a5, "LAUNCH_WOW">>
        BY <1>3
      <3>2. \A c, x : <<c, x>>[1] = c
        OBVIOUS
      <3>3. rules[5][1] = a5
        BY <3>1, <3>2, Zenon
      <3>4. rules[5][2] = "LAUNCH_WOW"
        BY <1>6, <3>1, Zenon
      <3> QED
        BY <3>3, <3>4, Zenon
    <2>6. rules[6][1] = a6 /\ rules[6][2] = "REVIVAL_WOW"
      <3>1. rules[6] = <<a6, "REVIVAL_WOW">>
        BY <1>3
      <3>2. \A c, x : <<c, x>>[1] = c
        OBVIOUS
      <3>3. rules[6][1] = a6
        BY <3>1, <3>2, Zenon
      <3>4. rules[6][2] = "REVIVAL_WOW"
        BY <1>6, <3>1, Zenon
      <3> QED
        BY <3>3, <3>4, Zenon
    <2>7. rules[7][2] = "WATCH"
      <3>1. rules[7] = <<a7, "WATCH">>
        BY <1>3
      <3> QED
        BY <1>6, <3>1, Zenon
    <2> QED
      BY <2>1, <2>2, <2>3, <2>4, <2>5, <2>6, <2>7, Zenon
  <1>8. mode \in {"LAUNCH_WOW", "REVIVAL_WOW"}
    BY DEF IsWOW
  <1>9. PICK i \in 1 .. top : /\ mode = rules[i][2] /\ rules[i][1]
                              /\ \A j \in 1 .. i - 1 : ~rules[j][1]
    <2>1. \/ FirstMatch(rules, "AVOID") = "AVOID"
          \/ \E i \in 1 .. top : /\ FirstMatch(rules, "AVOID") = rules[i][2] /\ rules[i][1]
                                 /\ \A j \in 1 .. i - 1 : ~rules[j][1]
      BY <1>5, FirstOfMany
    <2> QED
      BY <1>4, <1>8, <2>1
  <1>10. i \in {5, 6}
    <2>1. i \in Int /\ i \in {1, 2, 3, 4, 5, 6, 7}
      BY <1>5
    <2> QED
      BY <1>7, <1>8, <1>9, <2>1
  <1>11. ~a1
    <2>1. 1 \in 1 .. i - 1
      BY <1>10
    <2>2. ~rules[1][1]
      BY <1>9, <2>1
    <2> QED
      BY <1>7, <2>2, Zenon
  <1>12. r.clustering # "full_fallback"
    BY <1>1, <1>11, FullFallbackIsSevere DEF a1
  <1>13. CASE i = 5
    <2>1. a5
      BY <1>7, <1>9, <1>13, Zenon
    <2>2. WowLaunch(r)
      BY <2>1 DEF a5
    <2>3. /\ r.depth >= 5 * SOL /\ r.holders >= 10 /\ r.top10 < 85 * Percent
          /\ r.clustering # "partial_fallback"
      BY <2>2 DEF WowLaunch, DistributionWOWAllowed, LiquidityReliableForWOW
    <2> QED
      BY <1>12, <2>3
  <1>14. CASE i = 6
    <2>1. a6
      BY <1>7, <1>9, <1>14, Zenon
    <2>2. WowRevival(r)
      BY <2>1 DEF a6
    <2>3. r.depth >= 5 * SOL /\ r.holders >= 10 /\ r.top10 < 85 * Percent
      BY <2>2 DEF WowRevival, DistributionWOWAllowed, LiquidityReliableForWOW
    <2>4. mode # "LAUNCH_WOW"
      BY <1>7, <1>9, <1>14
    <2> QED
      BY <1>12, <2>3, <2>4
  <1> QED
    BY <1>10, <1>13, <1>14
-----------------------------------------------------------------------------
(* From a record to a row.                                                 *)

\* s was taken at time `at` of a record made of the events h.
Collected(s, at, h) ==
    /\ at \in Nat /\ h \in Seq(AnySwap)
    /\ \E mint \in Mint, t \in TokenRecord :
          s = SnapshotOf(mint, t, at) /\ Made(t, h, at) /\ Spanned(t, h)

\* The fields of a snapshot the decision goes by.
LEMMA SnapshotAt ==
    ASSUME NEW mint, NEW t, NEW at
    PROVE  LET s == SnapshotOf(mint, t, at)
               last1m == Within(t.buys, Minute, at)
               last5m == Within(t.buys, 5 * Minute, at)
           IN  /\ SnapshotFields \subseteq DOMAIN s
               /\ s.mint = mint /\ s.last = t.last /\ s.age = Most(at - t.first, 0)
               /\ s.events = t.total /\ s.uniqueBuyers = Cardinality(UniqueBuyers(t))
               /\ s.totalBuy = TotalBuySOL(t) /\ s.totalSell = TotalSellSOL(t)
               /\ s.wallets1m = WalletsAt(t.buys, last1m)
               /\ s.wallets5m = WalletsAt(t.buys, last5m)
               /\ s.topShare = TopWalletBuyShare(t.buys, last5m)
               /\ s.diversity = WalletDiversityRatio(t.buys, last5m)
               /\ s.repeat = RepeatBuyerShare(t.buys, at)
               /\ s.buy1m = TotalSol(t.buys, last1m)
               /\ s.sell1m = TotalSol(t.sells, Within(t.sells, Minute, at))
               /\ s.pool = PoolOf(t) /\ s.depth = t.depth /\ s.reliable = (t.depth >= 0)
               /\ s.mcap = MarketCap(t) /\ s.top10 = Top10HolderPct(t.net)
               /\ s.holders = CountHolders(t.net) /\ s.launchSource = LaunchSource(mint, t)
  <1>1. PICK s : s = SnapshotOf(mint, t, at)
    OBVIOUS
  <1>2. SnapshotFields \subseteq DOMAIN s
    BY <1>1 DEF SnapshotOf, SnapshotFields
  <1>3. /\ s.mint = mint /\ s.last = t.last /\ s.age = Most(at - t.first, 0)
        /\ s.events = t.total /\ s.uniqueBuyers = Cardinality(UniqueBuyers(t))
        /\ s.totalBuy = TotalBuySOL(t) /\ s.totalSell = TotalSellSOL(t)
        /\ s.pool = PoolOf(t) /\ s.depth = t.depth /\ s.reliable = (t.depth >= 0)
        /\ s.mcap = MarketCap(t) /\ s.top10 = Top10HolderPct(t.net)
        /\ s.holders = CountHolders(t.net) /\ s.launchSource = LaunchSource(mint, t)
    BY <1>1 DEF SnapshotOf
  <1>4. /\ s.wallets1m = WalletsAt(t.buys, Within(t.buys, Minute, at))
        /\ s.wallets5m = WalletsAt(t.buys, Within(t.buys, 5 * Minute, at))
        /\ s.topShare = TopWalletBuyShare(t.buys, Within(t.buys, 5 * Minute, at))
        /\ s.diversity = WalletDiversityRatio(t.buys, Within(t.buys, 5 * Minute, at))
        /\ s.repeat = RepeatBuyerShare(t.buys, at)
        /\ s.buy1m = TotalSol(t.buys, Within(t.buys, Minute, at))
        /\ s.sell1m = TotalSol(t.sells, Within(t.sells, Minute, at))
    BY <1>1 DEF SnapshotOf
  <1> QED
    BY <1>1, <1>2, <1>3, <1>4

\* What an answer adds to a row leaves these fields as they were.
RowFields == DecisionFields \cup {"seen", "funding", "proxy", "detect", "auth", "setup"}

\* The verdicts of r are of rows b, c and j on the way to it, with the decision d.
JudgedAs(r, d, b, c, j) ==
    /\ r.auth = AnalyzeAuthenticity(b) /\ c.auth = r.auth
    /\ r.proxy = ScoreEarlyProxy(c) /\ r.detect = Detected(c)
    /\ r.setup = ClassifySetup(j)
    /\ Carries(c, d) /\ Carries(j, d)

\* A scored row has the decision, and remembers what it was made of.
LEMMA ScoredFields ==
    ASSUME NEW s, SnapshotFields \subseteq DOMAIN s, NEW at, NEW funding, NEW h
    PROVE  LET r == [seen |-> h] ++ ScoredRow(s, at, funding)
           IN  /\ Carries(r, Decided(s, at, funding)) /\ RowFields \subseteq DOMAIN r
               /\ r.seen = h /\ r.funding = funding /\ r.asOf = at /\ r.mint = s.mint
               /\ \E b, c, j : JudgedAs(r, Decided(s, at, funding), b, c, j)
  <1>1. PICK d : d = Decided(s, at, funding)
    OBVIOUS
  <1>2. DecisionFields \subseteq DOMAIN d /\ d.asOf = at /\ d.mint = s.mint
    BY <1>1, DecidedFields DEF SnapshotFields
  <1>3. Carries(d, d)
    BY <1>2 DEF Carries
  <1>4. PICK b : b = WithBonding(d)
    OBVIOUS
  <1>5. Carries(b, d)
    <2>1. PICK more : more = [bondingState |-> ValidBondingLiquidityState(d)]
      OBVIOUS
    <2>2. DOMAIN more \cap DecisionFields = {}
      BY <2>1 DEF DecisionFields, SnapshotFields, MeasuredFields, LabelFields
    <2> QED
      BY <1>3, <1>4, <2>1, <2>2, CarriesOn DEF WithBonding
  <1>6. PICK a, c : a = AnalyzeAuthenticity(b) /\ c = Authenticated(b, a)
    OBVIOUS
  <1>7. Carries(c, d) /\ "auth" \in DOMAIN c /\ c.auth = a
    <2>1. PICK v, more : v = Velocity(b.mint, a) /\ more = [auth |-> a] ++ v
      OBVIOUS
    <2>2. DOMAIN v = {"solPerTrade", "solPerBuyer"}
      BY <2>1 DEF Velocity
    <2>3. DOMAIN more = {"auth", "solPerTrade", "solPerBuyer"} /\ more.auth = a
      <3>1. PICK x : x = [auth |-> a]
        OBVIOUS
      <3>2. DOMAIN x = {"auth"} /\ x.auth = a
        BY <3>1
      <3>3. more = x ++ v
        BY <2>1, <3>1
      <3> QED
        BY <2>2, <3>2, <3>3 DEF ++
    <2>4. DOMAIN more \cap DecisionFields = {}
      BY <2>3 DEF DecisionFields, SnapshotFields, MeasuredFields, LabelFields
    <2>5. c = more ++ b
      BY <1>6, <2>1 DEF Authenticated
    <2>6. Carries(c, d)
      BY <1>5, <2>4, <2>5, CarriesOn
    <2> QED
      BY <2>3, <2>5, <2>6 DEF ++
  <1>8. PICK j : j = Judged(c)
    OBVIOUS
  <1>9. /\ Carries(j, d) /\ {"auth", "proxy", "detect"} \subseteq DOMAIN j
        /\ j.auth = a /\ j.proxy = ScoreEarlyProxy(c) /\ j.detect = Detected(c)
    <2>1. PICK more : more = [proxy |-> ScoreEarlyProxy(c), mode |-> TokenMode(c),
                              detect |-> Detected(c)]
      OBVIOUS
    <2>2. /\ DOMAIN more = {"proxy", "mode", "detect"}
          /\ more.proxy = ScoreEarlyProxy(c) /\ more.detect = Detected(c)
      BY <2>1
    <2>3. DOMAIN more \cap DecisionFields = {}
      BY <2>2 DEF DecisionFields, SnapshotFields, MeasuredFields, LabelFields
    <2>4. j = more ++ c
      BY <1>8, <2>1 DEF Judged
    <2>5. Carries(j, d)
      BY <1>7, <2>3, <2>4, CarriesOn
    <2> QED
      BY <1>7, <2>2, <2>4, <2>5 DEF ++
  <1>10. PICK k : k = WithSetup(j)
    OBVIOUS
  <1>11. /\ Carries(k, d) /\ {"auth", "proxy", "detect", "setup"} \subseteq DOMAIN k
         /\ k.auth = j.auth /\ k.proxy = j.proxy /\ k.detect = j.detect
         /\ k.setup = ClassifySetup(j)
    <2>1. PICK more : more = [setup |-> ClassifySetup(j)]
      OBVIOUS
    <2>5. DOMAIN more = {"setup"} /\ more.setup = ClassifySetup(j)
      BY <2>1
    <2>2. DOMAIN more \cap DecisionFields = {}
      BY <2>1 DEF DecisionFields, SnapshotFields, MeasuredFields, LabelFields
    <2>3. k = more ++ j
      BY <1>10, <2>1 DEF WithSetup
    <2>4. Carries(k, d)
      BY <1>9, <2>2, <2>3, CarriesOn
    <2> QED
      BY <1>9, <2>3, <2>4, <2>5 DEF ++
  <1>12. PICK f : f = [funding |-> funding] ++ k
    OBVIOUS
  <1>13. /\ Carries(f, d) /\ {"funding", "auth", "proxy", "detect", "setup"} \subseteq DOMAIN f
         /\ f.funding = funding /\ f.setup = k.setup
         /\ f.auth = k.auth /\ f.proxy = k.proxy /\ f.detect = k.detect
    <2>1. PICK more : more = [funding |-> funding]
      OBVIOUS
    <2>2. DOMAIN more = {"funding"} /\ more.funding = funding
      BY <2>1
    <2>3. DOMAIN more \cap DecisionFields = {}
      BY <2>2 DEF DecisionFields, SnapshotFields, MeasuredFields, LabelFields
    <2>4. f = more ++ k
      BY <1>12, <2>1
    <2>5. Carries(f, d)
      BY <1>11, <2>3, <2>4, CarriesOn
    <2> QED
      BY <1>11, <2>2, <2>4, <2>5 DEF ++
  <1>14. PICK r : r = [seen |-> h] ++ f
    OBVIOUS
  <1>15. /\ Carries(r, d)
         /\ {"seen", "funding", "auth", "proxy", "detect", "setup"} \subseteq DOMAIN r
         /\ r.funding = funding /\ r.seen = h /\ r.setup = f.setup
         /\ r.auth = f.auth /\ r.proxy = f.proxy /\ r.detect = f.detect
    <2>1. PICK more : more = [seen |-> h]
      OBVIOUS
    <2>2. DOMAIN more = {"seen"} /\ more.seen = h
      BY <2>1
    <2>3. DOMAIN more \cap DecisionFields = {}
      BY <2>2 DEF DecisionFields, SnapshotFields, MeasuredFields, LabelFields
    <2>4. r = more ++ f
      BY <1>14, <2>1
    <2>5. Carries(r, d)
      BY <1>13, <2>3, <2>4, CarriesOn
    <2> QED
      BY <1>13, <2>2, <2>4, <2>5 DEF ++
  <1>16. RowFields \subseteq DOMAIN r /\ r.asOf = at /\ r.mint = s.mint
    <2>1. "asOf" \in DecisionFields /\ "mint" \in DecisionFields
      BY DEF DecisionFields, LabelFields, SnapshotFields
    <2> QED
      BY <1>2, <1>15, <2>1 DEF Carries, RowFields
  <1>17. r = [seen |-> h] ++ ScoredRow(s, at, funding)
    BY <1>1, <1>4, <1>6, <1>8, <1>10, <1>12, <1>14 DEF ScoredRow, WithAuthenticity
  <1>18. JudgedAs(r, Decided(s, at, funding), b, c, j)
    BY <1>1, <1>6, <1>7, <1>9, <1>11, <1>13, <1>15 DEF JudgedAs
  <1> QED
    BY <1>1, <1>15, <1>16, <1>17, <1>18

\* Ranking a row only adds to it.
LEMMA RankedFields ==
    ASSUME NEW r, RowFields \subseteq DOMAIN r, NEW best
    PROVE  LET u == Ranked(r, best)
           IN  /\ RowFields \subseteq DOMAIN u /\ \A x \in RowFields : u[x] = r[x]
               /\ u.priority = PriorityLabel(r, best) /\ u.tier = QualityTier(u)
  <1> DEFINE AddedFields == {"priority", "whyNow", "blocker", "verdict", "analogue",
                             "timeToOutcome", "upgrade", "invalidate", "actionability", "trust",
                             "trustReason", "trigger", "noTrade"}
  <1>1. PICK more : more = [priority |-> PriorityLabel(r, best)] ++ Rationale(r)
    OBVIOUS
  <1>2. DOMAIN more = AddedFields /\ more.priority = PriorityLabel(r, best)
    <2>1. PICK a, b : a = [priority |-> PriorityLabel(r, best)] /\ b = Rationale(r)
      OBVIOUS
    <2>2. DOMAIN a = {"priority"} /\ a.priority = PriorityLabel(r, best)
      BY <2>1
    <2>3. DOMAIN b = AddedFields \ {"priority"}
      BY <2>1 DEF Rationale
    <2> QED
      BY <1>1, <2>1, <2>2, <2>3 DEF ++
  <1>3. AddedFields \cap RowFields = {}
    BY DEF RowFields, DecisionFields, SnapshotFields, MeasuredFields, LabelFields
  <1>4. PICK l : l = more ++ r
    OBVIOUS
  <1>5. /\ RowFields \cup AddedFields \subseteq DOMAIN l
        /\ \A x \in RowFields : l[x] = r[x]
        /\ l.priority = PriorityLabel(r, best)
    <2> HIDE DEF AddedFields
    <2>1. "priority" \in AddedFields
      BY DEF AddedFields
    <2> QED
      BY <1>2, <1>3, <1>4, <2>1 DEF ++
  <1>6. PICK e : e = [focus |-> OperatorFocus(l), relative |-> RelativeSetupLabel(l),
                      asymmetry |-> AsymmetryLabel(l), tier |-> QualityTier(l)]
    OBVIOUS
  <1>7. DOMAIN e = {"focus", "relative", "asymmetry", "tier"} /\ e.tier = QualityTier(l)
    BY <1>6
  <1>8. DOMAIN e \cap RowFields = {} /\ DOMAIN e \cap AddedFields = {}
    BY <1>7 DEF RowFields, DecisionFields, SnapshotFields, MeasuredFields, LabelFields
  <1>9. PICK u : u = e ++ l
    OBVIOUS
  <1>10. /\ RowFields \subseteq DOMAIN u
         /\ \A x \in RowFields \cup AddedFields : u[x] = l[x]
         /\ u.tier = QualityTier(l)
    <2> HIDE DEF AddedFields
    <2> QED
      BY <1>5, <1>7, <1>8, <1>9 DEF ++
  <1>11. QualityTier(u) = QualityTier(l)
    <2>1. u.priority = l.priority /\ u.actionability = l.actionability /\ u.trust = l.trust
      BY <1>10
    <2> QED
      BY <2>1 DEF QualityTier
  <1>12. u = Ranked(r, best)
    BY <1>1, <1>4, <1>6, <1>9 DEF Ranked
  <1> QED
    BY <1>5, <1>10, <1>11, <1>12

-----------------------------------------------------------------------------
(* The invariant of building an answer.                                    *)

Sequential(f) == \E S : f \in Seq(S)

\* No two of one token.
OfSeparateTokens(f) == \A i, j \in DOMAIN f : f[i].mint = f[j].mint => i = j

\* The row's verdicts are of their kinds, and its fields say what they take.
Judgement(r) ==
    /\ VerdictTypes(r)
    /\ r.proxy.band = "RUNNER" => RunnerSays(r)
    /\ IsWOW(r.setup.mode) => WowSays(r)

\* Verdicts that were given by its rules.
LEMMA JudgedWell ==
    ASSUME NEW s, SnapshotFields \subseteq DOMAIN s, NEW at, NEW funding, NEW r, NEW b, NEW c,
           NEW j, JudgedAs(r, Decided(s, at, funding), b, c, j),
           Carries(r, Decided(s, at, funding))
    PROVE  Judgement(r)
  <1>1. PICK d : d = Decided(s, at, funding)
    OBVIOUS
  <1>2. /\ r.auth = AnalyzeAuthenticity(b) /\ c.auth = r.auth
        /\ r.proxy = ScoreEarlyProxy(c) /\ r.detect = Detected(c)
        /\ r.setup = ClassifySetup(j)
        /\ Carries(c, d) /\ Carries(j, d) /\ Carries(r, d)
    BY <1>1 DEF JudgedAs
  <1>3. c.clustering \in {"resolved", "partial_fallback", "full_fallback"}
    BY <1>1, <1>2, ClusteringOfDecided
  <1>4. VerdictTypes(r)
    BY <1>2, <1>3, ProxyIsTyped, MechanicalityIsOnItsScale, DetectIsOnItsScale DEF VerdictTypes
  <1>5. ASSUME r.proxy.band = "RUNNER" PROVE RunnerSays(r)
    <2>1. ScoreEarlyProxy(c).band = "RUNNER"
      BY <1>2, <1>5
    <2>2. RunnerSays(c)
      BY <1>3, <2>1, RunnerNeeds
    <2> QED
      BY <1>2, <2>2, CarriedSays
  <1>6. ASSUME IsWOW(r.setup.mode) PROVE WowSays(r)
    <2>1. PICK mode : mode = ClassifySetup(j).mode
      OBVIOUS
    <2>2. mode = r.setup.mode /\ IsWOW(mode)
      BY <1>2, <1>6, <2>1
    <2>3. /\ j.depth >= 5 * SOL /\ j.holders >= 10 /\ j.top10 < 85 * Percent
          /\ j.clustering # "full_fallback"
          /\ mode = "LAUNCH_WOW" => j.clustering # "partial_fallback"
      BY <2>1, <2>2, WowNeeds
    <2>4. /\ r.depth = j.depth /\ r.holders = j.holders /\ r.clustering = j.clustering
          /\ r.top10 = j.top10
      BY <1>2, CarriedSays
    <2> QED
      BY <2>2, <2>3, <2>4 DEF WowSays
  <1> QED
    BY <1>4, <1>5, <1>6 DEF Judgement

\* The row's decision was made from a snapshot of what its token had been told.
Scored(r) ==
    /\ RowFields \subseteq DOMAIN r /\ Judgement(r)
    /\ \E s : Collected(s, r.asOf, r.seen) /\ Carries(r, Decided(s, r.asOf, r.funding))

ScoredRows(done) ==
    /\ Sequential(done) /\ OfSeparateTokens(done)
    /\ \A i \in DOMAIN done : Scored(done[i])

\* Snapshots still to score, and rows of other tokens.
BuildInv(b) ==
    /\ b = [at |-> b.at, query |-> b.query, left |-> b.left, done |-> b.done, seen |-> b.seen]
    /\ b.at \in Nat /\ b.at <= now /\ b.query \in Query
    /\ Sequential(b.left) /\ OfSeparateTokens(b.left)
    /\ \A i \in DOMAIN b.left : Collected(b.left[i], b.at, b.seen[b.left[i].mint])
    /\ ScoredRows(b.done) /\ Len(b.done) <= b.query.limit
    /\ \A i \in DOMAIN b.left, j \in DOMAIN b.done : b.left[i].mint # b.done[j].mint

RowsInv == rows = <<>> \/ \E done : ScoredRows(done) /\ rows = AssignPriorityLabels(done)

PipelineInv ==
    /\ StoreInv /\ now >= 8 * Hour
    /\ events \in 0 .. MaxEvents
    /\ build # Idle => BuildInv(build)
    /\ RowsInv

\* Nothing is built of an empty store.
LEMMA PipelineInitInv == PipelineInit => PipelineInv
  <1> SUFFICES ASSUME PipelineInit PROVE PipelineInv
    OBVIOUS
  <1>1. now = 8 * Hour /\ 8 * Hour \in Nat
    BY DEF PipelineInit, Hour
  <1>2. RingInv
    BY RingInitInv DEF PipelineInit
  <1>3. /\ tokens \in [Mint -> TokenRecord \cup {NoToken}] /\ hist \in [Mint -> Seq(AnySwap)]
        /\ \A mint \in Mint : Sound(tokens[mint], hist[mint], now)
    BY DEF PipelineInit, Sound
  <1>4. StoreInv
    BY <1>1, <1>2, <1>3 DEF StoreInv
  <1>5. events \in 0 .. MaxEvents
    BY PipelineAssumption DEF PipelineInit
  <1> QED
    BY <1>1, <1>4, <1>5 DEF PipelineInit, PipelineInv, RowsInv

\* The store as it was.
LEMMA StoreUnchangedInv ==
    ASSUME StoreInv, UNCHANGED <<m, buf, pos, n, log, tokens, now, hist>>
    PROVE  StoreInv'
  <1>1. RingInv'
    BY RingStepInv DEF ringVars, StoreInv
  <1>2. \A t, h : Sound(t, h, now') = Sound(t, h, now)
    OBVIOUS
  <1> QED
    BY <1>1, <1>2 DEF StoreInv

\* The store is told something: whatever is being built goes on as it was.
LEMMA HappensInv ==
    ASSUME PipelineInv, Happens, StoreInv', now' \in Nat, now' >= now
    PROVE  PipelineInv'
  <1>1. build' = build /\ rows' = <<>> /\ events' \in 0 .. MaxEvents
    BY PipelineAssumption DEF PipelineInv, Happens
  <1>2. now \in Nat /\ now >= 8 * Hour /\ 8 * Hour \in Nat
    BY DEF PipelineInv, StoreInv, Hour
  <1>3. now' >= 8 * Hour
    BY <1>2
  <1>4. ASSUME BuildInv(build) PROVE BuildInv(build)'
    <2>1. build.at \in Nat /\ build.at <= now
      BY <1>4 DEF BuildInv
    <2>2. build.at <= now'
      BY <1>2, <2>1
    <2> QED
      BY <1>1, <1>4, <2>2 DEF BuildInv
  <1> QED
    BY <1>1, <1>3, <1>4 DEF PipelineInv, RowsInv

\* A burst is applied to one token's record.
LEMMA DeliverInv ==
    ASSUME PipelineInv, NEW mint \in Mint, NEW burst \in Burst[mint], Deliver(mint, burst)
    PROVE  PipelineInv'
  <1>1. PICK evs : evs = [i \in DOMAIN burst |-> SwapOf(mint, burst[i])]
    OBVIOUS
  <1>2. PICK t, h, u : /\ t = RecordOf(evs[1]) /\ h = hist[mint]
                       /\ u = FoldLeft(Recorded, t, evs)
    OBVIOUS
  <1>3. /\ Happens /\ now' = now
        /\ tokens' = [tokens EXCEPT ![mint] = u] /\ hist' = [hist EXCEPT ![mint] = h \o evs]
        /\ UNCHANGED <<m, buf, pos, n, log>>
    <2>1. hist' = [hist EXCEPT ![mint] = @ \o evs] /\ tokens' = [tokens EXCEPT ![mint] = u]
      BY <1>1, <1>2 DEF Deliver
    <2> QED
      BY <1>2, <2>1 DEF Deliver, PipelineInv, StoreInv
  <1>4. /\ RingInv /\ now \in Nat /\ now >= 8 * Hour
        /\ tokens \in [Mint -> TokenRecord \cup {NoToken}] /\ hist \in [Mint -> Seq(AnySwap)]
        /\ \A a \in Mint : Sound(tokens[a], hist[a], now)
    BY DEF PipelineInv, StoreInv
  <1>5. /\ evs \in Seq(AnySwap) /\ evs # <<>> /\ \A i \in DOMAIN evs : evs[i].mint = mint
    <2>1. /\ burst # <<>>
          /\ burst \in Seq([wallet : Wallet, isBuy : BOOLEAN, ago : 0 .. 8 * Hour,
                            sol : Sol, qty : Qty])
      BY BurstAssumption
    <2>2. DOMAIN burst = 1 .. Len(burst) /\ Len(burst) \in Nat \ {0}
      BY <2>1
    <2>3. ASSUME NEW i \in DOMAIN burst
          PROVE  SwapOf(mint, burst[i]) \in AnySwap /\ SwapOf(mint, burst[i]).mint = mint
      <3>1. PICK e : e = burst[i]
        OBVIOUS
      <3>2. e \in [wallet : Wallet, isBuy : BOOLEAN, ago : 0 .. 8 * Hour, sol : Sol, qty : Qty]
        <4>1. \A S : burst \in Seq(S) => e \in S
          BY <2>2, <3>1
        <4> QED
          BY <2>1, <4>1
      <3>3. /\ e.wallet \in Wallet /\ e.isBuy \in BOOLEAN /\ e.ago \in 0 .. 8 * Hour
            /\ e.sol \in Sol /\ e.qty \in Qty
        BY <3>2
      <3>4. now - e.ago \in Nat
        <4>1. PICK k \in Nat : k = 8 * Hour
          BY DEF Hour
        <4>2. PICK ago, at : ago = e.ago /\ at = now
          OBVIOUS
        <4>3. ago \in 0 .. k /\ at \in Nat /\ at >= k
          BY <1>4, <3>3, <4>1, <4>2
        <4>4. at - ago \in Nat
          BY <4>3
        <4> QED
          BY <4>2, <4>4
      <3> QED
        BY <3>1, <3>3, <3>4 DEF SwapOf, AnySwap
    <2>4. \A i \in 1 .. Len(burst) : evs[i] \in AnySwap /\ evs[i].mint = mint
      BY <1>1, <2>2, <2>3
    <2>5. DOMAIN evs = 1 .. Len(burst) /\ evs = [i \in 1 .. Len(burst) |-> evs[i]]
      BY <1>1, <2>2
    <2>6. evs \in [1 .. Len(burst) -> AnySwap]
      BY <2>4, <2>5
    <2> QED
      BY <2>2, <2>4, <2>5, <2>6
  <1>6. evs[1] \in AnySwap /\ evs[1].mint = mint
    BY <1>5
  <1>7. Made(t, h, now) /\ (Spanned(t, h) \/ (t.first = evs[1].at /\ t.last = evs[1].at))
    <2>1. Sound(tokens[mint], h, now)
      BY <1>2, <1>4
    <2>2. CASE Live(mint)
      <3>1. t = tokens[mint] /\ t # NoToken
        BY <1>2, <1>6, <2>2 DEF Live, RecordOf
      <3> QED
        BY <2>1, <3>1 DEF Sound
    <2>3. CASE ~Live(mint)
      <3>1. h = <<>> /\ t = NewToken(evs[1])
        BY <1>2, <1>6, <2>1, <2>3 DEF Live, RecordOf, Sound
      <3> QED
        BY <1>6, <3>1, NewTokenMade
    <2> QED
      BY <2>2, <2>3
  <1>8. h \in Seq(AnySwap)
    BY <1>2, <1>4
  <1>9. Made(u, h \o evs, now) /\ Spanned(u, h \o evs) /\ u \in TokenRecord
    BY <1>2, <1>4, <1>5, <1>7, <1>8, DeliveredMade
  <1>10. h \o evs \in Seq(AnySwap) /\ Sound(u, h \o evs, now)
    BY <1>5, <1>8, <1>9, NoTokenAssumption DEF Sound
  <1>11. /\ tokens' \in [Mint -> TokenRecord \cup {NoToken}] /\ hist' \in [Mint -> Seq(AnySwap)]
         /\ \A a \in Mint : Sound(tokens'[a], hist'[a], now)
    <2>1. PICK g : g = h \o evs
      OBVIOUS
    <2> QED
      BY <1>3, <1>4, <1>9, <1>10, <2>1
  <1>12. StoreInv'
    <2>1. RingInv'
      BY <1>3, <1>4, RingStepInv DEF ringVars
    <2> QED
      BY <1>3, <1>4, <1>11, <2>1 DEF StoreInv
  <1> QED
    BY <1>3, <1>4, <1>12, HappensInv

\* Time passes, or the store is pruned, cleared or told a depth.
LEMMA StoreWritesInv ==
    ASSUME PipelineInv, StoreWrites \/ \E d \in Pause : Pass(d)
    PROVE  PipelineInv'
  <1>1. StoreInv /\ now \in Nat
    BY DEF PipelineInv, StoreInv
  <1>2. ASSUME NEW d \in Pause, Pass(d) PROVE PipelineInv'
    <2>1. /\ Happens /\ now' = now + d /\ d \in Nat
          /\ UNCHANGED <<m, buf, pos, n, log, tokens, hist>>
      BY <1>2, PipelineAssumption DEF Pass
    <2>2. RingInv'
      BY <1>1, <2>1, RingStepInv DEF ringVars, StoreInv
    <2>3. StoreInv' /\ now' \in Nat /\ now' >= now
      BY <1>1, <2>1, <2>2, TimePassesInv
    <2> QED
      BY <2>1, <2>3, HappensInv
  <1>3. CASE StoreWrites
    <2>1. Happens /\ now' = now
      BY <1>3 DEF StoreWrites, PruneStale, Reset, UpdateDepth
    <2>2. RingInv'
      <3>1. CASE PruneStale \/ \E mint \in Mint, d \in Depth : UpdateDepth(mint, d)
        BY <1>1, <3>1, RingStepInv DEF PruneStale, UpdateDepth, ringVars, StoreInv
      <3>2. CASE Reset
        <4>1. StoreNext
          BY <3>2 DEF StoreNext
        <4> QED
          BY <1>1, <4>1, StoreStepOnRing, RingStepInv DEF StoreInv
      <3> QED
        BY <1>3, <3>1, <3>2 DEF StoreWrites
    <2>3. StoreInv'
      <3>1. CASE PruneStale
        BY <1>1, <2>2, <3>1, PruneStaleInv
      <3>2. CASE Reset
        BY <1>1, <2>2, <3>2, ResetInv
      <3>3. ASSUME NEW mint \in Mint, NEW d \in Depth, UpdateDepth(mint, d) PROVE StoreInv'
        <4>1. d \in Int
          BY PipelineAssumption
        <4> QED
          BY <1>1, <2>2, <3>3, <4>1, UpdateDepthInv
      <3> QED
        BY <1>3, <3>1, <3>2, <3>3 DEF StoreWrites
    <2> QED
      BY <1>1, <2>1, <2>3, HappensInv
  <1> QED
    BY <1>2, <1>3

\* A row added to others of other tokens.
LEMMA OneMoreRow ==
    ASSUME NEW done, ScoredRows(done), NEW r, Scored(r), \A j \in DOMAIN done : done[j].mint # r.mint
    PROVE  /\ ScoredRows(Append(done, r)) /\ Len(Append(done, r)) = Len(done) + 1
           /\ \A j \in DOMAIN Append(done, r) : \/ Append(done, r)[j].mint = r.mint
                                               \/ \E i \in DOMAIN done : Append(done, r)[j] = done[i]
  <1>1. PICK S : done \in Seq(S)
    BY DEF ScoredRows, Sequential
  <1>2. PICK T, more : T = S \cup {r} /\ more = Append(done, r)
    OBVIOUS
  <1>3. done \in Seq(T) /\ r \in T
    <2>1. DOMAIN done = 1 .. Len(done) /\ Len(done) \in Nat /\ \A i \in 1 .. Len(done) : done[i] \in T
      BY <1>1, <1>2
    <2>2. done = [i \in 1 .. Len(done) |-> done[i]]
      BY <1>1
    <2> QED
      BY <1>2, <2>1, <2>2
  <1>4. /\ more \in Seq(T) /\ Len(more) = Len(done) + 1
        /\ \A i \in DOMAIN done : more[i] = done[i]
        /\ more[Len(done) + 1] = r
        /\ \A i \in DOMAIN more : i \in DOMAIN done \/ i = Len(done) + 1
        /\ Len(done) \in Nat
    BY <1>2, <1>3, AppendedElements
  <1>5. Sequential(more)
    BY <1>4 DEF Sequential
  <1>6. OfSeparateTokens(more)
    BY <1>4 DEF OfSeparateTokens, ScoredRows
  <1>7. \A i \in DOMAIN more : Scored(more[i])
    BY <1>4 DEF ScoredRows
  <1> QED
    BY <1>2, <1>4, <1>5, <1>6, <1>7 DEF ScoredRows

\* The build begins with one snapshot of each token it collects.
LEMMA CollectInv ==
    ASSUME PipelineInv, NEW query \in Query, Collect(query)
    PROVE  PipelineInv'
  <1>1. PICK snaps \in RecentTokens(query.window) :
          build' = [at |-> now, query |-> query, left |-> snaps, done |-> <<>>, seen |-> hist]
    BY DEF Collect
  <1>2. /\ rows' = <<>> /\ now' = now /\ events' = events
        /\ UNCHANGED <<m, buf, pos, n, log, tokens, hist>>
    BY DEF Collect
  <1>3. /\ now \in Nat /\ hist \in [Mint -> Seq(AnySwap)]
        /\ tokens \in [Mint -> TokenRecord \cup {NoToken}]
        /\ \A a \in Mint : Sound(tokens[a], hist[a], now)
    BY DEF PipelineInv, StoreInv
  <1>4. StoreInv'
    BY <1>2, StoreUnchangedInv DEF PipelineInv
  <1>5. PICK recent, taken :
          /\ recent = {mint \in Mint : Live(mint) /\ tokens[mint].last > now - query.window}
          /\ taken = {SnapshotOf(mint, tokens[mint], now) : mint \in recent}
          /\ snaps \in [1 .. Cardinality(taken) -> taken] /\ IsInjective(snaps)
    BY DEF RecentTokens
  <1>6. Cardinality(taken) \in Nat
    <2>1. IsFiniteSet(recent)
      BY <1>5, PipelineAssumption, FS_Subset
    <2>2. PICK p : p = [mint \in recent |-> SnapshotOf(mint, tokens[mint], now)]
      OBVIOUS
    <2>3. IsFiniteSet({p[mint] : mint \in recent})
      BY <2>1, ImageIsFinite
    <2>4. taken = {p[mint] : mint \in recent}
      BY <1>5, <2>2
    <2> QED
      BY <2>3, <2>4, FS_CardinalityType
  <1>7. ASSUME NEW i \in DOMAIN snaps
        PROVE  /\ snaps[i].mint \in Mint /\ snaps[i] = SnapshotOf(snaps[i].mint, tokens[snaps[i].mint], now)
               /\ Collected(snaps[i], now, hist[snaps[i].mint])
    <2>1. snaps[i] \in taken
      BY <1>5
    <2>2. PICK mint \in recent : snaps[i] = SnapshotOf(mint, tokens[mint], now)
      BY <1>5, <2>1
    <2>3. mint \in Mint /\ tokens[mint] # NoToken
      BY <1>5 DEF Live
    <2>4. snaps[i].mint = mint
      BY <2>2, SnapshotAt
    <2>5. tokens[mint] \in TokenRecord /\ Made(tokens[mint], hist[mint], now)
          /\ Spanned(tokens[mint], hist[mint]) /\ hist[mint] \in Seq(AnySwap)
      BY <1>3, <2>3 DEF Sound
    <2> QED
      BY <1>3, <2>2, <2>3, <2>4, <2>5 DEF Collected
  <1>8. OfSeparateTokens(snaps) /\ Sequential(snaps)
    <2>1. \A i, j \in DOMAIN snaps : snaps[i].mint = snaps[j].mint => snaps[i] = snaps[j]
      BY <1>7
    <2>2. OfSeparateTokens(snaps)
      BY <1>5, <2>1 DEF OfSeparateTokens, IsInjective
    <2>3. PICK k \in Nat : k = Cardinality(taken)
      BY <1>6
    <2>4. snaps \in [1 .. k -> taken]
      BY <1>5, <2>3
    <2>5. snaps \in Seq(taken)
      BY <2>4
    <2> QED
      BY <2>2, <2>5 DEF Sequential
  <1>9. PICK b : b = [at |-> now, query |-> query, left |-> snaps, done |-> <<>>, seen |-> hist]
    OBVIOUS
  <1>10. BuildInv(b)
    <2>1. /\ b.at = now /\ b.query = query /\ b.left = snaps /\ b.done = <<>> /\ b.seen = hist
          /\ b = [at |-> b.at, query |-> b.query, left |-> b.left, done |-> b.done, seen |-> b.seen]
      BY <1>9
    <2>2. \A i \in DOMAIN b.left : Collected(b.left[i], b.at, b.seen[b.left[i].mint])
      BY <1>7, <2>1
    <2>3. ScoredRows(<<>>)
      BY DEF ScoredRows, Sequential, OfSeparateTokens
    <2>4. Len(<<>>) <= query.limit /\ DOMAIN <<>> = {}
      <3>1. query.limit \in Nat
        BY PipelineAssumption
      <3> QED
        BY <3>1
    <2>5. \A i \in DOMAIN b.left, j \in DOMAIN b.done : b.left[i].mint # b.done[j].mint
      BY <2>1, <2>4
    <2> QED
      BY <1>3, <1>8, <2>1, <2>2, <2>3, <2>4, <2>5 DEF BuildInv
  <1>11. BuildInv(build)'
    BY <1>1, <1>2, <1>9, <1>10 DEF BuildInv
  <1> QED
    BY <1>2, <1>4, <1>11 DEF PipelineInv, RowsInv

\* A row scored from a collected snapshot, with what the store has by then.
LEMMA ScoreNextInv ==
    ASSUME PipelineInv, NEW funding \in Funding, ScoreNext(funding)
    PROVE  PipelineInv'
  <1>1. PICK b, s, h, r :
          /\ b = build /\ s = Head(b.left) /\ h = b.seen[s.mint]
          /\ r = [seen |-> h] ++ ScoredRow(s, b.at, funding)
    OBVIOUS
  <1>2. /\ BuildInv(b) /\ b.left # <<>> /\ ~(Len(b.done) >= b.query.limit)
        /\ build' = [b EXCEPT !.left = Tail(@), !.done = WithRow(@, r, b.query)]
        /\ rows' = <<>> /\ now' = now /\ events' = events
        /\ UNCHANGED <<m, buf, pos, n, log, tokens, hist>>
    BY <1>1 DEF ScoreNext, PipelineInv, Full
  <1>3. /\ b = [at |-> b.at, query |-> b.query, left |-> b.left, done |-> b.done, seen |-> b.seen]
        /\ b.at \in Nat /\ b.at <= now /\ b.query \in Query
        /\ Sequential(b.left) /\ OfSeparateTokens(b.left)
        /\ \A i \in DOMAIN b.left : Collected(b.left[i], b.at, b.seen[b.left[i].mint])
        /\ ScoredRows(b.done) /\ Len(b.done) <= b.query.limit
        /\ \A i \in DOMAIN b.left, j \in DOMAIN b.done : b.left[i].mint # b.done[j].mint
    BY <1>2 DEF BuildInv
  <1>4. StoreInv'
    BY <1>2, StoreUnchangedInv DEF PipelineInv
  <1>5. PICK rest, more : rest = Tail(b.left) /\ more = WithRow(b.done, r, b.query)
    OBVIOUS
  <1>6. /\ Sequential(rest) /\ 1 \in DOMAIN b.left /\ s = b.left[1]
        /\ \A i \in DOMAIN rest : i + 1 \in DOMAIN b.left /\ i + 1 # 1 /\ rest[i] = b.left[i + 1]
        /\ \A i \in DOMAIN rest : i \in Int
    <2>1. PICK S : b.left \in Seq(S)
      BY <1>3 DEF Sequential
    <2>2. PICK left : left = b.left
      OBVIOUS
    <2>3. left \in Seq(S) /\ left # <<>> /\ rest = Tail(left) /\ s = Head(left)
      BY <1>1, <1>2, <1>5, <2>1, <2>2
    <2>4. /\ rest \in Seq(S) /\ DOMAIN left = 1 .. Len(left) /\ Len(left) \in Nat \ {0}
          /\ DOMAIN rest = 1 .. (Len(left) - 1) /\ s = left[1]
          /\ \A i \in 1 .. (Len(left) - 1) : rest[i] = left[i + 1]
      BY <2>3
    <2>5. \A i \in DOMAIN rest : i + 1 \in DOMAIN left /\ i + 1 # 1 /\ i \in Int
      BY <2>4
    <2>6. 1 \in DOMAIN left
      BY <2>4
    <2> QED
      BY <2>2, <2>4, <2>5, <2>6 DEF Sequential
  <1>7. Collected(s, b.at, h) /\ SnapshotFields \subseteq DOMAIN s
    <2>1. Collected(s, b.at, h)
      BY <1>1, <1>3, <1>6
    <2> QED
      BY <2>1, SnapshotAt DEF Collected
  <1>8. Scored(r) /\ r.mint = s.mint
    <2>1. /\ Carries(r, Decided(s, b.at, funding)) /\ RowFields \subseteq DOMAIN r
          /\ r.seen = h /\ r.funding = funding /\ r.asOf = b.at /\ r.mint = s.mint
          /\ \E x, y, z : JudgedAs(r, Decided(s, b.at, funding), x, y, z)
      <3>1. PICK at : at = b.at
        OBVIOUS
      <3>2. r = [seen |-> h] ++ ScoredRow(s, at, funding)
        BY <1>1, <3>1
      <3>3. /\ Carries(r, Decided(s, at, funding)) /\ RowFields \subseteq DOMAIN r
            /\ r.seen = h /\ r.funding = funding /\ r.asOf = at /\ r.mint = s.mint
            /\ \E x, y, z : JudgedAs(r, Decided(s, at, funding), x, y, z)
        BY <1>7, <3>2, ScoredFields
      <3> QED
        BY <3>1, <3>3
    <2>2. PICK x, y, z : JudgedAs(r, Decided(s, b.at, funding), x, y, z)
      BY <2>1
    <2>3. Judgement(r)
      BY <1>7, <2>1, <2>2, JudgedWell
    <2> QED
      BY <1>7, <2>1, <2>3 DEF Scored
  <1>9. /\ ScoredRows(more) /\ Len(more) <= b.query.limit
        /\ \A j \in DOMAIN more : more[j].mint = s.mint \/ \E i \in DOMAIN b.done : more[j] = b.done[i]
    <2>1. CASE ~Wanted(r, b.query)
      <3>1. more = b.done
        BY <1>5, <2>1 DEF WithRow
      <3> QED
        BY <1>3, <3>1
    <2>2. CASE Wanted(r, b.query)
      <3>1. more = Append(b.done, r)
        BY <1>5, <2>2 DEF WithRow
      <3>2. \A j \in DOMAIN b.done : b.done[j].mint # r.mint
        BY <1>3, <1>6, <1>8
      <3>3. /\ ScoredRows(more) /\ Len(more) = Len(b.done) + 1
            /\ \A j \in DOMAIN more : more[j].mint = r.mint \/ \E i \in DOMAIN b.done : more[j] = b.done[i]
        BY <1>3, <1>8, <3>1, <3>2, OneMoreRow
      <3>4. Len(b.done) \in Nat /\ b.query.limit \in Nat
        BY <1>3, PipelineAssumption DEF ScoredRows, Sequential
      <3>5. Len(more) <= b.query.limit
        BY <1>2, <3>3, <3>4
      <3> QED
        BY <1>8, <3>3, <3>5
    <2> QED
      BY <2>1, <2>2
  <1>10. OfSeparateTokens(rest)
    BY <1>3, <1>6 DEF OfSeparateTokens
  <1>11. ASSUME NEW i \in DOMAIN rest
         PROVE  /\ Collected(rest[i], b.at, b.seen[rest[i].mint])
                /\ \A j \in DOMAIN more : rest[i].mint # more[j].mint
    <2>1. i + 1 \in DOMAIN b.left /\ i + 1 # 1 /\ rest[i] = b.left[i + 1]
      BY <1>6
    <2>2. rest[i].mint # s.mint
      BY <1>3, <1>6, <2>1 DEF OfSeparateTokens
    <2>3. \A j \in DOMAIN b.done : rest[i].mint # b.done[j].mint
      BY <1>3, <2>1
    <2> QED
      BY <1>3, <1>9, <2>1, <2>2, <2>3
  <1>12. PICK c : c = [at |-> b.at, query |-> b.query, left |-> rest, done |-> more, seen |-> b.seen]
    OBVIOUS
  <1>13. build' = c
    <2>1. PICK at, query, left, done, seen :
            /\ at = b.at /\ query = b.query /\ left = b.left /\ done = b.done /\ seen = b.seen
            /\ b = [at |-> at, query |-> query, left |-> left, done |-> done, seen |-> seen]
      BY <1>3
    <2>2. PICK x, y : x = Tail(left) /\ y = WithRow(done, r, query)
      OBVIOUS
    <2>3. build' = [b EXCEPT !.left = x, !.done = y]
      BY <1>2, <2>1, <2>2
    <2>4. build' = [at |-> at, query |-> query, left |-> x, done |-> y, seen |-> seen]
      <3> QED
        BY <2>1, <2>3
    <2> QED
      BY <1>5, <1>12, <2>1, <2>2, <2>4
  <1>14. /\ c.at = b.at /\ c.query = b.query /\ c.left = rest /\ c.done = more /\ c.seen = b.seen
         /\ c = [at |-> c.at, query |-> c.query, left |-> c.left, done |-> c.done, seen |-> c.seen]
    BY <1>12
  <1>15. BuildInv(c)
    BY <1>3, <1>6, <1>9, <1>10, <1>11, <1>14 DEF BuildInv
  <1>16. BuildInv(build)'
    BY <1>2, <1>13, <1>15 DEF BuildInv
  <1> QED
    BY <1>2, <1>4, <1>16 DEF PipelineInv, RowsInv

\* The answer is the rows, ranked.
LEMMA AnswerInv ==
    ASSUME PipelineInv, Answer
    PROVE  PipelineInv'
  <1>1. /\ build # Idle /\ rows' = AssignPriorityLabels(build.done) /\ build' = Idle
        /\ now' = now /\ events' = events /\ UNCHANGED <<m, buf, pos, n, log, tokens, hist>>
    BY DEF Answer
  <1>2. StoreInv'
    BY <1>1, StoreUnchangedInv DEF PipelineInv
  <1>3. ScoredRows(build.done)
    BY <1>1 DEF PipelineInv, BuildInv
  <1>4. RowsInv'
    <2>1. PICK done : done = build.done
      OBVIOUS
    <2>2. rows' = AssignPriorityLabels(done) /\ ScoredRows(done)
      BY <1>1, <1>3, <2>1
    <2> QED
      BY <2>2 DEF RowsInv
  <1> QED
    BY <1>1, <1>2, <1>4 DEF PipelineInv

\* Whatever happens between the steps of a build, each of its rows has the
\* decision of a snapshot of what its token had been told when the build began.
THEOREM AnswersAreOfTheirTokens == PipelineSpec => []PipelineInv
  <1>1. PipelineInv /\ [PipelineNext]_pipelineVars => PipelineInv'
    <2> SUFFICES ASSUME PipelineInv, [PipelineNext]_pipelineVars PROVE PipelineInv'
      OBVIOUS
    <2>1. ASSUME NEW mint \in Mint, NEW burst \in Burst[mint], Deliver(mint, burst)
          PROVE  PipelineInv'
      BY <2>1, DeliverInv
    <2>2. CASE StoreWrites \/ \E d \in Pause : Pass(d)
      BY <2>2, StoreWritesInv
    <2>3. ASSUME NEW query \in Query, Collect(query) PROVE PipelineInv'
      BY <2>3, CollectInv
    <2>4. ASSUME NEW funding \in Funding, ScoreNext(funding) PROVE PipelineInv'
      BY <2>4, ScoreNextInv
    <2>5. CASE Answer
      BY <2>5, AnswerInv
    <2>6. CASE UNCHANGED pipelineVars
      <3>1. StoreInv'
        BY <2>6, StoreUnchangedInv DEF pipelineVars, PipelineInv
      <3>2. build' = build /\ rows' = rows /\ now' = now /\ events' = events
        BY <2>6 DEF pipelineVars
      <3>3. BuildInv(build)' <=> BuildInv(build)
        BY <3>2 DEF BuildInv
      <3>4. RowsInv' <=> RowsInv
        BY <3>2 DEF RowsInv
      <3> QED
        BY <3>1, <3>2, <3>3, <3>4 DEF PipelineInv
    <2> QED
      BY <2>1, <2>2, <2>3, <2>4, <2>5, <2>6 DEF PipelineNext
  <1> QED
    BY <1>1, PipelineInitInv, PTL DEF PipelineSpec


-----------------------------------------------------------------------------
(* The rows of an answer.                                                  *)

\* r has the decision made of the snapshot s.
DecidedFrom(r, s) ==
    LET d == MeasuredOf(s, r.funding)
        silence == Most(r.asOf - s.last, 0)
    IN  /\ RowFields \subseteq DOMAIN r
        /\ \A x \in SnapshotFields : r[x] = s[x]
        /\ \A x \in MeasuredFields : r[x] = d[x]
        /\ r.label = Label(s, d, r.funding.healthy) /\ r.state = SignalState(s, d, silence)
        /\ r.confidence = ComputeConfidence(s, d)
        /\ r.actionable = IsActionable(r.label, r.state, silence)

\* A row that carries the decision on a snapshot has what the decision was.
LEMMA ScoredIsDecided ==
    ASSUME NEW r, Scored(r)
    PROVE  \E s : Collected(s, r.asOf, r.seen) /\ DecidedFrom(r, s)
  <1>1. PICK s : Collected(s, r.asOf, r.seen) /\ Carries(r, Decided(s, r.asOf, r.funding))
    BY DEF Scored
  <1>2. SnapshotFields \subseteq DOMAIN s
    BY <1>1, SnapshotAt DEF Collected
  <1>3. PICK d, u, at, funding : /\ at = r.asOf /\ funding = r.funding
                                 /\ d = MeasuredOf(s, funding) /\ u = Decided(s, at, funding)
    OBVIOUS
  <1>4. /\ \A x \in SnapshotFields : u[x] = s[x]
        /\ \A x \in MeasuredFields : u[x] = d[x]
        /\ u.label = Label(s, d, funding.healthy)
        /\ u.state = SignalState(s, d, Most(at - s.last, 0))
        /\ u.confidence = ComputeConfidence(s, d)
        /\ u.actionable = IsActionable(u.label, u.state, Most(at - s.last, 0))
    BY <1>2, <1>3, DecidedFields
  <1>5. \A x \in DecisionFields : r[x] = u[x]
    BY <1>1, <1>3 DEF Carries
  <1>6. /\ \A x \in SnapshotFields \cup MeasuredFields : r[x] = u[x]
        /\ r.label = u.label /\ r.state = u.state /\ r.confidence = u.confidence
        /\ r.actionable = u.actionable
    BY <1>5 DEF DecisionFields, LabelFields
  <1>7. RowFields \subseteq DOMAIN r
    BY DEF Scored
  <1> QED
    BY <1>1, <1>3, <1>4, <1>6, <1>7 DEF DecidedFrom

\* What ranking adds takes nothing away.
LEMMA RankedIsDecided ==
    ASSUME NEW r, Scored(r), NEW best, NEW u, u = Ranked(r, best)
    PROVE  /\ \A x \in RowFields : u[x] = r[x]
           /\ u.priority = PriorityLabel(r, best) /\ u.tier = QualityTier(u)
           /\ \E s : Collected(s, u.asOf, u.seen) /\ DecidedFrom(u, s)
  <1>1. /\ RowFields \subseteq DOMAIN u /\ \A x \in RowFields : u[x] = r[x]
        /\ u.priority = PriorityLabel(r, best) /\ u.tier = QualityTier(u)
    BY RankedFields DEF Scored
  <1>2. PICK s : Collected(s, r.asOf, r.seen) /\ DecidedFrom(r, s)
    BY ScoredIsDecided
  <1>3. /\ \A x \in SnapshotFields \cup MeasuredFields : u[x] = r[x]
        /\ u.asOf = r.asOf /\ u.seen = r.seen /\ u.funding = r.funding
        /\ u.label = r.label /\ u.state = r.state /\ u.confidence = r.confidence
        /\ u.actionable = r.actionable
    BY <1>1 DEF RowFields, DecisionFields, LabelFields
  <1>4. DecidedFrom(u, s)
    BY <1>1, <1>2, <1>3 DEF DecidedFrom
  <1> QED
    BY <1>1, <1>2, <1>3, <1>4

\* The rows of an answer are those that were scored, ranked.
LEMMA RowIsRanked ==
    ASSUME PipelineInv, rows # <<>>
    PROVE  \E done : /\ ScoredRows(done) /\ DOMAIN rows = DOMAIN done
                     /\ \A i \in DOMAIN rows : rows[i] = Ranked(done[i], BestOf(done))
  <1>1. PICK done : ScoredRows(done) /\ rows = AssignPriorityLabels(done)
    BY DEF PipelineInv, RowsInv
  <1>2. PICK best : best = BestOf(done)
    OBVIOUS
  <1>3. rows = [i \in DOMAIN done |-> Ranked(done[i], best)]
    BY <1>1, <1>2 DEF AssignPriorityLabels
  <1> QED
    BY <1>1, <1>2, <1>3

\* Each row of an answer was decided from a record made of the swaps it remembers.
LEMMA RowIsDecided ==
    ASSUME PipelineInv, NEW i \in DOMAIN rows
    PROVE  \E s : Collected(s, rows[i].asOf, rows[i].seen) /\ DecidedFrom(rows[i], s)
  <1>1. rows # <<>>
    OBVIOUS
  <1>2. PICK done : /\ ScoredRows(done) /\ DOMAIN rows = DOMAIN done
                    /\ \A k \in DOMAIN rows : rows[k] = Ranked(done[k], BestOf(done))
    BY <1>1, RowIsRanked
  <1>3. PICK r, u, best : r = done[i] /\ u = rows[i] /\ best = BestOf(done)
    OBVIOUS
  <1>4. Scored(r) /\ u = Ranked(r, best)
    BY <1>2, <1>3 DEF ScoredRows
  <1>5. \E s : Collected(s, u.asOf, u.seen) /\ DecidedFrom(u, s)
    BY <1>4, RankedIsDecided
  <1> QED
    BY <1>3, <1>5

-----------------------------------------------------------------------------
(* A deeper pool.                                                          *)

\* Sums of a record's per-wallet amounts.
LEMMA WalletSums ==
    ASSUME NEW f, DOMAIN f = Wallet
    PROVE  /\ (\A w \in Wallet : f[w] \in Int) => SumFunction(f) \in Int
           /\ (\A w \in Wallet : f[w] \in Nat) => SumFunction(f) \in Nat
  <1>1. SumFunction(f) = SumFunctionOnSet(f, Wallet) /\ IsFiniteSet(Wallet)
    BY SwapStoreAssumption DEF SumFunction
  <1> QED
    BY <1>1, SumIsInt, SumIsNat

\* A market cap is a number.
LEMMA MarketCapIsInt ==
    ASSUME NEW t \in TokenRecord
    PROVE  MarketCap(t) \in Int
  <1>1. PICK f : f = [w \in Wallet |-> Most(t.net[w], 0)]
    OBVIOUS
  <1>2. DOMAIN f = Wallet /\ \A w \in Wallet : f[w] \in Int
    BY <1>1 DEF Most, TokenRecord
  <1>3. PICK held \in Int : held = SumFunction(f)
    BY <1>2, WalletSums
  <1>4. MarketCap(t) = IF t.price = <<>> THEN 0 ELSE (t.price[1] * held) \div t.price[2]
    BY <1>1, <1>3 DEF MarketCap
  <1>5. CASE t.price = <<>>
    BY <1>4, <1>5
  <1>6. CASE t.price # <<>>
    <2>1. t.price \in (Sol \ {0}) \X (Qty \ {0})
      BY <1>6 DEF TokenRecord
    <2>2. PICK p, q : p = t.price[1] /\ q = t.price[2]
      OBVIOUS
    <2>3. p \in Nat /\ q \in Nat \ {0}
      BY <2>1, <2>2, SwapStoreAssumption
    <2>4. PICK x \in Int : x = p * held
      BY <1>3, <2>3
    <2>5. x \div q \in Int
      BY <2>3, <2>4
    <2> QED
      BY <1>4, <1>6, <2>2, <2>4, <2>5
  <1> QED
    BY <1>5, <1>6

\* What the pool of a collected snapshot is.
LEMMA CollectedPool ==
    ASSUME NEW s, NEW at, NEW h, Collected(s, at, h)
    PROVE  /\ s.depth \in Int /\ s.reliable = (s.depth >= 0)
           /\ s.totalBuy \in Nat /\ s.totalSell \in Nat
           /\ s.pool = (IF s.depth >= 0 THEN s.depth ELSE s.totalBuy + s.totalSell)
           /\ s.pool \in Nat /\ s.mcap \in Int
  <1>1. PICK mint \in Mint, t \in TokenRecord : s = SnapshotOf(mint, t, at)
    BY DEF Collected
  <1>2. /\ s.depth = t.depth /\ s.reliable = (t.depth >= 0) /\ s.pool = PoolOf(t)
        /\ s.totalBuy = TotalBuySOL(t) /\ s.totalSell = TotalSellSOL(t) /\ s.mcap = MarketCap(t)
    BY <1>1, SnapshotAt
  <1>3. t.depth \in Int /\ t.spent \in [Wallet -> Nat] /\ t.earned \in [Wallet -> Nat]
    BY DEF TokenRecord
  <1>4. TotalBuySOL(t) \in Nat /\ TotalSellSOL(t) \in Nat
    BY <1>3, WalletSums DEF TotalBuySOL, TotalSellSOL
  <1>5. s.mcap \in Int
    BY <1>2, MarketCapIsInt
  <1>6. s.pool = IF s.depth >= 0 THEN s.depth ELSE s.totalBuy + s.totalSell
    BY <1>2 DEF PoolOf
  <1>7. s.pool \in Nat
    BY <1>2, <1>3, <1>4, <1>6
  <1> QED
    BY <1>2, <1>3, <1>4, <1>5, <1>6, <1>7

\* A pool verified to hold more than what a row was judged by, if that was anything,
\* never makes the verdict worse, whatever the row is of.
THEOREM AnswersFavourDepth == PipelineSpec => []DeeperPoolNoWorse
  <1>1. PipelineInv => DeeperPoolNoWorse
    <2> SUFFICES ASSUME PipelineInv, NEW i \in DOMAIN rows, NEW d \in Depth,
                        rows[i].pool > 0, d > rows[i].pool
                 PROVE  LET r == rows[i]
                            deeper == Decided(AtDepth(r, d), r.asOf, r.funding)
                        IN  /\ LabelRank[deeper.label] >= LabelRank[r.label]
                            /\ \A g \in DOMAIN r.engine.gates :
                                 deeper.engine.gates[g] = "failed" => r.engine.gates[g] = "failed"
      BY DEF DeeperPoolNoWorse
    <2>1. PICK r, s : r = rows[i] /\ Collected(s, r.asOf, r.seen) /\ DecidedFrom(r, s)
      BY RowIsDecided
    <2>2. PICK funding, at : funding = r.funding /\ at = r.asOf
      OBVIOUS
    <2>3. PICK z : z = AtDepth(r, d)
      OBVIOUS
    <2>4. /\ s.depth \in Int /\ s.reliable = (s.depth >= 0) /\ s.pool \in Nat /\ s.mcap \in Int
          /\ s.pool = (IF s.depth >= 0 THEN s.depth ELSE s.totalBuy + s.totalSell)
      BY <2>1, CollectedPool
    <2>5. r.pool = s.pool /\ r.pool > 0 /\ d > r.pool /\ d \in Nat
      BY <2>1, PipelineAssumption DEF DecidedFrom, SnapshotFields
    <2>6. PICK p : p = s.pool
      OBVIOUS
    <2>7. p \in Nat \ {0} /\ p <= d
      BY <2>4, <2>5, <2>6
    <2>8. s.reliable \/ s.pool = s.totalBuy + s.totalSell
      BY <2>4
    <2>9. RowFields \subseteq DOMAIN r /\ \A x \in SnapshotFields : r[x] = s[x]
      BY <2>1 DEF DecidedFrom
    <2>10. /\ SnapshotFields \subseteq DOMAIN z /\ z.pool = d /\ z.reliable
           /\ \A x \in SnapshotFields \ {"pool", "depth", "reliable"} : z[x] = s[x]
      <3>1. PICK more : more = [pool |-> d, depth |-> d, reliable |-> TRUE]
        OBVIOUS
      <3>2. DOMAIN more = {"pool", "depth", "reliable"} /\ more.pool = d /\ more.reliable
        BY <3>1
      <3>3. z = more ++ r
        BY <2>3, <3>1 DEF AtDepth
      <3>4. DOMAIN z = DOMAIN more \cup DOMAIN r
        BY <3>3 DEF ++
      <3>5. \A x \in DOMAIN z : z[x] = IF x \in DOMAIN more THEN more[x] ELSE r[x]
        BY <3>3 DEF ++
      <3>6. SnapshotFields \subseteq DOMAIN r
        BY <2>9 DEF RowFields, DecisionFields
      <3>7. z.pool = d /\ z.reliable
        BY <3>2, <3>4, <3>5
      <3> QED
        BY <2>9, <3>2, <3>4, <3>5, <3>6, <3>7
    <2>11. Deeper(s, z)
      BY <2>4, <2>5, <2>6, <2>7, <2>8, <2>10 DEF Deeper
    <2>12. PICK a, b : a = MeasuredOf(s, funding) /\ b = MeasuredOf(z, funding)
      OBVIOUS
    <2>13. /\ LabelRank[Label(s, a, funding.healthy)] <= LabelRank[Label(z, b, funding.healthy)]
           /\ \A g \in DOMAIN a.engine.gates :
                b.engine.gates[g] = "failed" => a.engine.gates[g] = "failed"
      BY <2>11, <2>12, DecidedOfDeeper
    <2>14. PICK u : u = Decided(z, at, funding)
      OBVIOUS
    <2>15. u.label = Label(z, b, funding.healthy) /\ u.engine = b.engine
      <3>1. u.label = Label(z, b, funding.healthy) /\ \A x \in MeasuredFields : u[x] = b[x]
        BY <2>10, <2>12, <2>14, DecidedFields
      <3> QED
        BY <3>1 DEF MeasuredFields
    <2>16. r.label = Label(s, a, funding.healthy) /\ r.engine = a.engine
      BY <2>1, <2>2, <2>12 DEF DecidedFrom, MeasuredFields
    <2>17. PICK x, y : x = LabelRank[r.label] /\ y = LabelRank[u.label]
      OBVIOUS
    <2>18. x <= y
      BY <2>13, <2>15, <2>16, <2>17
    <2>19. y >= x
      BY <2>18
    <2> QED
      BY <2>1, <2>2, <2>3, <2>13, <2>14, <2>15, <2>16, <2>17, <2>19
  <1> QED
    BY <1>1, AnswersAreOfTheirTokens, PTL

-----------------------------------------------------------------------------
(* What a collected snapshot measures is within its scale.                 *)

\* Of some of the swaps: their wallets, and what they add up to.
LEMMA SomeSwaps ==
    ASSUME NEW h \in Seq(AnySwap), NEW swaps \in SUBSET DOMAIN h
    PROVE  /\ IsFiniteSet(swaps) /\ Cardinality(swaps) \in Nat
           /\ WalletsAt(h, swaps) \subseteq Wallet /\ IsFiniteSet(WalletsAt(h, swaps))
           /\ Cardinality(WalletsAt(h, swaps)) \in Nat
           /\ Cardinality(WalletsAt(h, swaps)) <= Cardinality(swaps)
           /\ TotalSol(h, swaps) \in Nat
           /\ \A part \in SUBSET swaps : /\ TotalSol(h, part) \in Nat
                                         /\ TotalSol(h, part) <= TotalSol(h, swaps)
  <1>1. /\ DOMAIN h = 1 .. Len(h) /\ Len(h) \in Int /\ 1 \in Int
        /\ \A i \in DOMAIN h : h[i] \in AnySwap
    OBVIOUS
  <1>2. IsFiniteSet(DOMAIN h)
    BY <1>1, FS_Interval
  <1>3. IsFiniteSet(swaps)
    BY <1>2, FS_Subset
  <1>4. PICK p, a : p = [i \in DOMAIN h |-> h[i].wallet] /\ a = [i \in DOMAIN h |-> h[i].sol]
    OBVIOUS
  <1>5. \A i \in DOMAIN h : p[i] = h[i].wallet /\ p[i] \in Wallet /\ a[i] \in Nat
    BY <1>1, <1>4, SwapStoreAssumption DEF AnySwap
  <1>6. WalletsAt(h, swaps) = {p[i] : i \in swaps} /\ WalletsAt(h, swaps) \subseteq Wallet
    BY <1>5 DEF WalletsAt
  <1>7. /\ IsFiniteSet({p[i] : i \in swaps})
        /\ Cardinality({p[i] : i \in swaps}) <= Cardinality(swaps)
    BY <1>3, ImageIsFinite, ImageIsSmaller
  <1>8. \A part : TotalSol(h, part) = SumFunctionOnSet(a, part)
    BY <1>4 DEF TotalSol
  <1>9. \A i \in swaps : a[i] \in Nat
    BY <1>5
  <1>10. SumFunctionOnSet(a, swaps) \in Nat
    BY <1>3, <1>9, SumIsNat
  <1>11. ASSUME NEW part \in SUBSET swaps
         PROVE  SumFunctionOnSet(a, part) \in Nat /\ SumFunctionOnSet(a, part) <= SumFunctionOnSet(a, swaps)
    <2>1. IsFiniteSet(part)
      BY <1>3, FS_Subset
    <2>2. \A i \in part : a[i] \in Nat
      BY <1>9
    <2>3. SumFunctionOnSet(a, part) \in Nat
      BY <2>1, <2>2, SumIsNat
    <2>4. SumFunctionOnSet(a, part) <= SumFunctionOnSet(a, swaps)
      BY <1>3, <1>9, SumOfPart
    <2> QED
      BY <2>3, <2>4
  <1> QED
    BY <1>3, <1>6, <1>7, <1>8, <1>10, <1>11, FS_CardinalityType

\* The positions within a window are some of a history's.
LEMMA WithinIsPart ==
    ASSUME NEW h, NEW window, NEW at
    PROVE  Within(h, window, at) \in SUBSET DOMAIN h /\ PriorMinute(h, at) \in SUBSET DOMAIN h
  BY DEF Within, PriorMinute

\* The greatest of some natural numbers, none above a bound.
LEMMA GreatestWithin ==
    ASSUME NEW S \in SUBSET Nat, IsFiniteSet(S), S # {}, NEW bound \in Nat,
           \A x \in S : x <= bound
    PROVE  Max(S) \in 0 .. bound
  <1>1. \E x \in S : \A y \in S : y <= x
    BY GreatestExists
  <1>2. Max(S) \in S
    <2>1. Max(S) = CHOOSE x \in S : \A y \in S : x >= y
      BY DEF Max
    <2>2. \E x \in S : \A y \in S : x >= y
      BY <1>1
    <2> QED
      BY <2>1, <2>2
  <1>3. PICK k : k = Max(S)
    OBVIOUS
  <1>4. k \in Nat /\ k <= bound
    BY <1>2, <1>3
  <1> QED
    BY <1>3, <1>4

\* What one wallet bought is a part of what was bought.
LEMMA TopShareIsShare ==
    ASSUME NEW h \in Seq(AnySwap), NEW swaps \in SUBSET DOMAIN h
    PROVE  IsShare(TopWalletBuyShare(h, swaps))
  <1>1. PICK p, whole :
          /\ p = [w \in Wallet |-> TotalSol(h, {i \in swaps : h[i].wallet = w})]
          /\ whole = TotalSol(h, swaps)
    OBVIOUS
  <1>2. /\ whole \in Nat /\ WalletsAt(h, swaps) \subseteq Wallet
        /\ IsFiniteSet(WalletsAt(h, swaps))
    BY <1>1, SomeSwaps
  <1>3. \A w \in Wallet : p[w] \in Nat /\ p[w] <= whole
    <2>1. ASSUME NEW w \in Wallet PROVE p[w] \in Nat /\ p[w] <= whole
      <3>1. PICK part : part = {i \in swaps : h[i].wallet = w}
        OBVIOUS
      <3>2. part \in SUBSET swaps /\ p[w] = TotalSol(h, part)
        BY <1>1, <3>1
      <3> QED
        BY <1>1, <3>2, SomeSwaps
    <2> QED
      BY <2>1
  <1>4. PICK spent, top : spent = {p[w] : w \in WalletsAt(h, swaps)} /\ top = Max(spent \cup {0})
    OBVIOUS
  <1>5. IsFiniteSet(spent \cup {0})
    <2>1. IsFiniteSet(spent)
      BY <1>2, <1>4, ImageIsFinite
    <2> QED
      BY <2>1, FS_AddElement
  <1>6. top \in 0 .. whole
    <2>1. /\ spent \cup {0} \in SUBSET Nat /\ spent \cup {0} # {}
          /\ \A x \in spent \cup {0} : x <= whole
      BY <1>2, <1>3, <1>4
    <2> QED
      BY <1>2, <1>4, <1>5, <2>1, GreatestWithin
  <1>7. TopWalletBuyShare(h, swaps) = Bp(top, whole)
    <2>1. {TotalSol(h, {i \in swaps : h[i].wallet = w}) : w \in WalletsAt(h, swaps)} = spent
      BY <1>1, <1>2, <1>4
    <2> QED
      BY <1>1, <1>4, <2>1 DEF TopWalletBuyShare
  <1> QED
    <2>1. top \in Nat /\ top <= whole
      BY <1>2, <1>6
    <2> QED
      BY <1>2, <1>7, <2>1, PartIsShare

\* Buyers are no more than buys.
LEMMA DiversityIsShare ==
    ASSUME NEW h \in Seq(AnySwap), NEW swaps \in SUBSET DOMAIN h
    PROVE  IsShare(WalletDiversityRatio(h, swaps))
  <1>1. PICK x, y : x = Cardinality(WalletsAt(h, swaps)) /\ y = Cardinality(swaps)
    OBVIOUS
  <1>2. x \in Nat /\ y \in Nat /\ x <= y
    BY <1>1, SomeSwaps
  <1>3. IsShare(Bp(x, y)) /\ IsShare(10000)
    <2>1. IsShare(10000)
      BY DEF IsShare
    <2> QED
      BY <1>2, <2>1, PartIsShare
  <1> QED
    <2>1. PICK k : k = WalletDiversityRatio(h, swaps)
      OBVIOUS
    <2>2. k = 10000 \/ k = Bp(x, y)
      BY <1>1, <2>1 DEF WalletDiversityRatio
    <2> QED
      BY <1>3, <2>1, <2>2

\* Buyers of more than one buy are no more than buyers.
LEMMA RepeatIsShare ==
    ASSUME NEW h \in Seq(AnySwap), NEW at
    PROVE  IsShare(RepeatBuyerShare(h, at))
  <1>1. PICK recent, before :
          /\ recent = WalletsAt(h, Within(h, Minute, at))
          /\ before = WalletsAt(h, PriorMinute(h, at))
    OBVIOUS
  <1>2. IsFiniteSet(recent)
    BY <1>1, WithinIsPart, SomeSwaps
  <1>3. PICK x, y : x = Cardinality(recent \cap before) /\ y = Cardinality(recent)
    OBVIOUS
  <1>4. x \in Nat /\ y \in Nat /\ x <= y
    <2>1. recent \cap before \in SUBSET recent
      OBVIOUS
    <2>2. IsFiniteSet(recent \cap before) /\ x <= y
      BY <1>2, <1>3, <2>1, FS_Subset
    <2> QED
      BY <1>2, <1>3, <2>2, FS_CardinalityType
  <1>5. RepeatBuyerShare(h, at) = Bp(x, y)
    BY <1>1, <1>3 DEF RepeatBuyerShare
  <1> QED
    BY <1>4, <1>5, PartIsShare

-----------------------------------------------------------------------------
(* The ten largest balances.                                               *)

\* Wallets that hold something, and what the holders hold.
HoldersIn(net) == {w \in Wallet : net[w] > 0}
Balances(net) == {net[w] : w \in HoldersIn(net)}
HoldersAbove(net, b) == {w \in HoldersIn(net) : net[w] > b}
HoldersWith(net, b) == {w \in HoldersIn(net) : net[w] = b}

\* What those among the ten hold that hold b each.
OfTheTen(net) ==
    [b \in Balances(net) |-> b * Clamp(10 - Cardinality(HoldersAbove(net, b)), 0,
                                       Cardinality(HoldersWith(net, b)))]

\* Holders and balances are finitely many, and so are the holders above a balance.
LEMMA BalancesAreNat ==
    ASSUME NEW net \in [Wallet -> Int]
    PROVE  /\ IsFiniteSet(HoldersIn(net)) /\ IsFiniteSet(Balances(net))
           /\ Balances(net) \in SUBSET Nat
           /\ \A w \in HoldersIn(net) : net[w] \in Nat /\ net[w] \in Balances(net)
           /\ \A part \in SUBSET HoldersIn(net) : IsFiniteSet(part) /\ Cardinality(part) \in Nat
           /\ \A b : /\ HoldersAbove(net, b) \in SUBSET HoldersIn(net)
                     /\ HoldersWith(net, b) \in SUBSET HoldersIn(net)
  <1>1. PICK holders, balances : holders = HoldersIn(net) /\ balances = Balances(net)
    OBVIOUS
  <1>2. IsFiniteSet(Wallet) /\ holders \in SUBSET Wallet
    BY <1>1, SwapStoreAssumption DEF HoldersIn
  <1>3. IsFiniteSet(holders)
    BY <1>2, FS_Subset
  <1>4. balances = {net[w] : w \in holders}
    BY <1>1 DEF Balances
  <1>5. IsFiniteSet(balances)
    BY <1>3, <1>4, ImageIsFinite
  <1>6. \A w \in holders : net[w] \in Nat /\ net[w] \in balances
    BY <1>1, <1>4 DEF HoldersIn
  <1>7. balances \in SUBSET Nat
    BY <1>4, <1>6
  <1>8. \A part \in SUBSET holders : IsFiniteSet(part) /\ Cardinality(part) \in Nat
    BY <1>3, FS_Subset, FS_CardinalityType
  <1> QED
    BY <1>1, <1>3, <1>5, <1>6, <1>7, <1>8 DEF HoldersAbove, HoldersWith

\* The share of the ten is what they hold by what is held.
LEMMA Top10ByBalance ==
    ASSUME NEW net \in [Wallet -> Int]
    PROVE  Top10HolderPct(net) = Bp(SumFunctionOnSet(OfTheTen(net), Balances(net)),
                                    SumFunctionOnSet(net, HoldersIn(net)))
  <1>1. PICK holders, balances, f :
          /\ holders = {w \in DOMAIN net : net[w] > 0} /\ balances = {net[w] : w \in holders}
          /\ f = [b \in balances |-> b * Clamp(10 - Cardinality({w \in holders : net[w] > b}), 0,
                                               Cardinality({w \in holders : net[w] = b}))]
    OBVIOUS
  <1>2. holders = HoldersIn(net)
    BY <1>1 DEF HoldersIn
  <1>3. balances = Balances(net)
    BY <1>1, <1>2 DEF Balances
  <1>4. f = OfTheTen(net)
    BY <1>1, <1>2, <1>3 DEF OfTheTen, HoldersAbove, HoldersWith
  <1>5. SumFunction(f) = SumFunctionOnSet(OfTheTen(net), Balances(net))
    BY <1>1, <1>3, <1>4 DEF SumFunction
  <1>6. Top10HolderPct(net) = Bp(SumFunction(f), SumFunctionOnSet(net, holders))
    BY <1>1 DEF Top10HolderPct
  <1> QED
    BY <1>2, <1>5, <1>6

\* Added up by balance, it is all that some of the holders hold.
LEMMA SumByBalance ==
    ASSUME NEW net \in [Wallet -> Int], NEW some \in SUBSET HoldersIn(net),
           NEW whole, whole = [b \in Balances(net) |->
                                  SumFunctionOnSet(net, {w \in some : net[w] = b})]
    PROVE  SumFunctionOnSet(whole, Balances(net)) = SumFunctionOnSet(net, some)
  <1>1. PICK key, K : key = net /\ K = Balances(net)
    OBVIOUS
  <1>2. /\ IsFiniteSet(some) /\ IsFiniteSet(K)
        /\ \A w \in some : net[w] \in Int /\ key[w] \in K
    BY <1>1, BalancesAreNat
  <1>3. SumFunctionOnSet([b \in K |-> SumFunctionOnSet(net, {w \in some : key[w] = b})], K)
          = SumFunctionOnSet(net, some)
    BY <1>2, SumByKey
  <1> QED
    BY <1>1, <1>3

\* Of each balance no more holders are among the ten than have it, so what the
\* ten hold is part of what is held.
LEMMA Top10IsShare ==
    ASSUME NEW net \in [Wallet -> Int]
    PROVE  IsShare(Top10HolderPct(net))
  <1>1. PICK balances, holders, part, whole :
          /\ balances = Balances(net) /\ holders = HoldersIn(net) /\ part = OfTheTen(net)
          /\ whole = [b \in balances |-> SumFunctionOnSet(net, HoldersWith(net, b))]
    OBVIOUS
  <1>2. /\ IsFiniteSet(balances) /\ balances \in SUBSET Nat
        /\ IsFiniteSet(holders) /\ \A w \in holders : net[w] \in Nat
    BY <1>1, BalancesAreNat
  <1>3. ASSUME NEW b \in balances
        PROVE  part[b] \in Nat /\ whole[b] \in Int /\ part[b] <= whole[b]
    <2>1. PICK same, k, left : /\ same = HoldersWith(net, b) /\ k = Cardinality(same)
                               /\ left = 10 - Cardinality(HoldersAbove(net, b))
      OBVIOUS
    <2>2. b \in Nat /\ k \in Nat /\ left \in Int /\ IsFiniteSet(same)
      BY <1>1, <1>2, <2>1, BalancesAreNat
    <2>3. PICK c : c = Clamp(left, 0, k)
      OBVIOUS
    <2>4. c \in Nat /\ c <= k
      BY <2>2, <2>3 DEF Clamp, Most, Least
    <2>5. SumFunctionOnSet(net, same) = b * k
      <3>1. b \in Int /\ \A w \in same : net[w] = b
        BY <2>1, <2>2 DEF HoldersWith
      <3> QED
        BY <2>1, <2>2, <3>1, SumOfEqual
    <2>6. part[b] = b * c /\ whole[b] = b * k
      BY <1>1, <2>1, <2>3, <2>5 DEF OfTheTen
    <2>7. b * c \in Nat /\ b * k \in Nat /\ b * c <= b * k
      BY <2>2, <2>4
    <2> QED
      BY <2>6, <2>7
  <1>4. PICK top10, all : /\ top10 = SumFunctionOnSet(part, balances)
                          /\ all = SumFunctionOnSet(net, holders)
    OBVIOUS
  <1>5. SumFunctionOnSet(whole, balances) = all
    <2>1. whole = [b \in balances |-> SumFunctionOnSet(net, {w \in holders : net[w] = b})]
      BY <1>1 DEF HoldersWith
    <2> QED
      BY <1>1, <1>4, <2>1, SumByBalance
  <1>6. top10 \in Nat /\ all \in Nat /\ top10 <= all
    <2>1. \A b \in balances : part[b] \in Nat
      BY <1>3
    <2>2. top10 \in Nat
      BY <1>2, <1>4, <2>1, SumIsNat
    <2>3. all \in Nat
      BY <1>2, <1>4, SumIsNat
    <2>4. \A b \in balances : part[b] \in Int /\ whole[b] \in Int /\ part[b] <= whole[b]
      BY <1>3
    <2>5. SumFunctionOnSet(part, balances) <= SumFunctionOnSet(whole, balances)
      BY <1>2, <2>4, SumGrows
    <2> QED
      BY <1>4, <1>5, <2>2, <2>3, <2>5
  <1>7. Top10HolderPct(net) = Bp(top10, all)
    BY <1>1, <1>4, Top10ByBalance
  <1> QED
    BY <1>6, <1>7, PartIsShare

\* Some balance has fewer than ten holders above it and ten with it or more.
LEMMA TenthBalance ==
    ASSUME NEW net \in [Wallet -> Int], Cardinality(HoldersIn(net)) >= 10
    PROVE  \E t \in Balances(net) :
             /\ Cardinality(HoldersAbove(net, t)) < 10
             /\ Cardinality(HoldersAbove(net, t) \cup HoldersWith(net, t)) >= 10
  <1> DEFINE from(b) == {w \in HoldersIn(net) : net[w] >= b}
             enough == {b \in Balances(net) : Cardinality(from(b)) >= 10}
  <1>1. PICK holders, balances : holders = HoldersIn(net) /\ balances = Balances(net)
    OBVIOUS
  <1>2. /\ IsFiniteSet(holders) /\ IsFiniteSet(balances) /\ balances \in SUBSET Nat
        /\ \A w \in holders : net[w] \in Nat /\ net[w] \in balances
        /\ \A part \in SUBSET holders : IsFiniteSet(part) /\ Cardinality(part) \in Nat
    BY <1>1, BalancesAreNat
  <1>3. \A part \in SUBSET holders : Cardinality(part) >= 10 => part # {}
    BY <1>2, FS_EmptySet
  <1>4. ASSUME NEW part \in SUBSET holders, Cardinality(part) >= 10
        PROVE  \E w \in part : net[w] \in enough /\ \A v \in part : net[w] <= net[v]
    <2>1. PICK held : held = {net[w] : w \in part}
      OBVIOUS
    <2>2. held \in SUBSET Nat /\ held # {}
      BY <1>2, <1>3, <1>4, <2>1
    <2>3. PICK b \in held : \A c \in held : b <= c
      BY <2>2, LeastExists
    <2>4. PICK w \in part : b = net[w]
      BY <2>1
    <2>5. \A v \in part : net[w] <= net[v]
      BY <2>1, <2>3, <2>4
    <2>6. part \in SUBSET from(b) /\ from(b) \in SUBSET holders /\ b \in balances
      BY <1>1, <1>2, <2>2, <2>4, <2>5
    <2>7. Cardinality(from(b)) >= 10
      <3> HIDE DEF from
      <3>1. /\ Cardinality(part) <= Cardinality(from(b)) /\ Cardinality(part) \in Nat
            /\ Cardinality(from(b)) \in Nat
        BY <1>2, <2>6, FS_Subset
      <3> QED
        BY <1>4, <3>1
    <2>8. b \in enough
      <3> HIDE DEF from
      <3> QED
        BY <1>1, <2>6, <2>7
    <2> HIDE DEF enough
    <2> QED
      BY <2>4, <2>5, <2>8
  <1>5. enough # {} /\ enough \in SUBSET balances
    <2>1. \E w \in holders : net[w] \in enough
      <3> HIDE DEF enough
      <3> QED
        BY <1>1, <1>4
    <2> HIDE DEF from
    <2> QED
      BY <1>1, <2>1
  <1>6. IsFiniteSet(enough) /\ enough \in SUBSET Nat
    <2> HIDE DEF enough
    <2> QED
      BY <1>2, <1>5, FS_Subset
  <1>7. PICK t \in enough : \A b \in enough : b <= t
    <2> HIDE DEF enough
    <2> QED
      BY <1>5, <1>6, GreatestExists
  <1>8. t \in balances /\ t \in Nat
    <2> HIDE DEF enough
    <2> QED
      BY <1>2, <1>5, <1>7
  <1>9. PICK above : above = HoldersAbove(net, t)
    OBVIOUS
  <1>10. above \in SUBSET holders /\ \A w \in above : net[w] > t
    BY <1>1, <1>9 DEF HoldersAbove
  <1>11. Cardinality(above) < 10
    <2> SUFFICES ASSUME ~(Cardinality(above) < 10) PROVE FALSE
      OBVIOUS
    <2>1. Cardinality(above) >= 10
      BY <1>2, <1>10
    <2>2. PICK w \in above : net[w] \in enough
      <3> HIDE DEF enough
      <3> QED
        BY <1>4, <1>10, <2>1
    <2>3. net[w] <= t /\ net[w] > t /\ net[w] \in Nat
      <3> HIDE DEF enough
      <3> QED
        BY <1>2, <1>7, <1>10, <2>2
    <2> QED
      BY <1>8, <2>3
  <1>12. from(t) = above \cup HoldersWith(net, t)
    BY <1>1, <1>2, <1>8, <1>9 DEF HoldersAbove, HoldersWith
  <1>13. Cardinality(from(t)) >= 10
    <2> HIDE DEF from
    <2> QED
      BY <1>7
  <1> HIDE DEF from, enough
  <1> QED
    BY <1>1, <1>8, <1>9, <1>11, <1>12, <1>13

\* The ten hold what is above the tenth balance, and that balance for the rest.
LEMMA TenHold ==
    ASSUME NEW net \in [Wallet -> Int], NEW t \in Balances(net),
           Cardinality(HoldersAbove(net, t)) < 10,
           Cardinality(HoldersAbove(net, t) \cup HoldersWith(net, t)) >= 10
    PROVE  SumFunctionOnSet(OfTheTen(net), Balances(net))
             = SumFunctionOnSet(net, HoldersAbove(net, t))
               + t * (10 - Cardinality(HoldersAbove(net, t)))
  <1>1. PICK balances, holders, part, more, whole :
          /\ balances = Balances(net) /\ holders = HoldersIn(net) /\ part = OfTheTen(net)
          /\ more = HoldersAbove(net, t)
          /\ whole = [b \in balances |-> SumFunctionOnSet(net, {w \in more : net[w] = b})]
    OBVIOUS
  <1>2. PICK k : k = Cardinality(more)
    OBVIOUS
  <1>3. /\ IsFiniteSet(balances) /\ balances \in SUBSET Nat /\ t \in balances /\ t \in Nat
        /\ more \in SUBSET holders /\ \A w \in holders : net[w] \in Nat
        /\ \A w \in more : net[w] > t
        /\ \A some \in SUBSET holders : IsFiniteSet(some) /\ Cardinality(some) \in Nat
        /\ \A b : HoldersAbove(net, b) \in SUBSET holders /\ HoldersWith(net, b) \in SUBSET holders
    BY <1>1, BalancesAreNat DEF HoldersAbove
  <1>4. k \in Nat /\ k < 10
    BY <1>1, <1>2, <1>3
  <1>5. \A b : HoldersAbove(net, b) \cap HoldersWith(net, b) = {}
    <2> SUFFICES ASSUME NEW b, NEW w \in HoldersAbove(net, b), w \in HoldersWith(net, b) PROVE FALSE
      OBVIOUS
    <2>1. net[w] > b /\ net[w] = b /\ net[w] \in Nat
      BY <1>1, <1>3 DEF HoldersAbove, HoldersWith
    <2> QED
      BY <2>1
  <1>6. ASSUME NEW b \in balances
        PROVE  /\ part[b] = b * Clamp(10 - Cardinality(HoldersAbove(net, b)), 0,
                                      Cardinality(HoldersWith(net, b)))
               /\ Cardinality(HoldersAbove(net, b)) \in Nat
               /\ Cardinality(HoldersWith(net, b)) \in Nat
               /\ Cardinality(HoldersAbove(net, b) \cup HoldersWith(net, b))
                    = Cardinality(HoldersAbove(net, b)) + Cardinality(HoldersWith(net, b))
    <2>1. PICK x, y : x = HoldersAbove(net, b) /\ y = HoldersWith(net, b)
      OBVIOUS
    <2>2. /\ IsFiniteSet(x) /\ IsFiniteSet(y) /\ x \cap y = {}
          /\ Cardinality(x) \in Nat /\ Cardinality(y) \in Nat
      BY <1>3, <1>5, <2>1
    <2>3. Cardinality(x \cup y) = Cardinality(x) + Cardinality(y)
      <3>1. Cardinality(x \cup y) = Cardinality(x) + Cardinality(y) - Cardinality(x \cap y)
        BY <2>2, FS_Union
      <3>2. Cardinality(x \cap y) = 0
        BY <2>2, FS_EmptySet
      <3> QED
        BY <2>2, <3>1, <3>2
    <2> QED
      BY <1>1, <2>1, <2>2, <2>3 DEF OfTheTen
  <1>7. \A b \in balances \ {t} : part[b] = whole[b]
    <2> SUFFICES ASSUME NEW b \in balances, b # t PROVE part[b] = whole[b]
      OBVIOUS
    <2>1. PICK x, y, of : /\ x = HoldersAbove(net, b) /\ y = HoldersWith(net, b)
                          /\ of = {w \in more : net[w] = b}
      OBVIOUS
    <2>2. PICK i, j : i = Cardinality(x) /\ j = Cardinality(y)
      OBVIOUS
    <2>3. b \in Nat /\ i \in Nat /\ j \in Nat /\ part[b] = b * Clamp(10 - i, 0, j)
      BY <1>3, <1>6, <2>1, <2>2
    <2>4. CASE b > t
      <3>1. x \cup y \in SUBSET more /\ of = y
        BY <1>1, <1>3, <2>1, <2>3, <2>4 DEF HoldersAbove, HoldersWith
      <3>2. Cardinality(x \cup y) <= k
        BY <1>2, <1>3, <3>1, FS_Subset
      <3>3. i + j <= k
        BY <1>6, <2>1, <2>2, <3>2
      <3>4. Clamp(10 - i, 0, j) = j
        BY <1>4, <2>3, <3>3 DEF Clamp, Most, Least
      <3>5. SumFunctionOnSet(net, y) = b * j
        <4>1. IsFiniteSet(y) /\ b \in Int /\ \A w \in y : net[w] = b
          BY <1>3, <2>1, <2>3 DEF HoldersWith
        <4> QED
          BY <2>2, <4>1, SumOfEqual
      <3> QED
        BY <1>1, <2>1, <2>3, <3>1, <3>4, <3>5
    <2>5. CASE ~(b > t)
      <3>1. b < t
        BY <1>3, <2>3, <2>5
      <3>2. of = {}
        <4> SUFFICES ASSUME NEW w \in of PROVE FALSE
          OBVIOUS
        <4>1. net[w] > t /\ net[w] = b
          BY <1>3, <2>1
        <4> QED
          BY <2>5, <4>1
      <3>3. HoldersAbove(net, t) \cup HoldersWith(net, t) \in SUBSET x
        BY <1>1, <1>3, <2>1, <2>3, <3>1 DEF HoldersAbove, HoldersWith
      <3>4. PICK z : z = HoldersAbove(net, t) \cup HoldersWith(net, t)
        OBVIOUS
      <3>5. Cardinality(z) \in Nat /\ Cardinality(z) <= i /\ Cardinality(z) >= 10
        <4>1. x \in SUBSET holders /\ z \in SUBSET x
          BY <1>3, <2>1, <3>3, <3>4
        <4>2. z \in SUBSET holders
          BY <4>1
        <4> QED
          BY <1>3, <2>2, <3>4, <4>1, <4>2, FS_Subset
      <3>6. i >= 10
        BY <2>3, <3>5
      <3>7. Clamp(10 - i, 0, j) = 0
        BY <2>3, <3>6 DEF Clamp, Most, Least
      <3>8. b * 0 = 0 /\ SumFunctionOnSet(net, of) = 0
        BY <2>3, <3>2, SumOfNone
      <3> QED
        BY <1>1, <2>1, <2>3, <3>7, <3>8
    <2> QED
      BY <2>4, <2>5
  <1>8. part[t] = whole[t] + t * (10 - k)
    <2>1. PICK of : of = {w \in more : net[w] = t}
      OBVIOUS
    <2>2. of = {}
      <3> SUFFICES ASSUME NEW w \in of PROVE FALSE
        OBVIOUS
      <3>1. net[w] > t /\ net[w] = t
        BY <1>3, <2>1
      <3> QED
        BY <1>3, <3>1
    <2>3. whole[t] = 0
      BY <1>1, <1>3, <2>1, <2>2, SumOfNone
    <2>4. PICK i, j : /\ i = Cardinality(HoldersAbove(net, t))
                      /\ j = Cardinality(HoldersWith(net, t))
      OBVIOUS
    <2>5. /\ i = k /\ i \in Nat /\ j \in Nat /\ i + j >= 10
          /\ part[t] = t * Clamp(10 - i, 0, j)
      BY <1>1, <1>2, <1>3, <1>6, <2>4
    <2>6. Clamp(10 - i, 0, j) = 10 - k
      BY <1>4, <2>5 DEF Clamp, Most, Least
    <2>7. PICK z : z = t * (10 - k)
      OBVIOUS
    <2>8. z \in Int
      BY <1>3, <1>4, <2>7
    <2> QED
      BY <2>3, <2>5, <2>6, <2>7, <2>8
  <1>9. \A b \in balances : whole[b] \in Int
    <2> SUFFICES ASSUME NEW b \in balances PROVE whole[b] \in Int
      OBVIOUS
    <2>1. PICK of : of = {w \in more : net[w] = b}
      OBVIOUS
    <2>2. of \in SUBSET holders
      BY <1>3, <2>1
    <2>3. IsFiniteSet(of) /\ \A w \in of : net[w] \in Nat
      BY <1>3, <2>2
    <2>4. SumFunctionOnSet(net, of) \in Nat
      BY <2>3, SumIsNat
    <2> QED
      BY <1>1, <2>1, <2>4
  <1>10. PICK d \in Int : d = t * (10 - k)
    BY <1>3, <1>4
  <1>11. SumFunctionOnSet(part, balances) = SumFunctionOnSet(whole, balances) + d
    <2>1. IsFiniteSet(balances) /\ t \in balances /\ \A b \in balances : whole[b] \in Int
      BY <1>3, <1>9
    <2>2. part[t] = whole[t] + d /\ \A b \in balances \ {t} : part[b] = whole[b]
      BY <1>7, <1>8, <1>10
    <2> QED
      BY <2>1, <2>2, SumOneLarger
  <1>12. SumFunctionOnSet(whole, balances) = SumFunctionOnSet(net, more)
    BY <1>1, <1>3, SumByBalance
  <1> QED
    BY <1>1, <1>2, <1>10, <1>11, <1>12

\* No ten holders hold more than the ten of the share.
LEMMA TenHoldTheMost ==
    ASSUME NEW net \in [Wallet -> Int], NEW S \in SUBSET HoldersIn(net), Cardinality(S) = 10
    PROVE  /\ SumFunctionOnSet(net, S) \in Nat
           /\ SumFunctionOnSet(OfTheTen(net), Balances(net)) \in Int
           /\ SumFunctionOnSet(net, S) <= SumFunctionOnSet(OfTheTen(net), Balances(net))
  <1>1. PICK holders : holders = HoldersIn(net)
    OBVIOUS
  <1>2. /\ \A w \in holders : net[w] \in Nat
        /\ \A some \in SUBSET holders : IsFiniteSet(some) /\ Cardinality(some) \in Nat
        /\ Balances(net) \in SUBSET Nat
    BY <1>1, BalancesAreNat
  <1>3. Cardinality(holders) >= 10
    <2>1. IsFiniteSet(holders)
      BY <1>2
    <2> QED
      BY <1>1, <2>1, FS_Subset
  <1>4. PICK t \in Balances(net) :
          /\ Cardinality(HoldersAbove(net, t)) < 10
          /\ Cardinality(HoldersAbove(net, t) \cup HoldersWith(net, t)) >= 10
    BY <1>1, <1>3, TenthBalance
  <1>5. PICK more, ten : /\ more = HoldersAbove(net, t)
                         /\ ten = SumFunctionOnSet(OfTheTen(net), Balances(net))
    OBVIOUS
  <1>6. PICK k : k = Cardinality(more)
    OBVIOUS
  <1>7. ten = SumFunctionOnSet(net, more) + t * (10 - k)
    BY <1>4, <1>5, <1>6, TenHold
  <1>8. /\ t \in Nat /\ k \in Nat /\ more \in SUBSET holders
        /\ \A w \in holders : (w \in more <=> net[w] > t)
    BY <1>1, <1>2, <1>5, <1>6 DEF HoldersAbove
  <1>9. PICK both, mine, theirs : both = S \cap more /\ mine = S \ more /\ theirs = more \ S
    OBVIOUS
  <1>10. /\ both \in SUBSET S /\ both \in SUBSET more /\ mine = S \ both /\ theirs = more \ both
         /\ \A some \in {S, more, both, mine, theirs} :
              /\ some \in SUBSET holders /\ IsFiniteSet(some) /\ Cardinality(some) \in Nat
              /\ \A w \in some : net[w] \in Nat /\ net[w] \in Int
              /\ SumFunctionOnSet(net, some) \in Nat
    <2>1. \A some \in {S, more, both, mine, theirs} : some \in SUBSET holders
      BY <1>1, <1>8, <1>9
    <2>2. \A some \in SUBSET holders : SumFunctionOnSet(net, some) \in Nat
      <3> SUFFICES ASSUME NEW some \in SUBSET holders PROVE SumFunctionOnSet(net, some) \in Nat
        OBVIOUS
      <3>1. IsFiniteSet(some) /\ \A w \in some : net[w] \in Nat
        BY <1>2
      <3> QED
        BY <3>1, SumIsNat
    <2> QED
      BY <1>2, <1>9, <2>1, <2>2
  <1>11. PICK c : c = Cardinality(both)
    OBVIOUS
  <1>12. c \in Nat /\ Cardinality(mine) = 10 - c /\ Cardinality(theirs) = k - c
    <2>1. Cardinality(S \ more) = Cardinality(S) - Cardinality(S \cap more)
      BY <1>10, FS_Difference
    <2>2. Cardinality(more \ S) = Cardinality(more) - Cardinality(more \cap S)
      BY <1>10, FS_Difference
    <2>3. more \cap S = both
      BY <1>9
    <2> QED
      BY <1>6, <1>9, <1>10, <1>11, <2>1, <2>2, <2>3
  <1>13. PICK x, y, z : /\ x = SumFunctionOnSet(net, both) /\ y = SumFunctionOnSet(net, mine)
                        /\ z = SumFunctionOnSet(net, theirs)
    OBVIOUS
  <1>14. x \in Nat /\ y \in Nat /\ z \in Nat
    BY <1>10, <1>13
  <1>15. SumFunctionOnSet(net, S) = x + y
    BY <1>10, <1>13, SumOfParts
  <1>16. SumFunctionOnSet(net, more) = x + z
    BY <1>10, <1>13, SumOfParts
  <1>17. PICK same : same = [w \in Wallet |-> t]
    OBVIOUS
  <1>18. \A w \in holders : same[w] = t
    BY <1>1, <1>17 DEF HoldersIn
  <1>19. y <= t * (10 - c)
    <2>1. \A w \in mine : net[w] \in Int /\ same[w] \in Int /\ net[w] <= same[w]
      BY <1>8, <1>9, <1>10, <1>18
    <2>2. y <= SumFunctionOnSet(same, mine)
      BY <1>10, <1>13, <2>1, SumGrows
    <2>3. SumFunctionOnSet(same, mine) = t * Cardinality(mine)
      <3>1. t \in Int /\ \A w \in mine : same[w] = t
        BY <1>8, <1>10, <1>18
      <3> QED
        BY <1>10, <3>1, SumOfEqual
    <2> QED
      BY <1>12, <2>2, <2>3
  <1>20. t * (k - c) <= z
    <2>1. \A w \in theirs : same[w] \in Int /\ net[w] \in Int /\ same[w] <= net[w]
      BY <1>8, <1>9, <1>10, <1>18
    <2>2. SumFunctionOnSet(same, theirs) <= z
      BY <1>10, <1>13, <2>1, SumGrows
    <2>3. SumFunctionOnSet(same, theirs) = t * Cardinality(theirs)
      <3>1. t \in Int /\ \A w \in theirs : same[w] = t
        BY <1>8, <1>10, <1>18
      <3> QED
        BY <1>10, <3>1, SumOfEqual
    <2> QED
      BY <1>12, <2>2, <2>3
  <1>21. PICK u, v, q \in Int : u = t * (10 - c) /\ v = t * (k - c) /\ q = t * (10 - k)
    BY <1>8, <1>12
  <1>22. u = v + q
    BY <1>8, <1>12, <1>21
  <1>23. ten \in Int /\ x + y <= ten
    <2>1. ten = x + z + q
      BY <1>7, <1>14, <1>16, <1>21
    <2> QED
      BY <1>14, <1>19, <1>20, <1>21, <1>22, <2>1
  <1> QED
    BY <1>5, <1>14, <1>15, <1>23

\* So with a share below 85% no ten holders have 85% of what is held.
LEMMA NoTenHoldMore ==
    ASSUME NEW net \in [Wallet -> Int], Top10HolderPct(net) < 85 * Percent,
           NEW S \in SUBSET HoldersIn(net), Cardinality(S) = 10
    PROVE  100 * SumFunctionOnSet(net, S) < 85 * SumFunctionOnSet(net, HoldersIn(net))
  <1>1. PICK x, ten, all : /\ x = SumFunctionOnSet(net, S)
                           /\ ten = SumFunctionOnSet(OfTheTen(net), Balances(net))
                           /\ all = SumFunctionOnSet(net, HoldersIn(net))
    OBVIOUS
  <1>2. x \in Nat /\ ten \in Int /\ x <= ten
    BY <1>1, TenHoldTheMost
  <1>3. all \in Nat /\ all > 0
    <2>1. IsFiniteSet(HoldersIn(net)) /\ \A w \in HoldersIn(net) : net[w] \in Nat /\ net[w] > 0
      BY BalancesAreNat DEF HoldersIn
    <2>2. all \in Nat
      BY <1>1, <2>1, SumIsNat
    <2>3. S # {}
      BY FS_EmptySet
    <2>4. PICK w \in S : net[w] \in Nat /\ net[w] > 0
      BY <2>1, <2>3
    <2>5. all = SumFunctionOnSet(net, HoldersIn(net) \ {w}) + net[w]
      <3>1. \A v \in HoldersIn(net) : net[v] \in Int
        BY <2>1
      <3> QED
        BY <1>1, <2>1, <3>1, SumWithout
    <2>6. SumFunctionOnSet(net, HoldersIn(net) \ {w}) \in Nat
      <3>1. IsFiniteSet(HoldersIn(net) \ {w})
        BY <2>1, FS_Subset
      <3> QED
        BY <2>1, <3>1, SumIsNat
    <2> QED
      BY <2>2, <2>4, <2>5, <2>6
  <1>4. PICK q : q = (ten * 10000) \div all
    OBVIOUS
  <1>5. q < 8500
    <2>1. Top10HolderPct(net) = Bp(ten, all)
      BY <1>1, Top10ByBalance
    <2> QED
      BY <1>3, <1>4, <2>1 DEF Bp, Percent
  <1>6. q \in Int /\ ten * 10000 < all * q + all
    BY <1>2, <1>3, <1>4
  <1>7. all * q + all <= all * 8500
    <2>1. q + 1 <= 8500
      BY <1>5, <1>6
    <2>2. all * (q + 1) <= all * 8500
      BY <1>3, <1>6, <2>1
    <2> QED
      BY <1>3, <1>6, <2>2
  <1>8. 100 * x < 85 * all
    BY <1>2, <1>3, <1>6, <1>7
  <1> QED
    BY <1>1, <1>8


SnapshotTypes(s) ==
    /\ s.age \in Nat /\ s.events \in Nat /\ s.uniqueBuyers \in Nat /\ s.last \in Nat
    /\ s.wallets1m \subseteq Wallet /\ s.wallets5m \subseteq Wallet
    /\ s.buy1m \in Nat /\ s.sell1m \in Nat
    /\ IsShare(s.topShare) /\ IsShare(s.diversity) /\ IsShare(s.repeat) /\ IsShare(s.top10)

\* A snapshot of a record is within its scales.
LEMMA CollectedTypes ==
    ASSUME NEW s, NEW at, NEW h, Collected(s, at, h)
    PROVE  SnapshotTypes(s)
  <1>1. PICK mint \in Mint, t \in TokenRecord : at \in Nat /\ s = SnapshotOf(mint, t, at)
    BY DEF Collected
  <1>2. PICK last1m, last5m, sold :
          /\ last1m = Within(t.buys, Minute, at) /\ last5m = Within(t.buys, 5 * Minute, at)
          /\ sold = Within(t.sells, Minute, at)
    OBVIOUS
  <1>3. /\ s.last = t.last /\ s.age = Most(at - t.first, 0)
        /\ s.events = t.total /\ s.uniqueBuyers = Cardinality(UniqueBuyers(t))
        /\ s.wallets1m = WalletsAt(t.buys, last1m) /\ s.wallets5m = WalletsAt(t.buys, last5m)
        /\ s.topShare = TopWalletBuyShare(t.buys, last5m)
        /\ s.diversity = WalletDiversityRatio(t.buys, last5m)
        /\ s.repeat = RepeatBuyerShare(t.buys, at)
        /\ s.buy1m = TotalSol(t.buys, last1m) /\ s.sell1m = TotalSol(t.sells, sold)
        /\ s.top10 = Top10HolderPct(t.net)
    BY <1>1, <1>2, SnapshotAt
  <1>4. /\ t.buys \in Seq(AnySwap) /\ t.sells \in Seq(AnySwap) /\ t.net \in [Wallet -> Int]
        /\ t.first \in Nat /\ t.last \in Nat /\ t.total \in Nat
    BY DEF TokenRecord
  <1>5. /\ last1m \in SUBSET DOMAIN t.buys /\ last5m \in SUBSET DOMAIN t.buys
        /\ sold \in SUBSET DOMAIN t.sells
    BY <1>2, WithinIsPart
  <1>6. s.age \in Nat
    BY <1>1, <1>3, <1>4 DEF Most
  <1>7. s.uniqueBuyers \in Nat
    <2>1. IsFiniteSet(UniqueBuyers(t))
      BY SwapStoreAssumption, FS_Subset DEF UniqueBuyers
    <2> QED
      BY <1>3, <2>1, FS_CardinalityType
  <1>8. /\ WalletsAt(t.buys, last1m) \subseteq Wallet /\ WalletsAt(t.buys, last5m) \subseteq Wallet
        /\ TotalSol(t.buys, last1m) \in Nat /\ TotalSol(t.sells, sold) \in Nat
    BY <1>4, <1>5, SomeSwaps
  <1>9. /\ IsShare(TopWalletBuyShare(t.buys, last5m))
        /\ IsShare(WalletDiversityRatio(t.buys, last5m))
        /\ IsShare(RepeatBuyerShare(t.buys, at)) /\ IsShare(Top10HolderPct(t.net))
    BY <1>4, <1>5, TopShareIsShare, DiversityIsShare, RepeatIsShare, Top10IsShare
  <1> QED
    BY <1>3, <1>4, <1>6, <1>7, <1>8, <1>9 DEF SnapshotTypes

\* Buyers counted under their roots are no more than the buyers.
LEMMA ClusterTypes ==
    ASSUME NEW wallets \in SUBSET Wallet, NEW resolve
    PROVE  LET c == Cluster(wallets, resolve)
           IN  c.raw \in Nat /\ c.eff \in Nat /\ c.eff <= c.raw /\ IsShare(c.ratio)
  <1>1. PICK p, roots : p = [w \in Wallet |-> resolve[w].root] /\ roots = {p[w] : w \in wallets}
    OBVIOUS
  <1>2. IsFiniteSet(wallets) /\ IsFiniteSet(roots) /\ Cardinality(roots) <= Cardinality(wallets)
    <2>1. IsFiniteSet(wallets)
      BY SwapStoreAssumption, FS_Subset
    <2> QED
      BY <1>1, <2>1, ImageIsFinite, ImageIsSmaller
  <1>3. PICK raw, eff : raw = Cardinality(wallets) /\ eff = Cardinality(roots)
    OBVIOUS
  <1>4. raw \in Nat /\ eff \in Nat /\ eff <= raw /\ raw - eff \in Nat /\ raw - eff <= raw
    <2>1. raw \in Nat /\ eff \in Nat
      BY <1>2, <1>3, FS_CardinalityType
    <2> QED
      BY <1>2, <1>3, <2>1
  <1>5. IsShare(Bp(raw - eff, raw))
    BY <1>4, PartIsShare
  <1>6. {resolve[w].root : w \in wallets} = roots
    BY <1>1
  <1>7. PICK c : c = Cluster(wallets, resolve)
    OBVIOUS
  <1>8. c.raw = raw /\ c.eff = eff /\ c.ratio = Bp(raw - eff, raw)
    BY <1>3, <1>6, <1>7 DEF Cluster
  <1> QED
    BY <1>4, <1>5, <1>7, <1>8

MeasuredTypes(d) ==
    /\ d.liq \in Nat /\ d.exec \in Int /\ IsShare(d.impact) /\ IsShare(d.adversarial)
    /\ d.buyers1m \in Nat /\ d.buyers5m \in Nat /\ d.eff1m \in Nat /\ d.eff5m \in Nat
    /\ d.eff1m <= d.buyers1m /\ d.eff5m <= d.buyers5m /\ IsShare(d.clusterRatio)
    /\ d.clustering \in {"resolved", "partial_fallback", "full_fallback"}
    /\ d.engine.scoreCap \in {0, 4000}

\* The impact of the test sale is a share.
LEMMA ImpactIsShare ==
    ASSUME NEW liq \in Nat
    PROVE  IsShare(EstimatedImpact(liq))
  <1>1. CASE liq <= 0
    BY <1>1 DEF EstimatedImpact, IsShare
  <1>2. CASE liq > 0
    <2>1. PICK p : p = (100 * 10000) \div liq
      OBVIOUS
    <2>2. p \in Int /\ p >= 0
      <3>1. p \in Int /\ 1000000 < liq * p + liq
        BY <1>2, <2>1
      <3> SUFFICES ASSUME p <= -1 PROVE FALSE
        BY <3>1
      <3>2. liq * p <= liq * (-1)
        BY <3>1
      <3> QED
        BY <3>1, <3>2
    <2>3. Bp(100, liq) = p /\ LiveConfig.trade = 100
      BY <1>2, <2>1 DEF Bp, LiveConfig, SOL
    <2>4. EstimatedImpact(liq) = IF 10000 < p THEN 10000 ELSE p
      BY <1>2, <2>3 DEF EstimatedImpact, Least
    <2> QED
      BY <2>2, <2>4 DEF IsShare
  <1> QED
    BY <1>1, <1>2

\* So is the adversarial score.
LEMMA AdversarialIsShare ==
    ASSUME NEW s, SnapshotTypes(s)
    PROVE  IsShare(AdversarialScore(s))
  <1>1. PICK x, y, z : x = Least(10000, 2 * s.topShare) /\ y = s.diversity /\ z = s.repeat
    OBVIOUS
  <1>2. /\ x \in Nat /\ x <= 10000 /\ y \in Nat /\ y <= 10000 /\ z \in Nat /\ z <= 10000
    BY <1>1 DEF SnapshotTypes, IsShare, Least
  <1>3. AdversarialScore(s) = (45 * x + 30 * (10000 - y) + 25 * z) \div 100
    BY <1>1 DEF AdversarialScore
  <1> QED
    BY <1>2, <1>3 DEF IsShare

\* The gates' cap on the score is 40% or none.
LEMMA EngineTypes ==
    ASSUME NEW s, NEW ratio
    PROVE  EvaluateGates(s, ratio).scoreCap \in {0, 4000}
  <1>1. PICK e : e = EvaluateGates(s, ratio)
    OBVIOUS
  <1>2. EngineConfig.scoreCap = 4000
    BY DEF EngineConfig, Percent
  <1>3. CASE Layer0(s, ratio) # "none"
    BY <1>1, <1>3 DEF EvaluateGates
  <1>4. CASE ~(Layer0(s, ratio) # "none")
    <2>1. e = Passing(s, GatesOf(s, ratio))
      BY <1>1, <1>4 DEF EvaluateGates
    <2>2. PICK g, max : g = GatesOf(s, ratio) /\ max = MaxLabel(s, g)
      OBVIOUS
    <2>3. e.scoreCap = IF g[7] = "failed" THEN 4000 ELSE 0
      BY <1>2, <2>1, <2>2 DEF Passing
    <2> QED
      BY <1>1, <2>3
  <1> QED
    BY <1>3, <1>4

\* What is measured of a collected snapshot is within its scales.
LEMMA MeasuredAreTyped ==
    ASSUME NEW s, NEW at, NEW h, Collected(s, at, h), NEW funding
    PROVE  MeasuredTypes(MeasuredOf(s, funding))
  <1>1. SnapshotTypes(s)
    BY CollectedTypes
  <1>2. PICK liq : liq = LiquidityProxy(s)
    OBVIOUS
  <1>3. liq.sol \in Nat
    <2>1. s.totalBuy + s.totalSell \in Nat /\ s.pool \in Nat
      BY CollectedPool
    <2> QED
      BY <1>2, <2>1 DEF LiquidityProxy
  <1>4. PICK c1, c5 : /\ c1 = Cluster(s.wallets1m, FirstRoots(funding))
                      /\ c5 = Cluster(s.wallets5m, SecondRoots(funding))
    OBVIOUS
  <1>5. /\ c1.raw \in Nat /\ c1.eff \in Nat /\ c1.eff <= c1.raw /\ IsShare(c1.ratio)
        /\ c5.raw \in Nat /\ c5.eff \in Nat /\ c5.eff <= c5.raw
    BY <1>1, <1>4, ClusterTypes DEF SnapshotTypes
  <1>6. PICK d : d = Measured(s, funding.healthy, liq, c1, c5)
    OBVIOUS
  <1>7. /\ d.liq = liq.sol /\ d.exec = ExecutionPenalty(liq.sol)
        /\ d.impact = EstimatedImpact(liq.sol) /\ d.adversarial = AdversarialScore(s)
        /\ d.buyers1m = c1.raw /\ d.buyers5m = c5.raw /\ d.eff1m = c1.eff /\ d.eff5m = c5.eff
        /\ d.clusterRatio = c1.ratio /\ d.clustering = ClusteringRowStatus(c1)
        /\ d.engine = EvaluateGates(s, c1.ratio)
    BY <1>6 DEF Measured
  <1>8. ExecutionPenalty(liq.sol) \in Int
    BY <1>3 DEF ExecutionPenalty, Least, LiveConfig, SOL
  <1>9. ClusteringRowStatus(c1) \in {"resolved", "partial_fallback", "full_fallback"}
    BY ClusteringIsKnown
  <1>10. MeasuredTypes(d)
    BY <1>1, <1>3, <1>5, <1>7, <1>8, <1>9, ImpactIsShare, AdversarialIsShare, EngineTypes
       DEF MeasuredTypes
  <1> QED
    BY <1>2, <1>4, <1>6, <1>10 DEF MeasuredOf

\* Confidence is a share.
LEMMA ConfidenceIsShare ==
    ASSUME NEW s, SnapshotTypes(s), NEW d, MeasuredTypes(d)
    PROVE  IsShare(ComputeConfidence(s, d))
  <1>1. /\ LiveConfig.warmAge = 90 /\ LiveConfig.warmEvents = 3
        /\ LiveConfig.confidentBuyers = 3
    BY DEF LiveConfig
  <1>2. PICK age, evs, eff, adv, imp, ratio, cap :
          /\ age = s.age /\ evs = s.events /\ eff = d.eff1m /\ adv = d.adversarial
          /\ imp = d.impact /\ ratio = d.clusterRatio /\ cap = d.engine.scoreCap
    OBVIOUS
  <1>3. /\ age \in Nat /\ evs \in Nat /\ eff \in Nat /\ adv \in Nat /\ imp \in Nat
        /\ ratio \in Nat /\ cap \in {0, 4000}
    BY <1>2 DEF SnapshotTypes, MeasuredTypes, IsShare
  <1>4. PICK x1, x2, x3, x5 :
          /\ x1 = (Most(90 - age, 0) * 25 * 100) \div 90
          /\ x2 = (IF evs > 0 THEN (Most(3 - evs, 0) * 20 * 100) \div 3 ELSE 0)
          /\ x3 = (Most(3 - eff, 0) * 20 * 100) \div 3
          /\ x5 = Clamp((imp - 500) \div 2, 0, 1500)
    OBVIOUS
  <1>5. x1 \in Int /\ x2 \in Int /\ x3 \in Int /\ x5 \in Int
    BY <1>3, <1>4 DEF Most, Least, Clamp
  <1>6. PICK raw : raw = 10000 - x1 - x2 - x3 - adv \div 5 - x5 - (ratio * 15) \div 100
    OBVIOUS
  <1>7. raw \in Int
    BY <1>3, <1>5, <1>6
  <1>8. ComputeConfidence(s, d) = IF cap > 0 THEN Least(Clamp(raw, 0, 10000), cap)
                                  ELSE Clamp(raw, 0, 10000)
    BY <1>1, <1>2, <1>4, <1>6 DEF ComputeConfidence
  <1>9. PICK k : k = ComputeConfidence(s, d)
    OBVIOUS
  <1>10. k \in Nat /\ k <= 10000
    BY <1>3, <1>7, <1>8, <1>9 DEF Least, Most, Clamp
  <1> QED
    BY <1>9, <1>10 DEF IsShare

\* The confidence of a decided row can be compared with another's.
LEMMA ConfidenceOfDecided ==
    ASSUME NEW r, NEW s, Collected(s, r.asOf, r.seen), DecidedFrom(r, s)
    PROVE  /\ IsShare(r.confidence) /\ r.confidence \in Int
           /\ SnapshotTypes(s) /\ MeasuredTypes(MeasuredOf(s, r.funding))
  <1>1. SnapshotTypes(s) /\ MeasuredTypes(MeasuredOf(s, r.funding))
    BY CollectedTypes, MeasuredAreTyped
  <1>2. IsShare(r.confidence)
    BY <1>1, ConfidenceIsShare DEF DecidedFrom
  <1> QED
    BY <1>1, <1>2 DEF IsShare

-----------------------------------------------------------------------------
(* The row an answer leads with.                                           *)

\* Confidence is compared first: a row that another goes before has no more.
LEMMA ConfidenceComesFirst ==
    ASSUME NEW a, NEW b, a.confidence \in Int, b.confidence \in Int
    PROVE  /\ PriorityLess(a, b) => a.confidence <= b.confidence
           /\ ~PriorityLess(a, b) => b.confidence <= a.confidence
  <1>1. PICK ka, kb : ka = PriorityKey(a) /\ kb = PriorityKey(b)
    OBVIOUS
  <1>2. /\ DOMAIN ka = 1 .. 8 /\ ka[1] = a.confidence /\ kb[1] = b.confidence
    BY <1>1 DEF PriorityKey
  <1>3. PICK differ : differ = {i \in DOMAIN ka : ka[i] # kb[i]}
    OBVIOUS
  <1>4. PriorityLess(a, b) <=> differ # {} /\ ka[Min(differ)] < kb[Min(differ)]
    BY <1>1, <1>3 DEF PriorityLess
  <1>5. CASE 1 \in differ
    <2>1. Min(differ) = 1
      <3>1. \A i \in differ : i \in Nat /\ 1 <= i
        BY <1>2, <1>3
      <3>2. \A i \in differ : (\A y \in differ : i <= y) => i = 1
        BY <1>5, <3>1
      <3>3. \A y \in differ : 1 <= y
        BY <3>1
      <3> QED
        BY <1>5, <3>2, <3>3 DEF Min
    <2>2. PriorityLess(a, b) <=> a.confidence < b.confidence
      BY <1>2, <1>4, <1>5, <2>1
    <2>3. PICK x, y : x = a.confidence /\ y = b.confidence
      OBVIOUS
    <2>4. x \in Int /\ y \in Int /\ (PriorityLess(a, b) <=> x < y)
      BY <2>2, <2>3
    <2> QED
      BY <2>3, <2>4
  <1>6. CASE 1 \notin differ
    <2>1. a.confidence = b.confidence
      BY <1>2, <1>3, <1>6
    <2> QED
      BY <2>1
  <1> QED
    BY <1>5, <1>6

\* Of some rows the best is one that is not expired and that none of the others
\* outdoes, if there is one.
IsBestOf(best, done) ==
    LET live == {i \in DOMAIN done : done[i].state # "expired"}
    IN  IF live = {} THEN best = {}
        ELSE \E j \in live : /\ best = {done[j]}
                             /\ \A i \in live : done[i].confidence <= done[j].confidence

\* The fold over the rows ends with an unexpired one that none beats, if there is any.
LEMMA BestIsFound ==
    ASSUME NEW done, Sequential(done), \A i \in DOMAIN done : done[i].confidence \in Int
    PROVE  IsBestOf(BestOf(done), done)
  <1> DEFINE size == Len(done)
             step(best, r) == IF r.state = "expired" THEN best ELSE Better(best, r)
             Bests == {{}} \cup {{done[i]} : i \in 1 .. size}
             pass(g) == [s \in SUBSET (1 .. size) |->
                           IF s = {} THEN {} ELSE step(g[s \ {Max(s)}], done[Max(s)])]
  <1>1. size \in Nat /\ DOMAIN done = 1 .. size
    BY DEF Sequential
  <1>2. \A best, r : step(best, r) = best \/ step(best, r) = {r}
    BY DEF Better
  <1>3. PICK F : F = [x \in Bests \X (1 .. size) |-> step(x[1], done[x[2]])]
    OBVIOUS
  <1>4. F \in [Bests \X (1 .. size) -> Bests]
    <2> HIDE DEF size, step
    <2>1. \A best \in Bests, i \in 1 .. size : step(best, done[i]) \in Bests
      BY <1>2
    <2> HIDE DEF Bests
    <2> QED
      BY <1>3, <2>1
  <1>5. PICK g \in [SUBSET (1 .. size) -> Bests] : Folds(g, size, {}, F)
    <2> HIDE DEF size, step
    <2>1. size \in Nat /\ {} \in Bests
      BY <1>1
    <2> HIDE DEF Bests
    <2> QED
      BY <1>4, <2>1, FoldExists
  <1>6. g = pass(g)
    <2>1. ASSUME NEW s \in SUBSET (1 .. size), s # {}
          PROVE  F[<<g[s \ {Max(s)}], Max(s)>>] = step(g[s \ {Max(s)}], done[Max(s)])
      <3> HIDE DEF Bests, size, step
      <3>1. Max(s) \in 1 .. size
        BY <1>1, <2>1, GreatestIsIn
      <3>2. s \ {Max(s)} \in SUBSET (1 .. size)
        OBVIOUS
      <3>3. PICK r, k : r = g[s \ {Max(s)}] /\ k = Max(s)
        OBVIOUS
      <3>4. r \in Bests /\ k \in 1 .. size
        BY <1>5, <3>1, <3>2, <3>3
      <3>5. F[<<r, k>>] = step(r, done[k])
        BY <1>3, <3>4
      <3> QED
        BY <3>3, <3>5
    <2> HIDE DEF Bests, size, step
    <2> QED
      BY <1>5, <2>1 DEF Folds
  <1>7. PICK iter : iter = CHOOSE f : f = pass(f)
    OBVIOUS
  <1>8. iter = pass(iter)
    BY <1>6, <1>7
  <1>9. BestOf(done) = iter[1 .. size]
    BY <1>1, <1>7 DEF BestOf, FoldLeft, MapThenFoldSet
  <1>10. iter[{}] = {}
    BY <1>8
  <1>11. \A k \in 1 .. size : iter[1 .. k] = step(iter[1 .. (k - 1)], done[k])
    <2> SUFFICES ASSUME NEW k \in 1 .. size
                 PROVE  iter[1 .. k] = step(iter[1 .. (k - 1)], done[k])
      OBVIOUS
    <2>1. 1 .. k \in SUBSET (1 .. size) /\ Max(1 .. k) = k /\ 1 .. k # {}
          /\ (1 .. k) \ {k} = 1 .. (k - 1)
      <3>1. k \in Nat \ {0} /\ 1 .. k \in SUBSET (1 .. size)
        BY <1>1
      <3> QED
        BY <3>1, PrefixWithoutLast
    <2>2. iter[1 .. k] = step(iter[(1 .. k) \ {Max(1 .. k)}], done[Max(1 .. k)])
      <3> HIDE DEF size, step
      <3> QED
        BY <1>8, <2>1
    <2> HIDE DEF size, step
    <2> QED
      BY <2>1, <2>2
  <1> DEFINE isLive(i) == done[i].state # "expired"
             leads(k, j) == /\ iter[1 .. k] = {done[j]} /\ isLive(j)
                            /\ \A i \in 1 .. k : isLive(i) => done[i].confidence <= done[j].confidence
             holds(k) == \/ iter[1 .. k] = {} /\ \A i \in 1 .. k : ~isLive(i)
                         \/ \E j \in 1 .. k : leads(k, j)
             Bad == {k \in 0 .. size : ~holds(k)}
  <1>12. holds(0)
    <2>1. 1 .. 0 = {}
      OBVIOUS
    <2> QED
      BY <1>10, <2>1
  <1>13. ASSUME NEW k \in 1 .. size, holds(k - 1) PROVE holds(k)
    <2>1. PICK r, old, new : r = done[k] /\ old = iter[1 .. (k - 1)] /\ new = iter[1 .. k]
      OBVIOUS
    <2>2. new = step(old, r) /\ r.confidence \in Int
      BY <1>1, <1>11, <2>1
    <2>3. \A i \in 1 .. k : i \in 1 .. (k - 1) \/ i = k
      BY <1>1
    <2>4. k \in 1 .. k /\ 1 .. (k - 1) \subseteq 1 .. k /\ 1 .. k \subseteq 1 .. size
      BY <1>1
    <2>5. CASE ~isLive(k)
      <3>1. new = old
        BY <2>1, <2>2, <2>5
      <3> HIDE DEF step
      <3>2. CASE old = {} /\ \A i \in 1 .. (k - 1) : ~isLive(i)
        BY <2>1, <2>3, <2>5, <3>1, <3>2
      <3>3. ASSUME NEW j \in 1 .. (k - 1), leads(k - 1, j) PROVE leads(k, j)
        BY <2>1, <2>3, <2>5, <3>1, <3>3
      <3> QED
        BY <1>13, <2>1, <2>4, <3>2, <3>3
    <2>6. CASE isLive(k)
      <3>1. new = Better(old, r)
        BY <2>1, <2>2, <2>6
      <3> HIDE DEF step
      <3>2. CASE old = {} /\ \A i \in 1 .. (k - 1) : ~isLive(i)
        <4>1. new = {r}
          BY <3>1, <3>2 DEF Better
        <4>2. r.confidence <= r.confidence
          BY <2>2
        <4>3. leads(k, k)
          BY <2>1, <2>3, <2>6, <3>2, <4>1, <4>2
        <4> QED
          BY <2>4, <4>3
      <3>3. ASSUME NEW j \in 1 .. (k - 1), leads(k - 1, j) PROVE holds(k)
        <4>1. PICK b : b = done[j]
          OBVIOUS
        <4>2. old = {b} /\ j \in 1 .. k /\ b.confidence \in Int
          BY <1>1, <2>1, <2>4, <3>3, <4>1
        <4>3. new = IF PriorityLess(b, r) THEN {r} ELSE {b}
          BY <3>1, <4>2 DEF Better
        <4>4. CASE PriorityLess(b, r)
          <5>1. b.confidence <= r.confidence /\ new = {r}
            BY <2>2, <4>2, <4>3, <4>4, ConfidenceComesFirst
          <5>2. ASSUME NEW i \in 1 .. k, isLive(i) PROVE done[i].confidence <= r.confidence
            <6>1. CASE i = k
              BY <2>1, <2>2, <6>1
            <6>2. CASE i \in 1 .. (k - 1)
              <7>1. PICK x, y, z : x = done[i].confidence /\ y = b.confidence /\ z = r.confidence
                OBVIOUS
              <7>2. x \in Int /\ y \in Int /\ z \in Int /\ x <= y /\ y <= z
                BY <1>1, <2>2, <2>4, <3>3, <4>1, <4>2, <5>1, <5>2, <6>2, <7>1
              <7>3. x <= z
                BY <7>2
              <7> QED
                BY <7>1, <7>3
            <6> QED
              BY <2>3, <6>1, <6>2
          <5>3. leads(k, k)
            BY <2>1, <2>6, <5>1, <5>2
          <5> QED
            BY <2>4, <5>3
        <4>5. CASE ~PriorityLess(b, r)
          <5>1. r.confidence <= b.confidence /\ new = {b}
            BY <2>2, <4>2, <4>3, <4>5, ConfidenceComesFirst
          <5>2. leads(k, j)
            BY <2>1, <2>3, <3>3, <4>1, <5>1
          <5> QED
            BY <4>2, <5>2
        <4> QED
          BY <4>4, <4>5
      <3> QED
        BY <1>13, <2>1, <3>2, <3>3
    <2> QED
      BY <2>5, <2>6
  <1>14. holds(size)
    <2> SUFFICES ASSUME ~holds(size) PROVE FALSE
      OBVIOUS
    <2> HIDE DEF holds
    <2>1. Bad \in SUBSET Nat /\ Bad # {}
      BY <1>1
    <2>2. PICK k \in Bad : \A j \in Bad : k <= j
      BY <2>1, LeastExists
    <2>3. k \in 0 .. size /\ ~holds(k) /\ k # 0
      BY <1>12, <2>2
    <2>4. k \in 1 .. size /\ k - 1 \in 0 .. size /\ ~(k <= k - 1)
      BY <1>1, <2>3
    <2>5. holds(k - 1)
      BY <2>2, <2>4
    <2> QED
      BY <1>13, <2>3, <2>4, <2>5
  <1>15. PICK live : live = {i \in DOMAIN done : done[i].state # "expired"}
    OBVIOUS
  <1>16. \A i \in 1 .. size : isLive(i) <=> i \in live
    BY <1>1, <1>15
  <1>17. CASE iter[1 .. size] = {} /\ \A i \in 1 .. size : ~isLive(i)
    <2>1. live = {}
      BY <1>1, <1>15, <1>17
    <2> QED
      BY <1>9, <1>15, <1>17, <2>1 DEF IsBestOf
  <1>18. ASSUME NEW j \in 1 .. size, leads(size, j) PROVE IsBestOf(BestOf(done), done)
    <2>1. j \in live /\ \A i \in live : done[i].confidence <= done[j].confidence
      BY <1>1, <1>15, <1>16, <1>18
    <2> QED
      BY <1>9, <1>15, <1>18, <2>1 DEF IsBestOf
  <1> QED
    BY <1>14, <1>17, <1>18

\* What a row is called by its rank.
LEMMA PriorityCases ==
    ASSUME NEW r, NEW best
    PROVE  PriorityLabel(r, best) = "best_on_tape" <=> \E b \in best : b.mint = r.mint
  <1> DEFINE a1 == \E b \in best : b.mint = r.mint
             a2 == r.eff5m >= 3 \/ r.clustering # "resolved" \/ r.mcap = 0
  <1>1. PriorityLabel(r, best) =
          FirstMatch(<<<<a1, "best_on_tape">>, <<a2, "monitor_for_upgrade">>>>, "deprioritize")
    BY DEF PriorityLabel
  <1> HIDE DEF a1, a2
  <1>2. FirstMatch(<<<<a1, "best_on_tape">>, <<a2, "monitor_for_upgrade">>>>, "deprioritize")
          = IF a1 THEN "best_on_tape" ELSE IF a2 THEN "monitor_for_upgrade" ELSE "deprioritize"
    BY FirstOfTwo
  <1>3. PriorityLabel(r, best) = "best_on_tape" <=> a1
    BY <1>1, <1>2
  <1> QED
    BY <1>3 DEF a1

\* The quality tier RUNNER takes the first priority.
LEMMA RunnerLeads ==
    ASSUME NEW r, QualityTier(r) = "RUNNER"
    PROVE  r.priority = "best_on_tape"
  <1> DEFINE a1 == r.priority = "best_on_tape" /\ r.actionability = "actionable now"
             a2 == r.priority = "best_on_tape" \/ r.actionability = "observe closely"
             a3 == r.trust = "insider-controlled"
  <1>1. QualityTier(r) =
          FirstMatch(<<<<a1, "RUNNER">>, <<a2, "WATCH">>, <<a3, "TRAP">>>>, "DEAD")
    BY DEF QualityTier
  <1> HIDE DEF a1, a2, a3
  <1>2. FirstMatch(<<<<a1, "RUNNER">>, <<a2, "WATCH">>, <<a3, "TRAP">>>>, "DEAD")
          = IF a1 THEN "RUNNER" ELSE IF a2 THEN "WATCH" ELSE IF a3 THEN "TRAP" ELSE "DEAD"
    BY FirstOfThree
  <1>3. a1
    BY <1>1, <1>2
  <1> QED
    BY <1>3 DEF a1

\* An answer leads with one row, the most confident of those not expired, if it
\* has one, however many rows tie and in whatever order they were scored.
THEOREM AnswersLeadWithTheBest == PipelineSpec => []BestIsUnbeaten
  <1>1. PipelineInv => BestIsUnbeaten
    <2> SUFFICES ASSUME PipelineInv PROVE BestIsUnbeaten
      OBVIOUS
    <2>1. PICK led, live, runners :
            /\ led = {i \in DOMAIN rows : rows[i].priority = "best_on_tape"}
            /\ live = {i \in DOMAIN rows : rows[i].state # "expired"}
            /\ runners = {i \in DOMAIN rows : rows[i].tier = "RUNNER"}
      OBVIOUS
    <2>2. SUFFICES /\ Cardinality(led) = (IF live = {} THEN 0 ELSE 1)
                   /\ \A b \in led : b \in live /\ \A i \in live : rows[i].confidence <= rows[b].confidence
                   /\ runners \subseteq led
      BY <2>1 DEF BestIsUnbeaten
    <2>3. CASE rows = <<>>
      <3>1. led = {} /\ live = {} /\ runners = {}
        BY <2>1, <2>3
      <3> QED
        BY <3>1, FS_EmptySet
    <2>4. CASE rows # <<>>
      <3>1. PICK done : /\ ScoredRows(done) /\ DOMAIN rows = DOMAIN done
                        /\ \A i \in DOMAIN rows : rows[i] = Ranked(done[i], BestOf(done))
        BY <2>4, RowIsRanked
      <3>2. PICK best : best = BestOf(done)
        OBVIOUS
      <3>3. \A i \in DOMAIN done : done[i].confidence \in Int
        <4>1. ASSUME NEW i \in DOMAIN done PROVE done[i].confidence \in Int
          <5>1. PICK r : r = done[i]
            OBVIOUS
          <5>2. Scored(r)
            BY <3>1, <5>1 DEF ScoredRows
          <5>3. PICK s : Collected(s, r.asOf, r.seen) /\ DecidedFrom(r, s)
            BY <5>2, ScoredIsDecided
          <5>4. r.confidence \in Int
            BY <5>3, ConfidenceOfDecided
          <5> QED
            BY <5>1, <5>4
        <4> QED
          BY <4>1
      <3>4. IsBestOf(best, done)
        BY <3>1, <3>2, <3>3, BestIsFound DEF ScoredRows
      <3>5. ASSUME NEW i \in DOMAIN rows
            PROVE  /\ rows[i].state = done[i].state /\ rows[i].confidence = done[i].confidence
                   /\ rows[i].priority = "best_on_tape" <=> \E b \in best : b.mint = done[i].mint
                   /\ rows[i].tier = "RUNNER" => rows[i].priority = "best_on_tape"
        <4>1. PICK r, u : r = done[i] /\ u = rows[i]
          OBVIOUS
        <4>2. Scored(r) /\ u = Ranked(r, best)
          BY <3>1, <3>2, <4>1 DEF ScoredRows
        <4>3. /\ \A x \in RowFields : u[x] = r[x]
              /\ u.priority = PriorityLabel(r, best) /\ u.tier = QualityTier(u)
          BY <4>2, RankedIsDecided
        <4>4. u.state = r.state /\ u.confidence = r.confidence
          BY <4>3 DEF RowFields, DecisionFields, LabelFields
        <4>5. u.priority = "best_on_tape" <=> \E b \in best : b.mint = r.mint
          BY <4>3, PriorityCases
        <4>6. u.tier = "RUNNER" => u.priority = "best_on_tape"
          BY <4>3, RunnerLeads
        <4> QED
          BY <4>1, <4>4, <4>5, <4>6
      <3>6. live = {i \in DOMAIN done : done[i].state # "expired"}
        BY <2>1, <3>1, <3>5
      <3>7. runners \subseteq led
        BY <2>1, <3>5
      <3>8. CASE live = {}
        <4>1. best = {}
          BY <3>4, <3>6, <3>8 DEF IsBestOf
        <4>2. led = {}
          BY <2>1, <3>5, <4>1
        <4> QED
          BY <3>7, <3>8, <4>2, FS_EmptySet
      <3>9. CASE live # {}
        <4>1. PICK j \in live : /\ best = {done[j]}
                                /\ \A i \in live : done[i].confidence <= done[j].confidence
          BY <3>4, <3>6, <3>9 DEF IsBestOf
        <4>2. \A i \in DOMAIN rows : (\E b \in best : b.mint = done[i].mint) <=> i = j
          BY <2>1, <3>1, <4>1 DEF ScoredRows, OfSeparateTokens
        <4>3. led = {j}
          BY <2>1, <3>5, <4>1, <4>2
        <4>4. \A i \in live : rows[i].confidence <= rows[j].confidence
          BY <2>1, <3>5, <4>1
        <4>5. Cardinality(led) = 1
          BY <4>3, FS_Singleton
        <4> QED
          BY <3>7, <3>9, <4>3, <4>4, <4>5
      <3> QED
        BY <3>8, <3>9
    <2> QED
      BY <2>3, <2>4
  <1> QED
    BY <1>1, AnswersAreOfTheirTokens, PTL

-----------------------------------------------------------------------------
(* What a snapshot says of its token's history.                            *)

\* A swap's fields are of their kinds.
LEMMA FieldsOfSwaps ==
    ASSUME NEW h \in Seq(AnySwap), NEW i \in DOMAIN h
    PROVE  /\ h[i].sol \in Nat /\ h[i].sol \in Int /\ h[i].wallet \in Wallet
           /\ h[i].isBuy \in BOOLEAN
  <1>1. h[i] \in AnySwap
    OBVIOUS
  <1>2. h[i].sol \in Sol /\ h[i].wallet \in Wallet /\ h[i].isBuy \in BOOLEAN
    BY <1>1 DEF AnySwap
  <1>3. h[i].sol \in Nat
    BY <1>2, SwapStoreAssumption
  <1> QED
    BY <1>2, <1>3

\* The swaps kept of h are wallets and sums of those given; or all of theirs.
PartOf(b, kept, h, given) ==
    WalletsAt(b, kept) \subseteq WalletsAt(h, given) /\ TotalSol(b, kept) <= TotalSol(h, given)
AllOf(b, kept, h, given) ==
    WalletsAt(b, kept) = WalletsAt(h, given) /\ TotalSol(b, kept) = TotalSol(h, given)

\* Of the swaps of one side, what a bounded history kept of the last ones is
\* some of them, and all of them while it never was full.
LEMMA KeptWithin ==
    ASSUME NEW b \in Seq(AnySwap), NEW h \in Seq(AnySwap), NEW S \in SUBSET DOMAIN h, NEW cap,
           KeptOf(b, h, S, cap), NEW window, NEW at,
           NEW kept, kept = Within(b, window, at),
           NEW given, given = S \cap Within(h, window, at)
    PROVE  /\ PartOf(b, kept, h, given)
           /\ Cardinality(S) <= cap => AllOf(b, kept, h, given)
  <1>1. PICK p : PlacedBy(p, b, h, S, cap)
    BY DEF KeptOf
  <1>2. PICK image : image = {p[j] : j \in kept}
    OBVIOUS
  <1>3. /\ p \in [DOMAIN b -> S] /\ \A j \in DOMAIN b : b[j] = h[p[j]]
        /\ \A j, k \in DOMAIN b : p[j] = p[k] => j = k
        /\ Cardinality(S) <= cap => \A i \in S : \E j \in DOMAIN b : p[j] = i
    BY <1>1 DEF PlacedBy
  <1>4. kept \in SUBSET DOMAIN b /\ given \in SUBSET DOMAIN h
    BY WithinIsPart
  <1>5. image \in SUBSET given
    <2>1. ASSUME NEW j \in kept PROVE p[j] \in given
      <3>1. j \in DOMAIN b /\ b[j].at > at - window
        BY <1>2, <2>1 DEF Within
      <3>2. p[j] \in S /\ h[p[j]].at > at - window
        BY <1>3, <3>1
      <3> QED
        BY <1>2, <3>2 DEF Within
    <2> QED
      BY <1>2, <2>1
  <1>6. ASSUME Cardinality(S) <= cap PROVE image = given
    <2>1. ASSUME NEW i \in given PROVE i \in image
      <3>1. i \in S /\ h[i].at > at - window
        BY <1>2, <2>1 DEF Within
      <3>2. PICK j \in DOMAIN b : p[j] = i
        BY <1>3, <1>6, <3>1
      <3>3. b[j].at > at - window
        BY <1>3, <3>1, <3>2
      <3>4. j \in kept
        BY <1>2, <3>3 DEF Within
      <3> QED
        BY <1>2, <3>2, <3>4
    <2> QED
      BY <1>5, <2>1
  <1>7. WalletsAt(b, kept) \subseteq WalletsAt(h, given)
    <2>1. ASSUME NEW j \in kept PROVE p[j] \in given /\ b[j].wallet = h[p[j]].wallet
      BY <1>2, <1>3, <1>4, <1>5, <2>1
    <2> QED
      BY <2>1 DEF WalletsAt
  <1>8. ASSUME Cardinality(S) <= cap PROVE WalletsAt(h, given) \subseteq WalletsAt(b, kept)
    <2>1. ASSUME NEW i \in given PROVE \E j \in kept : b[j].wallet = h[i].wallet
      <3>1. PICK j \in kept : p[j] = i
        BY <1>2, <1>6, <1>8
      <3> QED
        BY <1>3, <1>4, <3>1
    <2> QED
      BY <2>1 DEF WalletsAt
  <1>9. TotalSol(h, image) = TotalSol(b, kept)
    <2>1. PICK a, c : a = [j \in DOMAIN b |-> b[j].sol] /\ c = [i \in DOMAIN h |-> h[i].sol]
      OBVIOUS
    <2>2. IsFiniteSet(kept)
      BY <1>4, SomeSwaps
    <2>3. \A j \in kept : a[j] \in Int
      <3>1. \A j \in DOMAIN b : b[j].sol \in Int
        BY FieldsOfSwaps
      <3> QED
        BY <1>4, <2>1, <3>1
    <2>4. /\ \A j, k \in kept : p[j] = p[k] => j = k
          /\ \A j \in kept : c[p[j]] = a[j]
      BY <1>3, <1>4, <2>1
    <2>5. image = {p[j] : j \in kept}
      BY <1>2
    <2>6. SumFunctionOnSet(c, image) = SumFunctionOnSet(a, kept)
      <3>1. PICK K : K = kept
        OBVIOUS
      <3>2. /\ IsFiniteSet(K) /\ \A j \in K : a[j] \in Int
            /\ \A j, k \in K : p[j] = p[k] => j = k
            /\ \A j \in K : c[p[j]] = a[j]
            /\ image = {p[j] : j \in K}
        BY <2>2, <2>3, <2>4, <2>5, <3>1
      <3>3. SumFunctionOnSet(c, image) = SumFunctionOnSet(a, K)
        BY <3>2, SumOfMoved
      <3> QED
        BY <3>1, <3>3
    <2> QED
      BY <2>1, <2>6 DEF TotalSol
  <1>10. TotalSol(h, image) <= TotalSol(h, given)
    BY <1>4, <1>5, SomeSwaps
  <1> QED
    BY <1>6, <1>7, <1>8, <1>9, <1>10 DEF PartOf, AllOf

\* What the wallets spent, or earned, one by one adds up to what was bought, or
\* sold, in all.
LEMMA SpentInAll ==
    ASSUME NEW h \in Seq(AnySwap), NEW side \in BOOLEAN, NEW f, DOMAIN f = Wallet,
           \A w \in Wallet : f[w] = TotalSol(h, SwapsBy(h, w, side))
    PROVE  SumFunction(f) = TotalSol(h, {i \in DOMAIN h : h[i].isBuy = side})
  <1>1. PICK a, key, all : /\ a = [i \in DOMAIN h |-> h[i].sol]
                           /\ key = [i \in DOMAIN h |-> h[i].wallet]
                           /\ all = {i \in DOMAIN h : h[i].isBuy = side}
    OBVIOUS
  <1>2. all \in SUBSET DOMAIN h /\ IsFiniteSet(all) /\ IsFiniteSet(Wallet)
    <2>1. all \in SUBSET DOMAIN h
      BY <1>1
    <2> QED
      BY <2>1, SomeSwaps, SwapStoreAssumption
  <1>3. \A i \in all : a[i] \in Int /\ key[i] \in Wallet
    <2>1. \A i \in DOMAIN h : h[i].sol \in Int /\ h[i].wallet \in Wallet
      BY FieldsOfSwaps
    <2> QED
      BY <1>1, <1>2, <2>1
  <1>4. PICK g : g = [w \in Wallet |-> SumFunctionOnSet(a, {i \in all : key[i] = w})]
    OBVIOUS
  <1>5. SumFunctionOnSet(g, Wallet) = SumFunctionOnSet(a, all)
    <2>1. PICK K : K = Wallet
      OBVIOUS
    <2>2. /\ IsFiniteSet(all) /\ IsFiniteSet(K) /\ \A i \in all : a[i] \in Int
          /\ \A i \in all : key[i] \in K
      BY <1>2, <1>3, <2>1
    <2>3. SumFunctionOnSet([w \in K |-> SumFunctionOnSet(a, {i \in all : key[i] = w})], K)
            = SumFunctionOnSet(a, all)
      BY <2>2, SumByKey
    <2> QED
      BY <1>4, <2>1, <2>3
  <1>6. ASSUME NEW w \in Wallet PROVE f[w] = g[w]
    <2>1. SwapsBy(h, w, side) = {i \in all : key[i] = w}
      BY <1>1 DEF SwapsBy
    <2> QED
      BY <1>1, <1>4, <2>1 DEF TotalSol
  <1>7. \A w \in Wallet : g[w] \in Int
    <2> SUFFICES ASSUME NEW w \in Wallet PROVE g[w] \in Int
      OBVIOUS
    <2>1. PICK part : part = {i \in all : key[i] = w}
      OBVIOUS
    <2>2. IsFiniteSet(part) /\ \A i \in part : a[i] \in Int
      <3>1. part \in SUBSET all
        BY <2>1
      <3>2. \A i \in part : a[i] \in Int
        BY <1>3, <3>1
      <3> QED
        BY <1>2, <3>1, <3>2, FS_Subset
    <2>3. SumFunctionOnSet(a, part) \in Int
      BY <2>2, SumIsInt
    <2> QED
      BY <1>4, <2>1, <2>3
  <1>8. SumFunctionOnSet(g, Wallet) = SumFunctionOnSet(f, Wallet)
    <2>1. \A w \in Wallet : g[w] \in Int /\ g[w] = f[w]
      BY <1>6, <1>7
    <2> QED
      BY <1>2, <2>1, SumOfSame
  <1>9. SumFunction(f) = SumFunctionOnSet(f, Wallet)
    BY DEF SumFunction
  <1>10. TotalSol(h, all) = SumFunctionOnSet(a, all)
    BY <1>1 DEF TotalSol
  <1> QED
    BY <1>1, <1>5, <1>8, <1>9, <1>10

\* What was bought and what was sold is all there was.
LEMMA BothSides ==
    ASSUME NEW h \in Seq(AnySwap), NEW swaps \in SUBSET DOMAIN h
    PROVE  TotalSol(h, swaps) = TotalSol(h, BuysOf(h) \cap swaps) + TotalSol(h, SellsOf(h) \cap swaps)
  <1>1. PICK a, bought : a = [i \in DOMAIN h |-> h[i].sol] /\ bought = BuysOf(h) \cap swaps
    OBVIOUS
  <1>2. IsFiniteSet(swaps) /\ bought \in SUBSET swaps
    BY <1>1, SomeSwaps
  <1>3. \A i \in swaps : a[i] \in Int
    <2>1. \A i \in DOMAIN h : h[i].sol \in Int
      BY FieldsOfSwaps
    <2> QED
      BY <1>1, <2>1
  <1>4. SumFunctionOnSet(a, swaps) = SumFunctionOnSet(a, bought) + SumFunctionOnSet(a, swaps \ bought)
    BY <1>2, <1>3, SumOfParts
  <1>5. swaps \ bought = SellsOf(h) \cap swaps
    BY <1>1 DEF BuysOf, SellsOf
  <1> QED
    BY <1>1, <1>4, <1>5 DEF TotalSol

\* The collected sums and buyers, by the history.
LEMMA CollectedHistory ==
    ASSUME NEW s, NEW at, NEW h, Collected(s, at, h)
    PROVE  LET bought(window) == BuysOf(h) \cap Within(h, window, at)
               sold(window) == SellsOf(h) \cap Within(h, window, at)
           IN  /\ s.totalBuy = TotalSol(h, BuysOf(h)) /\ s.totalSell = TotalSol(h, SellsOf(h))
               /\ s.wallets1m \subseteq WalletsAt(h, bought(Minute))
               /\ s.wallets5m \subseteq WalletsAt(h, bought(5 * Minute))
               /\ s.buy1m <= TotalSol(h, bought(Minute))
               /\ Cardinality(SellsOf(h)) <= SellCap => s.sell1m = TotalSol(h, sold(Minute))
               /\ Cardinality(BuysOf(h)) <= BuyCap => s.wallets1m = WalletsAt(h, bought(Minute))
  <1>1. PICK mint \in Mint, t \in TokenRecord :
          s = SnapshotOf(mint, t, at) /\ Made(t, h, at) /\ h \in Seq(AnySwap)
    BY DEF Collected
  <1>2. /\ s.totalBuy = TotalBuySOL(t) /\ s.totalSell = TotalSellSOL(t)
        /\ s.wallets1m = WalletsAt(t.buys, Within(t.buys, Minute, at))
        /\ s.wallets5m = WalletsAt(t.buys, Within(t.buys, 5 * Minute, at))
        /\ s.buy1m = TotalSol(t.buys, Within(t.buys, Minute, at))
        /\ s.sell1m = TotalSol(t.sells, Within(t.sells, Minute, at))
    BY <1>1, SnapshotAt
  <1>3. /\ t.buys \in Seq(AnySwap) /\ t.sells \in Seq(AnySwap)
        /\ DOMAIN t.spent = Wallet /\ DOMAIN t.earned = Wallet
    BY DEF TokenRecord
  <1>4. /\ KeptOf(t.buys, h, BuysOf(h), BuyCap) /\ KeptOf(t.sells, h, SellsOf(h), SellCap)
        /\ \A w \in Wallet : /\ t.spent[w] = TotalSol(h, SwapsBy(h, w, TRUE))
                             /\ t.earned[w] = TotalSol(h, SwapsBy(h, w, FALSE))
    BY <1>1 DEF Made, SidesKept, Summed
  <1>5. BuysOf(h) \in SUBSET DOMAIN h /\ SellsOf(h) \in SUBSET DOMAIN h
    BY DEF BuysOf, SellsOf
  <1>6. /\ BuysOf(h) = {i \in DOMAIN h : h[i].isBuy = TRUE}
        /\ SellsOf(h) = {i \in DOMAIN h : h[i].isBuy = FALSE}
    <2>1. \A i \in DOMAIN h : h[i].isBuy \in BOOLEAN
      BY <1>1, FieldsOfSwaps
    <2> QED
      BY <2>1 DEF BuysOf, SellsOf
  <1>7. s.totalBuy = TotalSol(h, BuysOf(h)) /\ s.totalSell = TotalSol(h, SellsOf(h))
    <2>1. SumFunction(t.spent) = TotalSol(h, {i \in DOMAIN h : h[i].isBuy = TRUE})
      BY <1>1, <1>3, <1>4, SpentInAll
    <2>2. SumFunction(t.earned) = TotalSol(h, {i \in DOMAIN h : h[i].isBuy = FALSE})
      BY <1>1, <1>3, <1>4, SpentInAll
    <2> QED
      BY <1>2, <1>6, <2>1, <2>2 DEF TotalBuySOL, TotalSellSOL
  <1>8. ASSUME NEW window
        PROVE  /\ WalletsAt(t.buys, Within(t.buys, window, at))
                    \subseteq WalletsAt(h, BuysOf(h) \cap Within(h, window, at))
               /\ TotalSol(t.buys, Within(t.buys, window, at))
                    <= TotalSol(h, BuysOf(h) \cap Within(h, window, at))
               /\ Cardinality(SellsOf(h)) <= SellCap =>
                    TotalSol(t.sells, Within(t.sells, window, at))
                      = TotalSol(h, SellsOf(h) \cap Within(h, window, at))
               /\ Cardinality(BuysOf(h)) <= BuyCap =>
                    WalletsAt(t.buys, Within(t.buys, window, at))
                      = WalletsAt(h, BuysOf(h) \cap Within(h, window, at))
    <2>1. PICK b, c, S, T : /\ b = t.buys /\ c = t.sells /\ S = BuysOf(h) /\ T = SellsOf(h)
      OBVIOUS
    <2>2. /\ b \in Seq(AnySwap) /\ c \in Seq(AnySwap) /\ h \in Seq(AnySwap)
          /\ S \in SUBSET DOMAIN h /\ T \in SUBSET DOMAIN h
          /\ KeptOf(b, h, S, BuyCap) /\ KeptOf(c, h, T, SellCap)
      BY <1>1, <1>3, <1>4, <1>5, <2>1
    <2>3. PICK bs, given : bs = Within(b, window, at) /\ given = S \cap Within(h, window, at)
      OBVIOUS
    <2>4. PICK cs, taken : cs = Within(c, window, at) /\ taken = T \cap Within(h, window, at)
      OBVIOUS
    <2>5. /\ b \in Seq(AnySwap) /\ h \in Seq(AnySwap) /\ S \in SUBSET DOMAIN h
          /\ KeptOf(b, h, S, BuyCap)
          /\ bs = Within(b, window, at) /\ given = S \cap Within(h, window, at)
      BY <2>2, <2>3
    <2>6. /\ c \in Seq(AnySwap) /\ h \in Seq(AnySwap) /\ T \in SUBSET DOMAIN h
          /\ KeptOf(c, h, T, SellCap)
          /\ cs = Within(c, window, at) /\ taken = T \cap Within(h, window, at)
      BY <2>2, <2>4
    <2>7. PartOf(b, bs, h, given) /\ (Cardinality(S) <= BuyCap => AllOf(b, bs, h, given))
      BY <2>5, KeptWithin
    <2>8. Cardinality(T) <= SellCap => AllOf(c, cs, h, taken)
      BY <2>6, KeptWithin
    <2> QED
      BY <2>1, <2>3, <2>4, <2>7, <2>8 DEF PartOf, AllOf
  <1> QED
    BY <1>2, <1>7, <1>8

-----------------------------------------------------------------------------
(* What stands behind an actionable row.                                   *)

\* A label a trade could be made on has passed everything before it.
LEMMA LabelledIsChecked ==
    ASSUME NEW s, NEW d, NEW healthy, Label(s, d, healthy) \in {"BUY", "READY"}
    PROVE  /\ healthy /\ ~(d.exec < LiveConfig.execAVOID) /\ ~(d.impact > LiveConfig.maxImpact)
           /\ d.engine.layer0 = "none" /\ d.engine.maxLabel # "AVOID"
           /\ CheckBUY(s, d) \/ (Label(s, d, healthy) = "READY" /\ CheckREADY(s, d))
  <1>1. PICK low, watched, checked, label, max :
          /\ low = (d.exec < LiveConfig.execAVOID \/ d.impact > LiveConfig.maxImpact)
          /\ watched = (IF CheckWATCH(s) THEN "WATCH" ELSE "AVOID")
          /\ checked = (IF CheckBUY(s, d) THEN "BUY" ELSE IF CheckREADY(s, d) THEN "READY" ELSE watched)
          /\ label = Label(s, d, healthy) /\ max = d.engine.maxLabel
    OBVIOUS
  <1>2. label = IF low THEN "AVOID" ELSE IF ~healthy THEN watched
                ELSE IF d.engine.layer0 # "none" THEN "AVOID"
                ELSE ApplyLabelCeiling(checked, max)
    BY <1>1, LabelCases
  <1>3. label \in {"BUY", "READY"} /\ watched \in {"WATCH", "AVOID"}
    BY <1>1
  <1>4. ~low /\ healthy /\ d.engine.layer0 = "none" /\ label = ApplyLabelCeiling(checked, max)
    BY <1>2, <1>3
  <1>5. label = IF max # "" /\ LabelRank[checked] > LabelRank[max] THEN max ELSE checked
    BY <1>4 DEF ApplyLabelCeiling
  <1>6. checked \in {"BUY", "READY", "WATCH", "AVOID"}
    BY <1>1, <1>3
  <1>7. max # "AVOID"
    <2> SUFFICES ASSUME max = "AVOID" PROVE FALSE
      OBVIOUS
    <2> QED
      BY <1>3, <1>5, <1>6, LabelRanks
  <1>8. checked \in {"BUY", "READY"} /\ (checked = "READY" => label = "READY")
    <2>1. PICK x, y : x = LabelRank[checked] /\ y = LabelRank[max]
      OBVIOUS
    <2>2. CASE label = checked
      BY <1>3, <2>2
    <2>3. CASE label = max /\ x > y
      <3>1. y \in {2, 3} /\ (max = "BUY" => y = 3)
        BY <1>3, <2>1, <2>3, LabelRanks
      <3>2. CASE checked \in {"WATCH", "AVOID"}
        <4>1. x \in {0, 1}
          BY <2>1, <3>2, LabelRanks
        <4> QED
          BY <2>3, <3>1, <4>1
      <3>3. CASE checked = "READY"
        <4>1. x = 2
          BY <2>1, <3>3, LabelRanks
        <4> QED
          BY <2>3, <3>1, <4>1
      <3>4. CASE checked = "BUY"
        BY <3>4
      <3> QED
        BY <1>6, <3>2, <3>3, <3>4
    <2> QED
      BY <1>5, <2>1, <2>2, <2>3
  <1>9. CheckBUY(s, d) \/ (checked = "READY" /\ CheckREADY(s, d))
    BY <1>1, <1>3, <1>8
  <1> QED
    BY <1>1, <1>4, <1>7, <1>8, <1>9

\* Unless the gates forbid everything, 25 SOL can be sold into the pool for 5%
\* of it.
LEMMA SaleFits ==
    ASSUME NEW s, s.pool \in Nat \ {0}, NEW ratio,
           LET e == EvaluateGates(s, ratio) IN e.layer0 = "none" /\ e.maxLabel # "AVOID"
    PROVE  50000 <= s.pool
  <1>1. PICK e, g : e = EvaluateGates(s, ratio) /\ g = GatesOf(s, ratio)
    OBVIOUS
  <1>2. e = Passing(s, g)
    <2>1. CASE Layer0(s, ratio) # "none"
      <3>1. e.layer0 = Layer0(s, ratio)
        BY <1>1, <2>1 DEF EvaluateGates
      <3> QED
        BY <1>1, <2>1, <3>1
    <2> QED
      BY <1>1, <2>1 DEF EvaluateGates
  <1>3. MaxLabel(s, g) # "AVOID"
    <2>1. PICK label : label = MaxLabel(s, g)
      OBVIOUS
    <2>2. e.maxLabel = label
      BY <1>2, <2>1 DEF Passing
    <2> QED
      BY <1>1, <2>1, <2>2
  <1>4. g[7] # "failed"
    BY <1>3, MaxLabelCases
  <1>5. g[7] = SlippageCeiling(s)
    BY <1>1 DEF GatesOf
  <1>6. EngineConfig.sellTest = 2500 /\ EngineConfig.maxSlippage = 500
    BY DEF EngineConfig, SOL, Percent
  <1>7. 2500 * 10000 <= 500 * s.pool
    BY <1>4, <1>5, <1>6 DEF SlippageCeiling, Gate
  <1> QED
    BY <1>7

\* Roots of fewer wallets are no more.
LEMMA RootsAreEnough ==
    ASSUME NEW wallets, NEW more \in SUBSET Wallet, wallets \subseteq more, NEW outcome,
           NEW k \in Nat,
           k <= Cluster(wallets, [w \in Wallet |-> ResolveAs(outcome, w)]).eff
    PROVE  Cardinality(RootsOf(outcome, more)) >= k
  <1>1. PICK p, few, roots : /\ p = [w \in Wallet |-> ResolveAs(outcome, w).root]
                             /\ few = {p[w] : w \in wallets} /\ roots = {p[w] : w \in more}
    OBVIOUS
  <1>2. IsFiniteSet(more)
    BY SwapStoreAssumption, FS_Subset
  <1>3. IsFiniteSet(roots) /\ few \in SUBSET roots
    BY <1>1, <1>2, ImageIsFinite
  <1>4. /\ Cardinality(few) <= Cardinality(roots) /\ Cardinality(few) \in Nat
        /\ Cardinality(roots) \in Nat
    <2>1. IsFiniteSet(few) /\ Cardinality(few) <= Cardinality(roots)
      BY <1>3, FS_Subset
    <2> QED
      BY <1>3, <2>1, FS_CardinalityType
  <1>5. RootsOf(outcome, more) = roots
    BY <1>1 DEF RootsOf
  <1>6. PICK resolve : resolve = [w \in Wallet |-> ResolveAs(outcome, w)]
    OBVIOUS
  <1>7. {resolve[w].root : w \in wallets} = few
    BY <1>1, <1>6
  <1>8. Cluster(wallets, resolve).eff = Cardinality(few)
    BY <1>7 DEF Cluster
  <1>9. k <= Cardinality(few)
    BY <1>6, <1>8
  <1> QED
    BY <1>4, <1>5, <1>9

\* The history of a row, by the terms the property is stated in.
LEMMA HistoryOfRow ==
    ASSUME NEW r, r.seen \in Seq(AnySwap)
    PROVE  LET h == r.seen
               all == DOMAIN h
           IN  /\ BuysAmong(r, all) = BuysOf(h) /\ all \ BuysAmong(r, all) = SellsOf(h)
               /\ Flow(r) = TotalSol(h, BuysOf(h)) + TotalSol(h, SellsOf(h))
               /\ \A window :
                    LET traded == SeenIn(r, window)
                    IN  /\ BuysAmong(r, traded) = BuysOf(h) \cap Within(h, window, r.asOf)
                        /\ BuyersIn(r, window) = WalletsAt(h, BuysAmong(r, traded))
                        /\ BuyersIn(r, window) \subseteq Wallet
                        /\ SolIn(r, traded) = TotalSol(h, BuysAmong(r, traded))
                             + TotalSol(h, SellsOf(h) \cap Within(h, window, r.asOf))
  <1>1. PICK h, at : h = r.seen /\ at = r.asOf
    OBVIOUS
  <1>2. h \in Seq(AnySwap)
    BY <1>1
  <1>3. BuysAmong(r, DOMAIN h) = BuysOf(h) /\ DOMAIN h \ BuysAmong(r, DOMAIN h) = SellsOf(h)
    BY <1>1 DEF BuysAmong, BuysOf, SellsOf
  <1>4. Flow(r) = TotalSol(h, BuysOf(h)) + TotalSol(h, SellsOf(h))
    <2>1. DOMAIN h \in SUBSET DOMAIN h
      OBVIOUS
    <2>2. TotalSol(h, DOMAIN h) = TotalSol(h, BuysOf(h) \cap DOMAIN h) + TotalSol(h, SellsOf(h) \cap DOMAIN h)
      BY <1>2, <2>1, BothSides
    <2>3. BuysOf(h) \cap DOMAIN h = BuysOf(h) /\ SellsOf(h) \cap DOMAIN h = SellsOf(h)
      BY DEF BuysOf, SellsOf
    <2> QED
      BY <1>1, <2>2, <2>3 DEF Flow, SolIn
  <1>5. ASSUME NEW window
        PROVE  LET traded == SeenIn(r, window)
               IN  /\ BuysAmong(r, traded) = BuysOf(h) \cap Within(h, window, at)
                   /\ BuyersIn(r, window) = WalletsAt(h, BuysAmong(r, traded))
                   /\ BuyersIn(r, window) \subseteq Wallet
                   /\ SolIn(r, traded) = TotalSol(h, BuysAmong(r, traded))
                        + TotalSol(h, SellsOf(h) \cap Within(h, window, at))
    <2>1. PICK traded : traded = Within(h, window, at)
      OBVIOUS
    <2>2. traded = SeenIn(r, window) /\ traded \in SUBSET DOMAIN h
      BY <1>1, <2>1, WithinIsPart DEF SeenIn
    <2>3. BuysAmong(r, traded) = BuysOf(h) \cap traded
      BY <1>1, <2>2 DEF BuysAmong, BuysOf
    <2>4. BuyersIn(r, window) = WalletsAt(h, BuysAmong(r, traded))
      BY <1>1, <2>2 DEF BuyersIn
    <2>5. BuysOf(h) \cap traded \in SUBSET DOMAIN h
      BY <2>2
    <2>6. WalletsAt(h, BuysOf(h) \cap traded) \subseteq Wallet
      BY <1>2, <2>5, SomeSwaps
    <2>7. TotalSol(h, traded) = TotalSol(h, BuysOf(h) \cap traded) + TotalSol(h, SellsOf(h) \cap traded)
      BY <1>2, <2>2, BothSides
    <2>8. SolIn(r, traded) = TotalSol(h, traded)
      BY <1>1 DEF SolIn
    <2> QED
      BY <2>1, <2>2, <2>3, <2>4, <2>6, <2>7, <2>8
  <1> QED
    BY <1>1, <1>3, <1>4, <1>5

\* A BUY the checks found is what the history tells.
LEMMA BUYIsSupported ==
    ASSUME NEW r, NEW s, Collected(s, r.asOf, r.seen), CheckBUY(s, MeasuredOf(s, r.funding))
    PROVE  SupportsBUY(r)
  <1>1. PICK h, at, d, funding : /\ h = r.seen /\ at = r.asOf /\ funding = r.funding
                                 /\ d = MeasuredOf(s, funding)
    OBVIOUS
  <1>2. h \in Seq(AnySwap) /\ SnapshotTypes(s)
    BY <1>1, CollectedTypes DEF Collected
  <1>3. PICK bought, sold, traded, all :
          /\ bought = BuysOf(h) \cap Within(h, Minute, at)
          /\ sold = SellsOf(h) \cap Within(h, Minute, at)
          /\ traded = SeenIn(r, Minute) /\ all = DOMAIN h
    OBVIOUS
  <1>4. /\ s.totalBuy = TotalSol(h, BuysOf(h)) /\ s.totalSell = TotalSol(h, SellsOf(h))
        /\ s.wallets1m \subseteq WalletsAt(h, bought)
        /\ s.buy1m <= TotalSol(h, bought)
        /\ Cardinality(SellsOf(h)) <= SellCap => s.sell1m = TotalSol(h, sold)
    <2>1. Collected(s, at, h)
      BY <1>1
    <2>2. /\ s.totalBuy = TotalSol(h, BuysOf(h)) /\ s.totalSell = TotalSol(h, SellsOf(h))
          /\ s.wallets1m \subseteq WalletsAt(h, BuysOf(h) \cap Within(h, Minute, at))
          /\ s.buy1m <= TotalSol(h, BuysOf(h) \cap Within(h, Minute, at))
          /\ Cardinality(SellsOf(h)) <= SellCap =>
               s.sell1m = TotalSol(h, SellsOf(h) \cap Within(h, Minute, at))
      BY <2>1, CollectedHistory
    <2> QED
      BY <1>3, <2>2
  <1>5. /\ BuysAmong(r, all) = BuysOf(h) /\ all \ BuysAmong(r, all) = SellsOf(h)
        /\ Flow(r) = TotalSol(h, BuysOf(h)) + TotalSol(h, SellsOf(h))
        /\ BuysAmong(r, traded) = bought /\ BuyersIn(r, Minute) = WalletsAt(h, bought)
        /\ BuyersIn(r, Minute) \subseteq Wallet
        /\ SolIn(r, traded) = TotalSol(h, bought) + TotalSol(h, sold)
    BY <1>1, <1>2, <1>3, HistoryOfRow
  <1>6. PICK b, c, x, y : /\ b = TotalSol(h, BuysOf(h)) /\ c = TotalSol(h, SellsOf(h))
                          /\ x = TotalSol(h, bought) /\ y = TotalSol(h, sold)
    OBVIOUS
  <1>7. b \in Nat /\ c \in Nat /\ x \in Nat /\ y \in Nat
    <2>1. /\ BuysOf(h) \in SUBSET DOMAIN h /\ SellsOf(h) \in SUBSET DOMAIN h
          /\ bought \in SUBSET DOMAIN h /\ sold \in SUBSET DOMAIN h
      BY <1>3 DEF BuysOf, SellsOf
    <2> QED
      BY <1>2, <1>6, <2>1, SomeSwaps
  <1>8. /\ 3 <= d.eff1m /\ s.totalBuy > s.totalSell
        /\ s.buy1m + s.sell1m = 0 \/ s.sell1m < s.buy1m
    <2>1. LiveConfig.buyers1mBUY = 3
      BY DEF LiveConfig
    <2>2. d.eff1m >= 3 /\ s.totalBuy > s.totalSell
      BY <1>1, <2>1 DEF CheckBUY
    <2>3. s.buy1m + s.sell1m = 0 \/ s.sell1m < s.buy1m
      BY <1>1 DEF CheckBUY
    <2> QED
      BY <2>2, <2>3
  <1>9. Cardinality(RootsOf(r.funding.first, BuyersIn(r, Minute))) >= 3
    <2>1. PICK c1 : c1 = Cluster(s.wallets1m, [w \in Wallet |-> ResolveAs(funding.first, w)])
      OBVIOUS
    <2>2. d.eff1m = c1.eff
      BY <1>1, <2>1 DEF MeasuredOf, Measured, FirstRoots
    <2>3. 3 \in Nat /\ 3 <= c1.eff
      BY <1>8, <2>2
    <2>4. BuyersIn(r, Minute) \in SUBSET Wallet /\ s.wallets1m \subseteq BuyersIn(r, Minute)
      BY <1>4, <1>5
    <2> QED
      BY <1>1, <2>1, <2>3, <2>4, RootsAreEnough
  <1>10. 2 * SolIn(r, BuysAmong(r, all)) > Flow(r)
    <2>1. SolIn(r, BuysAmong(r, all)) = b /\ Flow(r) = b + c /\ b > c
      BY <1>1, <1>4, <1>5, <1>6, <1>8 DEF SolIn
    <2> QED
      BY <1>7, <2>1
  <1>11. ASSUME Cardinality(SellsOf(h)) <= SellCap, SolIn(r, traded) > 0
         PROVE  2 * SolIn(r, BuysAmong(r, traded)) > SolIn(r, traded)
    <2>1. SolIn(r, BuysAmong(r, traded)) = x /\ SolIn(r, traded) = x + y
      BY <1>1, <1>5, <1>6 DEF SolIn
    <2>2. PICK u, v : u = s.buy1m /\ v = s.sell1m
      OBVIOUS
    <2>3. /\ u \in Nat /\ u <= x /\ v = y
          /\ u + v = 0 \/ v < u
      BY <1>2, <1>4, <1>6, <1>8, <1>11, <2>2 DEF SnapshotTypes
    <2>4. x + y > 0
      BY <1>11, <2>1
    <2>5. 2 * x > x + y
      BY <1>7, <2>3, <2>4
    <2> QED
      BY <2>1, <2>5
  <1> QED
    BY <1>1, <1>3, <1>5, <1>9, <1>10, <1>11 DEF SupportsBUY

\* And so is a READY.
LEMMA READYIsSupported ==
    ASSUME NEW r, NEW s, Collected(s, r.asOf, r.seen), CheckREADY(s, MeasuredOf(s, r.funding))
    PROVE  SupportsREADY(r)
  <1>1. PICK h, at, d, funding : /\ h = r.seen /\ at = r.asOf /\ funding = r.funding
                                 /\ d = MeasuredOf(s, funding)
    OBVIOUS
  <1>2. h \in Seq(AnySwap)
    BY <1>1 DEF Collected
  <1>3. PICK bought, buyers, window :
          /\ window = 5 * Minute
          /\ bought = BuysOf(h) \cap Within(h, window, at) /\ buyers = BuyersIn(r, window)
    OBVIOUS
  <1>4. s.wallets5m \subseteq WalletsAt(h, bought)
    BY <1>1, <1>3, CollectedHistory
  <1>5. buyers = WalletsAt(h, bought) /\ buyers \in SUBSET Wallet
    <2>1. /\ BuysAmong(r, SeenIn(r, window)) = bought
          /\ BuyersIn(r, window) = WalletsAt(h, BuysAmong(r, SeenIn(r, window)))
          /\ BuyersIn(r, window) \subseteq Wallet
      BY <1>1, <1>2, <1>3, HistoryOfRow
    <2> QED
      BY <1>3, <2>1
  <1>6. PICK c5 : c5 = Cluster(s.wallets5m, [w \in Wallet |-> ResolveAs(funding.second, w)])
    OBVIOUS
  <1>7. 5 \in Nat /\ 5 <= c5.eff
    <2>1. d.eff5m = c5.eff
      BY <1>1, <1>6 DEF MeasuredOf, Measured, SecondRoots
    <2>2. LiveConfig.buyers5mREADY = 5
      BY DEF LiveConfig
    <2>3. d.eff5m >= 5
      BY <1>1, <2>2 DEF CheckREADY
    <2> QED
      BY <2>1, <2>3
  <1>8. Cardinality(RootsOf(funding.second, buyers)) >= 5
    BY <1>4, <1>5, <1>6, <1>7, RootsAreEnough
  <1> QED
    BY <1>1, <1>3, <1>8 DEF SupportsREADY

\* Nothing is called actionable that its token's history does not carry, nor its
\* pool or the flow in its place: 25 SOL for at most 5%, and of a pool read as empty,
\* which the gates skip, the flow that carries 1 SOL for at most 15%.
THEOREM AnswersAreSupported == PipelineSpec => []ActionableIsSupported
  <1>1. PipelineInv => ActionableIsSupported
    <2> SUFFICES ASSUME PipelineInv, NEW i \in DOMAIN rows, rows[i].actionable
                 PROVE  LET r == rows[i]
                        IN  /\ r.funding.healthy
                            /\ SupportsBUY(r) \/ (r.label = "READY" /\ SupportsREADY(r))
                            /\ IF r.depth # 0 THEN SaleFitsIn(r, 25 * SOL, 5)
                                              ELSE SaleFitsIn(r, SOL, 15)
      BY DEF ActionableIsSupported
    <2>1. PICK r, s : r = rows[i] /\ Collected(s, r.asOf, r.seen) /\ DecidedFrom(r, s)
      BY RowIsDecided
    <2>2. PICK d, funding : funding = r.funding /\ d = MeasuredOf(s, funding)
      OBVIOUS
    <2>3. r.label = Label(s, d, funding.healthy) /\ r.label \in {"BUY", "READY"}
      <3>1. r.label \in {"BUY", "READY"}
        BY <2>1 DEF DecidedFrom, IsActionable
      <3> QED
        BY <2>1, <2>2, <3>1 DEF DecidedFrom
    <2>4. /\ funding.healthy /\ ~(d.exec < LiveConfig.execAVOID)
          /\ ~(d.impact > LiveConfig.maxImpact)
          /\ d.engine.layer0 = "none" /\ d.engine.maxLabel # "AVOID"
          /\ CheckBUY(s, d) \/ (r.label = "READY" /\ CheckREADY(s, d))
      BY <2>3, LabelledIsChecked
    <2>5. SupportsBUY(r) \/ (r.label = "READY" /\ SupportsREADY(r))
      BY <2>1, <2>2, <2>4, BUYIsSupported, READYIsSupported
    <2>6. /\ s.depth \in Int /\ s.reliable = (s.depth >= 0) /\ s.pool \in Nat
          /\ s.totalBuy \in Nat /\ s.totalSell \in Nat
          /\ s.pool = (IF s.depth >= 0 THEN s.depth ELSE s.totalBuy + s.totalSell)
      BY <2>1, CollectedPool
    <2>7. r.depth = s.depth
      BY <2>1 DEF DecidedFrom, SnapshotFields
    <2>8. Flow(r) = s.totalBuy + s.totalSell
      <3>1. PICK h, at : h = r.seen /\ at = r.asOf
        OBVIOUS
      <3>2. Collected(s, at, h) /\ h \in Seq(AnySwap)
        BY <2>1, <3>1 DEF Collected
      <3>3. s.totalBuy = TotalSol(h, BuysOf(h)) /\ s.totalSell = TotalSol(h, SellsOf(h))
        BY <3>2, CollectedHistory
      <3>4. Flow(r) = TotalSol(h, BuysOf(h)) + TotalSol(h, SellsOf(h))
        BY <3>1, <3>2, HistoryOfRow
      <3> QED
        BY <3>3, <3>4
    <2>9. ASSUME r.depth # 0 PROVE 50000 <= IF r.depth > 0 THEN r.depth ELSE Flow(r)
      <3>1. PICK p, k, f : p = s.pool /\ k = s.depth /\ f = s.totalBuy + s.totalSell
        OBVIOUS
      <3>2. /\ p \in Nat /\ k \in Int /\ f \in Nat /\ k # 0
            /\ p = (IF k >= 0 THEN k ELSE f)
        BY <2>6, <2>7, <2>9, <3>1
      <3>3. p # 0
        <4> SUFFICES ASSUME p = 0 PROVE FALSE
          OBVIOUS
        <4>1. f = 0
          BY <3>2
        <4>2. LiquidityProxy(s).sol = 0
          <5>1. ~(s.reliable /\ s.pool > 0)
            BY <3>1
          <5> QED
            BY <3>1, <4>1, <5>1 DEF LiquidityProxy
        <4>3. d.exec = ExecutionPenalty(0)
          BY <2>2, <4>2 DEF MeasuredOf, Measured
        <4>4. LiveConfig.multiplier * LiveConfig.trade = 2000 /\ LiveConfig.execAVOID = 200
          BY DEF LiveConfig, SOL
        <4>5. d.exec = 0
          BY <4>3, <4>4 DEF ExecutionPenalty, Least
        <4> QED
          BY <2>4, <4>4, <4>5
      <3>4. s.pool \in Nat \ {0}
        BY <3>1, <3>2, <3>3
      <3>5. PICK ratio : ratio = d.clusterRatio /\ d.engine = EvaluateGates(s, ratio)
        BY <2>2 DEF MeasuredOf, Measured
      <3>6. 50000 <= p
        BY <2>4, <3>1, <3>4, <3>5, SaleFits
      <3>7. 50000 <= IF k > 0 THEN k ELSE f
        BY <3>2, <3>6
      <3> QED
        BY <2>7, <2>8, <3>1, <3>7
    <2>10. ASSUME r.depth = 0 PROVE 100 * SOL <= 15 * Flow(r)
      <3>1. PICK f, bp : f = s.totalBuy + s.totalSell /\ bp = Bp(100, f)
        OBVIOUS
      <3>2. f \in Nat
        BY <2>6, <3>1
      <3>3. LiquidityProxy(s).sol = f
        <4>1. ~(s.reliable /\ s.pool > 0)
          BY <2>6, <2>7, <2>10
        <4> QED
          BY <3>1, <4>1 DEF LiquidityProxy
      <3>4. /\ LiveConfig.trade = 100 /\ LiveConfig.multiplier * LiveConfig.trade = 2000
            /\ LiveConfig.execAVOID = 200 /\ LiveConfig.maxImpact = 1500
        BY DEF LiveConfig, SOL, Percent
      <3>5. f >= 200
        <4>1. d.exec = ExecutionPenalty(f)
          BY <2>2, <3>3 DEF MeasuredOf, Measured
        <4> QED
          BY <2>4, <3>2, <3>4, <4>1 DEF ExecutionPenalty, Least
      <3>6. bp <= 1500
        <4>1. d.impact = EstimatedImpact(f)
          BY <2>2, <3>3 DEF MeasuredOf, Measured
        <4>2. EstimatedImpact(f) = Least(10000, bp)
          BY <3>1, <3>2, <3>4, <3>5 DEF EstimatedImpact
        <4>3. bp \in Int
          BY <3>1, <3>2, BpIsInt
        <4> QED
          BY <2>4, <3>4, <4>1, <4>2, <4>3 DEF Least
      <3>7. 10000 <= 15 * f
        <4>1. bp = 1000000 \div f
          BY <3>1, <3>2, <3>5 DEF Bp
        <4>2. bp \in Int /\ 1000000 < f * bp + f
          BY <3>2, <3>5, <4>1
        <4>3. f * bp <= f * 1500
          BY <3>2, <3>6, <4>2
        <4> QED
          BY <3>2, <4>2, <4>3
      <3> QED
        BY <2>8, <3>1, <3>7 DEF SOL
    <2>11. IF r.depth # 0 THEN SaleFitsIn(r, 25 * SOL, 5) ELSE SaleFitsIn(r, SOL, 15)
      <3>1. PICK k, f : k = r.depth /\ f = Flow(r) /\ k \in Int /\ f \in Nat
        BY <2>6, <2>7, <2>8
      <3>2. SOL = 100
        BY DEF SOL
      <3>3. CASE k # 0
        BY <2>9, <3>1, <3>2, <3>3 DEF SaleFitsIn
      <3>4. CASE k = 0
        BY <2>10, <3>1, <3>2, <3>4 DEF SaleFitsIn
      <3> QED
        BY <3>1, <3>3, <3>4
    <2> QED
      BY <2>1, <2>2, <2>4, <2>5, <2>11
  <1> QED
    BY <1>1, AnswersAreOfTheirTokens, PTL

-----------------------------------------------------------------------------
(* The types of an answer.                                                 *)

\* The gates allow a label.
LEMMA MaxLabelIsALabel ==
    ASSUME NEW s, NEW ratio
    PROVE  EvaluateGates(s, ratio).maxLabel \in DOMAIN LabelRank
  <1>1. PICK g : g = GatesOf(s, ratio)
    OBVIOUS
  <1>2. DOMAIN g = 1 .. 7 /\ g[3] # "skipped"
    BY <1>1 DEF GatesOf, BundleFunder, Gate
  <1>3. PICK k, few : /\ few = ByFailures(g) /\ k = Cardinality({i \in 1 .. 7 : g[i] = "failed"})
                      /\ few = IF k = 0 THEN "BUY" ELSE IF k = 1 THEN "READY"
                               ELSE IF k = 2 THEN "WATCH" ELSE "AVOID"
    BY <1>2, FailuresRank
  <1>4. few \in DOMAIN LabelRank
    BY <1>3, LabelRanks
  <1>5. MaxLabel(s, g) \in DOMAIN LabelRank
    <2>1. MaxLabel(s, g) =
            IF \/ g[7] = "failed" \/ (g[1] = "failed" /\ BelowAvoidFloor(s)) \/ g[6] = "failed"
            THEN "AVOID"
            ELSE IF g[4] = "failed" /\ few \in {"BUY", "READY"} THEN "WATCH" ELSE few
      BY <1>3, MaxLabelCases
    <2>2. MaxLabel(s, g) \in {"AVOID", "WATCH", few}
      BY <2>1
    <2> QED
      BY <1>4, <2>2, LabelRanks
  <1>6. PICK e : e = EvaluateGates(s, ratio)
    OBVIOUS
  <1>7. CASE Layer0(s, ratio) # "none"
    <2>1. e.maxLabel = "AVOID"
      BY <1>6, <1>7 DEF EvaluateGates
    <2> QED
      BY <1>6, <2>1, LabelRanks
  <1>8. CASE ~(Layer0(s, ratio) # "none")
    <2>1. e = Passing(s, g)
      BY <1>1, <1>6, <1>8 DEF EvaluateGates
    <2>2. e.maxLabel = MaxLabel(s, g)
      BY <2>1 DEF Passing
    <2> QED
      BY <1>5, <1>6, <2>2
  <1> QED
    BY <1>7, <1>8

\* A decision is one of the labels, and in one of the states.
LEMMA LabelIsALabel ==
    ASSUME NEW s, NEW funding, NEW silence
    PROVE  /\ Label(s, MeasuredOf(s, funding), funding.healthy) \in DOMAIN LabelRank
           /\ SignalState(s, MeasuredOf(s, funding), silence) \in DOMAIN SignalFreshnessRank
  <1>1. PICK d, max : d = MeasuredOf(s, funding) /\ max = d.engine.maxLabel
    OBVIOUS
  <1>2. max \in DOMAIN LabelRank
    <2>1. PICK liq, c1, c5 : /\ liq = LiquidityProxy(s)
                             /\ c1 = Cluster(s.wallets1m, FirstRoots(funding))
                             /\ c5 = Cluster(s.wallets5m, SecondRoots(funding))
      OBVIOUS
    <2>2. d = Measured(s, funding.healthy, liq, c1, c5)
      BY <1>1, <2>1 DEF MeasuredOf
    <2>3. d.engine = EvaluateGates(s, c1.ratio)
      BY <2>2 DEF Measured
    <2> QED
      BY <1>1, <2>3, MaxLabelIsALabel
  <1> DEFINE low == \/ d.exec < LiveConfig.execAVOID \/ d.impact > LiveConfig.maxImpact
             w == CheckWATCH(s)
             b == CheckBUY(s, d)
             y == CheckREADY(s, d)
             rejected == d.engine.layer0 # "none"
  <1>3. PICK watched : watched = IF w THEN "WATCH" ELSE "AVOID"
    OBVIOUS
  <1>4. PICK checked : checked = IF b THEN "BUY" ELSE IF y THEN "READY" ELSE watched
    OBVIOUS
  <1>5. Label(s, d, funding.healthy) =
          IF low THEN "AVOID" ELSE IF ~funding.healthy THEN watched
          ELSE IF rejected THEN "AVOID" ELSE ApplyLabelCeiling(checked, max)
    BY <1>1, <1>3, <1>4, LabelCases
  <1> HIDE DEF low, w, b, y, rejected
  <1>6. watched \in DOMAIN LabelRank /\ checked \in DOMAIN LabelRank /\ "AVOID" \in DOMAIN LabelRank
    BY <1>3, <1>4, LabelRanks
  <1>7. ApplyLabelCeiling(checked, max) \in {checked, max}
    BY DEF ApplyLabelCeiling
  <1>8. Label(s, d, funding.healthy) \in {"AVOID", watched, checked, max}
    BY <1>5, <1>7
  <1>9. Label(s, d, funding.healthy) \in DOMAIN LabelRank
    BY <1>2, <1>6, <1>8
  <1>10. SignalState(s, d, silence) \in DOMAIN SignalFreshnessRank
    <2> DEFINE a1 == TerminalLifecycleReject(d)
               a2 == s.age < 5 * Minute
               a3 == silence <= LiveConfig.freshFor
               a4 == silence <= LiveConfig.coolingFor
    <2>1. SignalState(s, d, silence) =
            FirstMatch(<< <<a1, "expired">>, <<a2, "forming">>, <<a3, "active">>,
                          <<a4, "cooling">> >>, "expired")
      BY DEF SignalState
    <2> HIDE DEF a1, a2, a3, a4
    <2>2. SignalState(s, d, silence) =
            IF a1 THEN "expired" ELSE IF a2 THEN "forming" ELSE IF a3 THEN "active"
            ELSE IF a4 THEN "cooling" ELSE "expired"
      BY <2>1, FirstOfFour
    <2>3. DOMAIN SignalFreshnessRank = {"forming", "active", "cooling", "expired"}
      BY DEF SignalFreshnessRank
    <2> QED
      BY <2>2, <2>3
  <1> QED
    BY <1>1, <1>9, <1>10

\* The rows of an answer keep the verdicts they were scored with.
LEMMA RowIsJudged ==
    ASSUME PipelineInv, NEW i \in DOMAIN rows
    PROVE  Judgement(rows[i])
  <1>1. rows # <<>>
    OBVIOUS
  <1>2. PICK done : /\ ScoredRows(done) /\ DOMAIN rows = DOMAIN done
                    /\ \A k \in DOMAIN rows : rows[k] = Ranked(done[k], BestOf(done))
    BY <1>1, RowIsRanked
  <1>3. PICK r, u, best : r = done[i] /\ u = rows[i] /\ best = BestOf(done)
    OBVIOUS
  <1>4. Scored(r) /\ u = Ranked(r, best)
    BY <1>2, <1>3 DEF ScoredRows
  <1>5. \A x \in RowFields : u[x] = r[x]
    BY <1>4, RankedIsDecided
  <1>6. u.proxy = r.proxy /\ u.detect = r.detect /\ u.auth = r.auth /\ u.setup = r.setup
    BY <1>5 DEF RowFields
  <1>7. /\ u.clustering = r.clustering /\ u.depth = r.depth /\ u.eff5m = r.eff5m
        /\ u.launchSource = r.launchSource /\ u.pool = r.pool /\ u.liq = r.liq
        /\ u.age = r.age /\ u.holders = r.holders /\ u.top10 = r.top10
    BY <1>5 DEF RowFields, DecisionFields, SnapshotFields, MeasuredFields
  <1>8. Judgement(r)
    BY <1>4 DEF Scored
  <1>9. VerdictTypes(u)
    BY <1>6, <1>8 DEF Judgement, VerdictTypes
  <1>10. u.proxy.band = "RUNNER" => RunnerSays(u)
    <2>1. LiquidityForScoring(u) = LiquidityForScoring(r)
      BY <1>7 DEF LiquidityForScoring
    <2> QED
      BY <1>6, <1>7, <1>8, <2>1 DEF Judgement, RunnerSays
  <1>11. IsWOW(u.setup.mode) => WowSays(u)
    BY <1>6, <1>7, <1>8 DEF Judgement, WowSays
  <1> QED
    BY <1>3, <1>9, <1>10, <1>11 DEF Judgement

\* An answer's verdicts are of their kinds, its scores on their scales and its
\* shares are shares, whatever was sold short, resolved or forgotten meanwhile.
THEOREM AnswersAreTyped == PipelineSpec => []PipelineTypeOK
  <1>1. PipelineInv => PipelineTypeOK
    <2> SUFFICES ASSUME PipelineInv PROVE PipelineTypeOK
      OBVIOUS
    <2>1. /\ events \in 0 .. MaxEvents
          /\ build # Idle => build.at <= now /\ Len(build.done) <= build.query.limit
      BY DEF PipelineInv, BuildInv
    <2>2. ASSUME NEW i \in DOMAIN rows PROVE RowTypeOK(rows[i])
      <3>1. PICK r, s : r = rows[i] /\ Collected(s, r.asOf, r.seen) /\ DecidedFrom(r, s)
        BY RowIsDecided
      <3>2. PICK d, silence : d = MeasuredOf(s, r.funding) /\ silence = Most(r.asOf - s.last, 0)
        OBVIOUS
      <3>3. /\ r.label = Label(s, d, r.funding.healthy) /\ r.state = SignalState(s, d, silence)
            /\ \A x \in SnapshotFields : r[x] = s[x]
            /\ \A x \in MeasuredFields : r[x] = d[x]
        BY <3>1, <3>2 DEF DecidedFrom
      <3>4. r.label \in DOMAIN LabelRank /\ r.state \in DOMAIN SignalFreshnessRank
        BY <3>2, <3>3, LabelIsALabel
      <3>5. IsShare(r.confidence) /\ SnapshotTypes(s) /\ MeasuredTypes(d)
        BY <3>1, <3>2, ConfidenceOfDecided
      <3>6. IsShare(r.top10) /\ IsShare(r.topShare) /\ IsShare(r.diversity)
        BY <3>3, <3>5 DEF SnapshotTypes, SnapshotFields
      <3>7. /\ IsShare(r.adversarial) /\ IsShare(r.impact) /\ IsShare(r.clusterRatio)
            /\ r.clustering \in {"resolved", "partial_fallback", "full_fallback"}
            /\ r.eff1m <= r.buyers1m /\ r.eff5m <= r.buyers5m
        BY <3>3, <3>5 DEF MeasuredTypes, MeasuredFields
      <3>8. {r.confidence, r.adversarial, r.impact, r.top10, r.topShare, r.diversity,
             r.clusterRatio} \subseteq 0 .. 100 * Percent
        <4>1. PICK S, top : top = 100 * Percent /\ S = 0 .. top
          OBVIOUS
        <4>2. \A k : IsShare(k) => k \in S
          <5>1. top \in Nat /\ 10000 <= top
            BY <4>1 DEF Percent
          <5>2. \A k : IsShare(k) => k \in Nat /\ k <= top
            BY <5>1 DEF IsShare
          <5> QED
            BY <4>1, <5>1, <5>2
        <4>3. /\ r.confidence \in S /\ r.adversarial \in S /\ r.impact \in S /\ r.top10 \in S
              /\ r.topShare \in S /\ r.diversity \in S /\ r.clusterRatio \in S
          BY <3>5, <3>6, <3>7, <4>2
        <4>4. {r.confidence, r.adversarial, r.impact, r.top10, r.topShare, r.diversity,
               r.clusterRatio} \subseteq S
          BY <4>3
        <4> QED
          BY <4>1, <4>4
      <3>9. VerdictTypes(r)
        BY <3>1, RowIsJudged DEF Judgement
      <3>10. /\ r.proxy.band \in DOMAIN BandRank /\ r.proxy.score \in 0 .. 100 * Point
             /\ r.detect.score \in 0 .. 100 /\ r.auth.mechanicality \in 0 .. 100
        <4>1. \A k : k \in Nat /\ k <= 400 => k \in 0 .. 100 * Point
          BY DEF Point
        <4>2. \A k : k \in Nat /\ k <= 100 => k \in 0 .. 100
          OBVIOUS
        <4>3. DOMAIN BandRank = {"RUNNER", "WATCH", "REJECT", "DEAD"}
          BY DEF BandRank
        <4> QED
          BY <3>9, <4>1, <4>2, <4>3 DEF VerdictTypes
      <3>11. r.clustering \in DOMAIN ClusteringPriorityRank
        BY <3>7 DEF ClusteringPriorityRank
      <3>12. RowTypeOK(r)
        BY <3>4, <3>7, <3>8, <3>10, <3>11, Zenon DEF RowTypeOK
      <3> QED
        BY <3>1, <3>12
    <2> QED
      BY <2>1, <2>2 DEF PipelineTypeOK
  <1> QED
    BY <1>1, AnswersAreOfTheirTokens, PTL

-----------------------------------------------------------------------------
(* What stands behind the highest verdicts.                                *)

\* The clustering of a decision is that of the last minute's buyers.
LEMMA StatusOfDecided ==
    ASSUME NEW s, NEW funding, IsFiniteSet(s.wallets1m)
    PROVE  LET status == MeasuredOf(s, funding).clustering
               unresolved == {w \in s.wallets1m : ResolveAs(funding.first, w).failed}
           IN  /\ s.wallets1m \subseteq Wallet /\ status = "resolved" => unresolved = {}
               /\ s.wallets1m \subseteq Wallet /\ status # "full_fallback"
                    => s.wallets1m = {} \/ unresolved # s.wallets1m
  <1>1. PICK wallets, resolve, unresolved, c :
          /\ wallets = s.wallets1m /\ resolve = FirstRoots(funding)
          /\ c = Cluster(wallets, resolve)
          /\ unresolved = {w \in wallets : ResolveAs(funding.first, w).failed}
    OBVIOUS
  <1>2. PICK status : status = MeasuredOf(s, funding).clustering
    OBVIOUS
  <1>3. status = ClusteringRowStatus(c)
    BY <1>1, <1>2 DEF MeasuredOf, Measured
  <1> SUFFICES ASSUME wallets \subseteq Wallet
               PROVE  /\ status = "resolved" => unresolved = {}
                      /\ status # "full_fallback" => wallets = {} \/ unresolved # wallets
    BY <1>1, <1>2
  <1>4. {w \in wallets : resolve[w].failed} = unresolved
    BY <1>1 DEF FirstRoots
  <1>5. c.raw = Cardinality(wallets) /\ c.fallbacks = Cardinality(unresolved)
    BY <1>1, <1>4 DEF Cluster
  <1>6. PICK x, y : x = c.fallbacks /\ y = c.raw
    OBVIOUS
  <1>7. x \in Nat /\ y \in Nat /\ (x = 0 <=> unresolved = {}) /\ (y = 0 <=> wallets = {})
    <2>1. IsFiniteSet(wallets) /\ unresolved \in SUBSET wallets
      BY <1>1
    <2>2. IsFiniteSet(unresolved)
      BY <2>1, FS_Subset
    <2> QED
      BY <1>5, <1>6, <2>1, <2>2, FS_CardinalityType, FS_EmptySet
  <1> DEFINE a1 == x = 0
             a2 == x >= y
  <1>8. status = FirstMatch(<< <<a1, "resolved">>, <<a2, "full_fallback">> >>, "partial_fallback")
    BY <1>3, <1>6 DEF ClusteringRowStatus
  <1> HIDE DEF a1, a2
  <1>9. status = IF a1 THEN "resolved" ELSE IF a2 THEN "full_fallback" ELSE "partial_fallback"
    BY <1>8, FirstOfTwo
  <1>10. status = "resolved" => unresolved = {}
    BY <1>7, <1>9 DEF a1
  <1>11. ASSUME status # "full_fallback", unresolved = wallets PROVE wallets = {}
    <2>1. x = y
      BY <1>5, <1>6, <1>11
    <2> QED
      BY <1>7, <1>9, <1>11, <2>1 DEF a1, a2
  <1> QED
    BY <1>10, <1>11

\* How old a row's token is by its history is its age.
LEMMA AgeOfHistory ==
    ASSUME NEW s, NEW at, NEW h, Collected(s, at, h)
    PROVE  LET least == Min({h[k].at : k \in DOMAIN h})
           IN  /\ at \in Int /\ least \in Int /\ s.age \in Int
               /\ at - least <= s.age
  <1>1. PICK mint \in Mint, t \in TokenRecord :
          s = SnapshotOf(mint, t, at) /\ Made(t, h, at) /\ Spanned(t, h)
    BY DEF Collected
  <1>2. at \in Nat /\ h \in Seq(AnySwap) /\ t.first \in Nat
    BY DEF Collected, TokenRecord
  <1>3. PICK times : times = {h[k].at : k \in DOMAIN h}
    OBVIOUS
  <1>4. t.first \in times /\ \A x \in times : t.first <= x
    BY <1>1, <1>3 DEF Made, Counted, Spanned
  <1>5. times \in SUBSET Nat
    <2>1. \A k \in DOMAIN h : h[k] \in AnySwap
      BY <1>2
    <2> QED
      BY <1>3, <2>1 DEF AnySwap
  <1>6. PICK least : least = Min(times)
    OBVIOUS
  <1>7. least \in times /\ \A x \in times : least <= x
    BY <1>4, <1>6 DEF Min
  <1>8. least = t.first
    <2>1. least \in Nat /\ least <= t.first /\ t.first <= least
      BY <1>4, <1>5, <1>7
    <2> QED
      BY <1>2, <2>1
  <1>9. s.age = Most(at - t.first, 0)
    BY <1>1, SnapshotAt
  <1>10. at \in Int /\ least \in Int /\ s.age \in Int /\ at - least <= s.age
    BY <1>2, <1>8, <1>9 DEF Most
  <1> QED
    BY <1>3, <1>6, <1>10

\* The buyers of the last minute are those of the history, while all buys are kept.
LEMMA BuyersOfHistory ==
    ASSUME NEW r, NEW s, Collected(s, r.asOf, r.seen)
    PROVE  /\ s.wallets1m \subseteq Wallet /\ IsFiniteSet(s.wallets1m)
           /\ AllBuysKept(r) => s.wallets1m = BuyersIn(r, Minute)
           /\ BuyersIn(r, 5 * Minute) \in SUBSET Wallet
           /\ s.wallets5m \subseteq BuyersIn(r, 5 * Minute)
           /\ Flow(r) = s.totalBuy + s.totalSell
  <1>1. PICK h, at : h = r.seen /\ at = r.asOf
    OBVIOUS
  <1>2. Collected(s, at, h) /\ h \in Seq(AnySwap) /\ SnapshotTypes(s)
    BY <1>1, CollectedTypes DEF Collected
  <1>3. PICK long : long = 5 * Minute
    OBVIOUS
  <1>4. PICK first, second : /\ first = BuysOf(h) \cap Within(h, Minute, at)
                             /\ second = BuysOf(h) \cap Within(h, long, at)
    OBVIOUS
  <1>5. s.totalBuy = TotalSol(h, BuysOf(h)) /\ s.totalSell = TotalSol(h, SellsOf(h))
    BY <1>2, CollectedHistory
  <1>6. Cardinality(BuysOf(h)) <= BuyCap => s.wallets1m = WalletsAt(h, first)
    BY <1>2, <1>4, CollectedHistory
  <1>7. s.wallets5m \subseteq WalletsAt(h, second)
    BY <1>2, <1>3, <1>4, CollectedHistory
  <1>8. /\ BuysAmong(r, DOMAIN h) = BuysOf(h)
        /\ Flow(r) = TotalSol(h, BuysOf(h)) + TotalSol(h, SellsOf(h))
    BY <1>1, <1>2, HistoryOfRow
  <1>9. BuyersIn(r, Minute) = WalletsAt(h, first)
    <2>1. /\ BuysAmong(r, SeenIn(r, Minute)) = first
          /\ BuyersIn(r, Minute) = WalletsAt(h, BuysAmong(r, SeenIn(r, Minute)))
      BY <1>1, <1>2, <1>4, HistoryOfRow
    <2> QED
      BY <2>1
  <1>10. BuyersIn(r, long) = WalletsAt(h, second) /\ BuyersIn(r, long) \subseteq Wallet
    <2>1. /\ BuysAmong(r, SeenIn(r, long)) = second
          /\ BuyersIn(r, long) = WalletsAt(h, BuysAmong(r, SeenIn(r, long)))
          /\ BuyersIn(r, long) \subseteq Wallet
      BY <1>1, <1>2, <1>4, HistoryOfRow
    <2> QED
      BY <2>1
  <1>11. s.wallets1m \subseteq Wallet /\ IsFiniteSet(s.wallets1m)
    BY <1>2, SwapStoreAssumption, FS_Subset DEF SnapshotTypes
  <1>12. AllBuysKept(r) => s.wallets1m = BuyersIn(r, Minute)
    BY <1>1, <1>6, <1>8, <1>9 DEF AllBuysKept
  <1> QED
    BY <1>3, <1>5, <1>7, <1>8, <1>10, <1>11, <1>12

\* What a RUNNER says of itself, its token's history says.
LEMMA RunnerIsEvidenced ==
    ASSUME NEW r, NEW s, Collected(s, r.asOf, r.seen), DecidedFrom(r, s), RunnerSays(r)
    PROVE  RunnerLiquidity(r) /\ RunnerLookups(r) /\ RunnerAge(r)
  <1>1. PICK h, at, d, funding : /\ h = r.seen /\ at = r.asOf /\ funding = r.funding
                                 /\ d = MeasuredOf(s, funding)
    OBVIOUS
  <1>2. Collected(s, at, h)
    BY <1>1
  <1>3. /\ r.depth = s.depth /\ r.launchSource = s.launchSource /\ r.pool = s.pool
        /\ r.age = s.age /\ r.mint = s.mint
        /\ r.eff5m = d.eff5m /\ r.liq = d.liq /\ r.clustering = d.clustering
    BY <1>1 DEF DecidedFrom, SnapshotFields, MeasuredFields
  <1>4. /\ s.depth \in Int /\ s.reliable = (s.depth >= 0)
        /\ s.totalBuy \in Nat /\ s.totalSell \in Nat
        /\ s.pool = (IF s.depth >= 0 THEN s.depth ELSE s.totalBuy + s.totalSell)
    BY <1>2, CollectedPool
  <1>5. /\ s.wallets1m \subseteq Wallet /\ IsFiniteSet(s.wallets1m)
        /\ AllBuysKept(r) => s.wallets1m = BuyersIn(r, Minute)
        /\ BuyersIn(r, 5 * Minute) \in SUBSET Wallet
        /\ s.wallets5m \subseteq BuyersIn(r, 5 * Minute)
        /\ Flow(r) = s.totalBuy + s.totalSell
    BY BuyersOfHistory
  <1>6. d.eff5m >= 5 => Cardinality(RootsOf(funding.second, BuyersIn(r, 5 * Minute))) >= 5
    <2> SUFFICES ASSUME d.eff5m >= 5
                 PROVE  Cardinality(RootsOf(funding.second, BuyersIn(r, 5 * Minute))) >= 5
      OBVIOUS
    <2>1. PICK buyers, c5 : /\ buyers = BuyersIn(r, 5 * Minute)
                            /\ c5 = Cluster(s.wallets5m, [w \in Wallet |-> ResolveAs(funding.second, w)])
      OBVIOUS
    <2>2. d.eff5m = c5.eff
      BY <1>1, <2>1 DEF MeasuredOf, Measured, SecondRoots
    <2>3. 5 \in Nat /\ 5 <= c5.eff
      BY <2>2
    <2> QED
      BY <1>5, <2>1, <2>3, RootsAreEnough
  <1>7. s.launchSource # "unknown" => s.mint \in PumpMint
    <2>1. PICK mint \in Mint, t \in TokenRecord : s = SnapshotOf(mint, t, at)
      BY <1>2 DEF Collected
    <2>2. s.mint = mint /\ s.launchSource = LaunchSource(mint, t)
      BY <2>1, SnapshotAt
    <2> QED
      BY <2>2 DEF LaunchSource
  <1>8. PICK k, f, p, l : /\ k = s.depth /\ f = s.totalBuy + s.totalSell /\ p = s.pool
                          /\ l = d.liq
    OBVIOUS
  <1>9. /\ k \in Int /\ f \in Nat /\ p = (IF k >= 0 THEN k ELSE f)
        /\ l = (IF k >= 0 /\ p > 0 THEN p ELSE f)
    <2>1. l = LiquidityProxy(s).sol
      BY <1>1, <1>8 DEF MeasuredOf, Measured
    <2>2. l = IF k >= 0 /\ p > 0 THEN p ELSE f
      BY <1>4, <1>8, <2>1 DEF LiquidityProxy
    <2> QED
      BY <1>4, <1>8, <2>2
  <1>10. \/ /\ k >= 500
            /\ \/ Cardinality(RootsOf(funding.second, BuyersIn(r, 5 * Minute))) >= 5
               \/ r.mint \in PumpMint
         \/ k <= 0 /\ r.mint \in PumpMint /\ f >= 500
    <2>1. 5 * SOL = 500
      BY DEF SOL
    <2>2. \/ k >= 500 /\ d.eff5m >= 5
          \/ /\ r.mint \in PumpMint
             /\ (IF k >= 0 THEN k ELSE l) >= 500 \/ p >= 500 \/ l >= 500
      BY <1>3, <1>7, <1>8, <2>1 DEF RunnerSays, LiquidityForScoring
    <2>3. (IF k >= 0 THEN k ELSE l) >= 500 \/ p >= 500 \/ l >= 500
             => k >= 500 \/ (k <= 0 /\ f >= 500)
      BY <1>9
    <2> QED
      BY <1>6, <2>2, <2>3
  <1>11. AllBuysKept(r) /\ BuyersIn(r, Minute) # {} => funding.first # "failed"
    <2> SUFFICES ASSUME AllBuysKept(r), BuyersIn(r, Minute) # {}, funding.first = "failed"
                 PROVE  FALSE
      OBVIOUS
    <2>1. PICK unresolved : unresolved = {w \in s.wallets1m : ResolveAs(funding.first, w).failed}
      OBVIOUS
    <2>2. d.clustering # "full_fallback"
      BY <1>3 DEF RunnerSays
    <2>3. s.wallets1m = {} \/ unresolved # s.wallets1m
      BY <1>1, <1>5, <2>1, <2>2, StatusOfDecided
    <2>4. \A w : ResolveAs("failed", w).failed
      BY DEF ResolveAs
    <2>5. unresolved = s.wallets1m
      BY <2>1, <2>4
    <2> QED
      BY <1>5, <2>3, <2>5
  <1>12. at - Min({h[i].at : i \in DOMAIN h}) > 30 * Minute => r.auth.subtype # "LAUNCH_RUNNER"
    <2>1. PICK least, age : least = Min({h[i].at : i \in DOMAIN h}) /\ age = s.age
      OBVIOUS
    <2>2. at \in Int /\ least \in Int /\ age \in Int /\ at - least <= age
      BY <1>2, <2>1, AgeOfHistory
    <2> QED
      BY <1>3, <2>1, <2>2 DEF RunnerSays, Minute
  <1> QED
    <2>1. RunnerLiquidity(r)
      BY <1>1, <1>3, <1>5, <1>8, <1>10 DEF RunnerLiquidity, SOL
    <2>2. RunnerLookups(r)
      BY <1>1, <1>11 DEF RunnerLookups
    <2>3. RunnerAge(r)
      BY <1>1, <1>12 DEF RunnerAge
    <2> QED
      BY <2>1, <2>2, <2>3


\* What a snapshot counts as held is what its token's history sums to.
LEMMA HoldersOfHistory ==
    ASSUME NEW r, NEW s, Collected(s, r.asOf, r.seen)
    PROVE  \E net \in [Wallet -> Int] :
               /\ net = [w \in Wallet |-> HeldBy(r, w)] /\ HoldersIn(net) = HoldersOf(r)
               /\ s.top10 = Top10HolderPct(net) /\ s.holders = Cardinality(HoldersIn(net))
  <1>1. PICK mint \in Mint, t \in TokenRecord :
          s = SnapshotOf(mint, t, r.asOf) /\ Made(t, r.seen, r.asOf)
    BY DEF Collected
  <1>2. PICK net \in [Wallet -> Int] : net = t.net
    BY DEF TokenRecord
  <1>3. \A w \in Wallet : net[w] = HeldBy(r, w)
    BY <1>1, <1>2 DEF Made, Summed, HeldBy
  <1>4. net = [w \in Wallet |-> HeldBy(r, w)]
    BY <1>3
  <1>5. HoldersIn(net) = HoldersOf(r)
    BY <1>3 DEF HoldersIn, HoldersOf
  <1>6. s.top10 = Top10HolderPct(net) /\ s.holders = CountHolders(net)
    BY <1>1, <1>2, SnapshotAt
  <1>7. CountHolders(net) = Cardinality(HoldersIn(net))
    BY DEF CountHolders, HoldersIn
  <1> QED
    BY <1>4, <1>5, <1>6, <1>7

\* What a WOW says of itself, its token's history says.
LEMMA WowIsEvidenced ==
    ASSUME NEW r, NEW s, Collected(s, r.asOf, r.seen), DecidedFrom(r, s), WowSays(r)
    PROVE  WowEvidence(r)
  <1>1. PICK d, funding : funding = r.funding /\ d = MeasuredOf(s, funding)
    OBVIOUS
  <1>2. r.holders = s.holders /\ r.top10 = s.top10 /\ r.clustering = d.clustering
    BY <1>1 DEF DecidedFrom, SnapshotFields, MeasuredFields
  <1>3. PICK net \in [Wallet -> Int] :
          /\ net = [w \in Wallet |-> HeldBy(r, w)] /\ HoldersIn(net) = HoldersOf(r)
          /\ s.top10 = Top10HolderPct(net) /\ s.holders = Cardinality(HoldersIn(net))
    BY HoldersOfHistory
  <1>4. /\ r.depth >= 5 * SOL /\ s.holders >= 10 /\ s.top10 < 85 * Percent
        /\ d.clustering # "full_fallback"
        /\ r.setup.mode = "LAUNCH_WOW" => d.clustering # "partial_fallback"
    BY <1>2 DEF WowSays
  <1>5. PICK holders : holders = HoldersOf(r)
    OBVIOUS
  <1>6. \A S \in kSubset(10, holders) :
          100 * SumFunctionOnSet(net, S) < 85 * SumFunctionOnSet(net, holders)
    <2> SUFFICES ASSUME NEW S \in kSubset(10, holders)
                 PROVE  100 * SumFunctionOnSet(net, S) < 85 * SumFunctionOnSet(net, holders)
      OBVIOUS
    <2>1. S \in SUBSET HoldersIn(net) /\ Cardinality(S) = 10 /\ holders = HoldersIn(net)
      BY <1>3, <1>5 DEF kSubset
    <2>2. Top10HolderPct(net) < 85 * Percent
      BY <1>3, <1>4
    <2> QED
      BY <2>1, <2>2, NoTenHoldMore
  <1>7. r.setup.mode = "LAUNCH_WOW" /\ AllBuysKept(r) =>
          \A w \in BuyersIn(r, Minute) : ~ResolveAs(funding.first, w).failed
    <2> SUFFICES ASSUME r.setup.mode = "LAUNCH_WOW", AllBuysKept(r), NEW w \in BuyersIn(r, Minute),
                        ResolveAs(funding.first, w).failed
                 PROVE  FALSE
      OBVIOUS
    <2>1. d.clustering \in {"resolved", "partial_fallback", "full_fallback"}
      BY <1>1, MeasuredAreTyped DEF MeasuredTypes
    <2>2. d.clustering = "resolved"
      BY <1>4, <2>1
    <2>3. /\ s.wallets1m \subseteq Wallet /\ IsFiniteSet(s.wallets1m)
          /\ s.wallets1m = BuyersIn(r, Minute)
      BY BuyersOfHistory
    <2>4. PICK unresolved : unresolved = {v \in s.wallets1m : ResolveAs(funding.first, v).failed}
      OBVIOUS
    <2>5. unresolved = {}
      BY <1>1, <2>2, <2>3, <2>4, StatusOfDecided
    <2> QED
      BY <2>3, <2>4, <2>5
  <1>8. Cardinality(holders) >= 10
    BY <1>3, <1>4, <1>5
  <1> QED
    BY <1>1, <1>3, <1>4, <1>5, <1>6, <1>7, <1>8 DEF WowEvidence

\* A RUNNER has verified depth behind it, or the flow of an inferred launch where the
\* depth is not known or the pool was read as empty; a lookup that worked if the last
\* minute had buyers and all buys are kept; and no launch older than half an hour.  A
\* WOW has ten holders, no ten of whom have 85% of what is held, and verified depth.
\* Whatever the store did while the row was built.
THEOREM HighVerdictsAreEvidenced == PipelineSpec => []HighVerdictIsEvidenced
  <1>1. PipelineInv => HighVerdictIsEvidenced
    <2> SUFFICES ASSUME PipelineInv, NEW i \in DOMAIN rows
                 PROVE  /\ rows[i].proxy.band = "RUNNER" =>
                             RunnerLiquidity(rows[i]) /\ RunnerLookups(rows[i]) /\ RunnerAge(rows[i])
                        /\ IsWOW(rows[i].setup.mode) => WowEvidence(rows[i])
      BY DEF HighVerdictIsEvidenced
    <2>1. PICK r, s : r = rows[i] /\ Collected(s, r.asOf, r.seen) /\ DecidedFrom(r, s)
      BY RowIsDecided
    <2>2. Judgement(r)
      BY <2>1, RowIsJudged
    <2>3. r.proxy.band = "RUNNER" => RunnerLiquidity(r) /\ RunnerLookups(r) /\ RunnerAge(r)
      BY <2>1, <2>2, RunnerIsEvidenced DEF Judgement
    <2>4. IsWOW(r.setup.mode) => WowEvidence(r)
      BY <2>1, <2>2, WowIsEvidenced DEF Judgement
    <2> QED
      BY <2>1, <2>3, <2>4
  <1> QED
    BY <1>1, AnswersAreOfTheirTokens, PTL
=============================================================================
