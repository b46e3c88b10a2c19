------------------------------ MODULE Outcomes ------------------------------
(***************************************************************************)
(* What became of a signal.  Every classified row of a token is recorded   *)
(* in signal_snapshots by a goroutine of its own (Recorder), once for each *)
(* set of blockers and bucket of 5 minutes; the outcome Worker looks, every*)
(* 30 seconds, for checkpoints of recorded signals that are due, prices    *)
(* them from the vault or from the persisted swaps (VaultPricer), and      *)
(* inserts one row of signal_outcomes each.  The tables survive the        *)
(* process, which may stop at any point.                                   *)
(*                                                                         *)
(* One token: mints do not interact.  Time is in ticks, amounts and prices *)
(* are integers; a price of 0 is a missing one.                            *)
(***************************************************************************)
EXTENDS Integers, FiniteSets, Sequences, Functions

CONSTANTS
    Decision,      \* classified rows: [mode, blockers, price], blockers a sequence
    Checkpoints,   \* 300, 900 and 1800 seconds, in ticks
    Lookback,      \* the 24 hours the worker looks back, in ticks
    BucketTicks,   \* the 5 minutes of a bucket
    Limit,         \* LIMIT of the worker's query
    Price, Depth,  \* what swaps and the vault may show
    MinTrade, MaxImpactPct, RugDepth,
    HasVault,      \* whether the pricer has a vault reader
    NoRow,
    MaxTime, MaxDecisions, MaxSwaps, MaxStops   \* bounds of the model

ASSUME OutcomesAssumption ==
    /\ Checkpoints \subseteq Nat \ {0} /\ IsFiniteSet(Checkpoints)
    /\ Lookback \in Nat /\ \A c \in Checkpoints : c < Lookback
    /\ BucketTicks \in Nat \ {0} /\ Limit \in Nat \ {0}
    /\ Price \subseteq Nat /\ Depth \subseteq Nat
    /\ MinTrade \in Nat /\ MaxImpactPct \in Nat /\ RugDepth \in Nat
    /\ HasVault \in BOOLEAN
    /\ MaxTime \in Nat /\ MaxDecisions \in Nat /\ MaxSwaps \in Nat /\ MaxStops \in Nat

VARIABLES
    now, up,
    classified,    \* how many rows have been classified
    pending,       \* goroutines of recordSignalSnapshot: [n, decision]
    signals,       \* signal_snapshots: key -> [at, decision] or NoRow
    swaps,         \* swap_events: [t, price]
    outcomes,      \* signal_outcomes: <<key, checkpoint>> -> row or NoRow
    batch,         \* the worker's rows still to measure
    current,       \* the row it has a price for, or NoRow
    stops

processVars == <<up, pending, batch, current, stops>>
vars == <<now, classified, signals, swaps, outcomes, processVars>>

-----------------------------------------------------------------------------
(* Recorder.                                                               *)

\* The bug of a signature in the order the blockers were found in.
SignatureInOrder(blockers) == blockers

\* BlockerSignature sorts.
Signature(blockers) == Range(blockers)

Bucket(t) == t \div BucketTicks

KeyOf(d, t) == <<d.mode, Signature(d.blockers), Bucket(t)>>

Key == {KeyOf(d, t) : d \in Decision, t \in 0 .. MaxTime}

Signals == {k \in Key : signals[k] # NoRow}

\* Each build of the rows starts one goroutine per row.
Classify(d) ==
    /\ up /\ classified < MaxDecisions
    /\ classified' = classified + 1
    /\ pending' = pending \cup {[n |-> classified, decision |-> d]}
    /\ UNCHANGED <<now, signals, swaps, outcomes, up, batch, current, stops>>

\* SignaledAt is the time of the insert, which does nothing if the bucket
\* already has a row of that signature.
Record(p) ==
    LET k == KeyOf(p.decision, now)
    IN  /\ up
        /\ pending' = pending \ {p}
        /\ signals' = IF signals[k] = NoRow
                      THEN [signals EXCEPT ![k] = [at |-> now, decision |-> p.decision]]
                      ELSE signals
        /\ UNCHANGED <<now, classified, swaps, outcomes, up, batch, current, stops>>

\* The database fails or takes longer than 2 seconds: logged, not retried.
RecordFails(p) ==
    /\ up
    /\ pending' = pending \ {p}
    /\ UNCHANGED <<now, classified, signals, swaps, outcomes, up, batch, current, stops>>

-----------------------------------------------------------------------------
(* Pricing.                                                                *)

\* A swap is persisted some time after its block time.
Persist(t, price) ==
    /\ up /\ t <= now /\ Cardinality(swaps) < MaxSwaps
    /\ swaps' = swaps \cup {[t |-> t, price |-> price]}
    /\ UNCHANGED <<now, classified, signals, outcomes, processVars>>

Priced == {s \in swaps : s.price > 0}

\* LastPriceBefore; of swaps of the same block time any may come first.
LastBefore(t) ==
    LET before == {s \in Priced : s.t <= t}
    IN  {s \in before : \A r \in before : r.t <= s.t}

InWindow(from, to) == {s \in Priced : from < s.t /\ s.t <= to}

\* MaxPriceBetween, 0 if there is none.
MaxBetween(from, to) ==
    LET W == {s.price : s \in InWindow(from, to)}
    IN  IF W = {} THEN 0 ELSE CHOOSE p \in W : \A q \in W : q <= p

VaultPoint(price, depth) ==
    [price |-> price, depth |-> depth, source |-> "raydium_reserves", reliable |-> TRUE]

TradePoint(price) ==
    [price |-> price, depth |-> -1, source |-> "observed_trade", reliable |-> FALSE]

\* VaultPricer.At: the vault when there is one and it can be read, else the
\* last swap; none of either, or a failing database, is an error.
PointsAt(t) ==
    (IF HasVault THEN {VaultPoint(p, d) : p \in Price \ {0}, d \in Depth} ELSE {})
        \cup {TradePoint(s.price) : s \in LastBefore(t)}

-----------------------------------------------------------------------------
(* Worker.                                                                 *)

Expired(k) == signals[k] # NoRow /\ signals[k].at <= now - Lookback

\* The bug of measuring a checkpoint before its time.
IsDueAtOnce(k, c) == signals[k].at <= now

IsDue(k, c) == signals[k].at + c <= now

Open == {x \in Signals \X Checkpoints : outcomes[x] = NoRow}

Due == {x \in Open : IsDue(x[1], x[2]) /\ ~Expired(x[1])}

\* processDue: any Limit of the due checkpoints, there is no ORDER BY.
Query ==
    /\ up /\ batch = {} /\ current = NoRow
    /\ Due # {}
    /\ batch' \in {B \in SUBSET Due : \/ B = Due /\ Cardinality(B) <= Limit
                                      \/ Cardinality(B) = Limit}
    /\ UNCHANGED <<now, classified, signals, swaps, outcomes, up, pending, current, stops>>

\* The connection breaks while rows are read; the rest waits for the next tick.
QueryBreaks ==
    /\ up /\ batch # {} /\ current = NoRow
    /\ batch' = {}
    /\ UNCHANGED <<now, classified, signals, swaps, outcomes, up, pending, current, stops>>

\* ON CONFLICT DO NOTHING.
Inserted(x, row) == IF outcomes[x] = NoRow THEN [outcomes EXCEPT ![x] = row] ELSE outcomes

Unavailable == [status |-> "unavailable", at |-> now]

\* The bug of leaving a checkpoint without a price open.
GiveUpSilently(x) ==
    /\ up /\ x \in batch /\ current = NoRow
    /\ batch' = batch \ {x}
    /\ UNCHANGED <<now, classified, signals, swaps, outcomes, up, pending, current, stops>>

\* measure gives up: no price at the signal, or none at the checkpoint, be it
\* that there is none or that it could not be read.
GiveUp(x) ==
    /\ up /\ x \in batch /\ current = NoRow
    /\ batch' = batch \ {x}
    /\ outcomes' \in {outcomes, Inserted(x, Unavailable)}
    /\ UNCHANGED <<now, classified, signals, swaps, up, pending, current, stops>>

\* The bug of pricing a checkpoint measured late at the time of measuring.
PricedAtNow(k, c) == now

PricedAt(k, c) == signals[k].at + c

ReadPrice(x) ==
    /\ up /\ x \in batch /\ current = NoRow
    /\ signals[x[1]].decision.price > 0
    /\ batch' = batch \ {x}
    /\ \E pp \in PointsAt(PricedAt(x[1], x[2])) : current' = [of |-> x, point |-> pp]
    /\ UNCHANGED <<now, classified, signals, swaps, outcomes, up, pending, stops>>

\* The bug of trusting the window alone.
MaxOrPriceWindowOnly(maxP, pp) == maxP

MaxOrPrice(maxP, pp) == IF maxP <= 0 THEN pp.price ELSE maxP

\* The bug of taking an unknown depth for a good one.
IsTradeableUnknownDepth(pp) == pp.depth < 0 \/ MinTrade * 100 < MaxImpactPct * pp.depth

IsTradeable(pp) == pp.reliable /\ pp.depth > 0 /\ MinTrade * 100 < MaxImpactPct * pp.depth

Measured(pp, maxP, anchor) ==
    [status |-> "measured", at |-> now,
     price |-> pp.price, source |-> pp.source, max |-> maxP,
     isTradeable |-> IsTradeable(pp),
     is12xClean |-> IsTradeable(pp) /\ maxP * 10 >= anchor * 12,
     is2xClean |-> IsTradeable(pp) /\ maxP >= anchor * 2,
     isRugged |-> pp.depth >= 0 /\ pp.depth < RugDepth]

\* MaxBetween is read after the price, and its error is dropped; then the row is
\* inserted, or the insert fails and the checkpoint stays open.
FinishMeasure ==
    /\ up /\ current # NoRow
    /\ LET k == current.of[1]
           window == MaxBetween(signals[k].at, signals[k].at + current.of[2])
       IN  \E maxP \in {0, window} :
             outcomes' \in {outcomes, Inserted(current.of,
                 Measured(current.point, MaxOrPrice(maxP, current.point), signals[k].decision.price))}
    /\ current' = NoRow
    /\ UNCHANGED <<now, classified, signals, swaps, up, pending, batch, stops>>

-----------------------------------------------------------------------------
(* The process and time.                                                   *)

Stop ==
    /\ up /\ stops < MaxStops
    /\ up' = FALSE /\ stops' = stops + 1
    /\ pending' = {} /\ batch' = {} /\ current' = NoRow
    /\ UNCHANGED <<now, classified, signals, swaps, outcomes>>

StartUp ==
    /\ ~up /\ up' = TRUE
    /\ UNCHANGED <<now, classified, signals, swaps, outcomes, pending, batch, current, stops>>

Tick ==
    /\ now < MaxTime /\ now' = now + 1
    /\ UNCHANGED <<classified, signals, swaps, outcomes, processVars>>

Init ==
    /\ now = 0 /\ up = TRUE /\ classified = 0 /\ stops = 0
    /\ pending = {} /\ batch = {} /\ current = NoRow
    /\ signals = [k \in Key |-> NoRow]
    /\ swaps = {}
    /\ outcomes = [x \in Key \X Checkpoints |-> NoRow]

Recorders ==
    \/ \E d \in Decision : Classify(d)
    \/ \E p \in pending : Record(p) \/ RecordFails(p)

Measure == (\E x \in batch : GiveUp(x) \/ ReadPrice(x)) \/ FinishMeasure

Next ==
    \/ Recorders
    \/ \E t \in 0 .. MaxTime, price \in Price : Persist(t, price)
    \/ Query \/ QueryBreaks \/ Measure
    \/ Stop \/ StartUp \/ Tick

Spec == Init /\ [][Next]_vars

\* Some checkpoint gets its row.
Settle == Measure /\ outcomes' # outcomes

\* The process is started again, its ticker fires and its loop runs; of the
\* database it is assumed that an insert that is tried again and again succeeds.
Fairness == WF_vars(StartUp) /\ WF_vars(Query) /\ WF_vars(Measure) /\ SF_vars(Settle)

FairSpec == Spec /\ Fairness

-----------------------------------------------------------------------------
(* What holds.                                                             *)

Row == [status : {"unavailable"}, at : 0 .. MaxTime]
         \cup [status : {"measured"}, at : 0 .. MaxTime, price : Price \ {0},
               source : {"raydium_reserves", "observed_trade"}, max : Price \ {0},
               isTradeable : BOOLEAN, is12xClean : BOOLEAN, is2xClean : BOOLEAN,
               isRugged : BOOLEAN]

\* Each variable stays in its range; the worker holds only rows of recorded
\* signals, and a measured row has a positive price and maximum.
TypeOK ==
    /\ now \in 0 .. MaxTime /\ up \in BOOLEAN
    /\ classified \in 0 .. MaxDecisions /\ stops \in 0 .. MaxStops
    /\ pending \subseteq [n : 0 .. MaxDecisions, decision : Decision]
    /\ signals \in [Key -> [at : 0 .. MaxTime, decision : Decision] \cup {NoRow}]
    /\ swaps \subseteq [t : 0 .. MaxTime, price : Price]
    /\ outcomes \in [Key \X Checkpoints -> Row \cup {NoRow}]
    /\ batch \subseteq Signals \X Checkpoints
    /\ current # NoRow => /\ current.of \in Signals \X Checkpoints
                          /\ current.point.price \in Price \ {0}

\* "deduped per 5-min bucket" (004_signal_outcomes.sql, BlockerSignature): however
\* often a row is classified, whatever order its blockers are listed in, and
\* across restarts, a bucket has one signal per mode and set of blockers.
OneSignalPerBucket ==
    \A j, k \in Signals :
        LET a == signals[j]
            b == signals[k]
        IN  /\ Bucket(a.at) = Bucket(b.at)
            /\ a.decision.mode = b.decision.mode
            /\ Range(a.decision.blockers) = Range(b.decision.blockers)
            => j = k

\* A checkpoint is settled no earlier than it falls due, and only for a signal
\* that is in the table.
NeverEarly ==
    \A x \in Key \X Checkpoints :
        outcomes[x] # NoRow => /\ signals[x[1]] # NoRow
                               /\ outcomes[x].at >= signals[x[1]].at + x[2]

\* However late the worker comes (stopped, failing, behind), a measurement shows
\* the past of its checkpoint: price and maximum, when taken from swaps, are those
\* of swaps persisted with a block time up to the checkpoint.
NoLookahead ==
    \A x \in Key \X Checkpoints :
        LET o == outcomes[x]
            before == {s.price : s \in {r \in swaps : r.t <= signals[x[1]].at + x[2]}}
        IN  o # NoRow /\ o.status = "measured" /\ o.source = "observed_trade"
                => {o.price, o.max} \subseteq before

\* The maximum of the window covers the price at its end: max_return_so_far is
\* not below return_vs_signal when both come from swaps, though they are read one
\* after the other, the second read may fail, and swaps come in between; unless
\* there was no swap since the signal when the price was read.
MaxCoversPrice ==
    \A x \in Key \X Checkpoints :
        LET o == outcomes[x]
        IN  o # NoRow /\ o.status = "measured" /\ o.source = "observed_trade"
                => \/ o.max >= o.price
                   \/ \E s \in swaps : s.t <= signals[x[1]].at /\ s.price = o.price

\* "Reliable: true only when read directly from vault reserves": labels of clean
\* or tradeable outcomes, and of rugs, rest on a vault reading alone.
LabelsNeedVault ==
    \A x \in Key \X Checkpoints :
        LET o == outcomes[x]
        IN  o # NoRow /\ o.status = "measured"
                /\ (o.isTradeable \/ o.is12xClean \/ o.is2xClean \/ o.isRugged)
              => o.source = "raydium_reserves"

\* Every checkpoint that falls due is settled, through failing reads and inserts
\* and through stops, unless its signal leaves the worker's 24 hours first.
DueIsSettled ==
    \A x \in Key \X Checkpoints :
        (x \in Due) ~> (outcomes[x] # NoRow \/ Expired(x[1]))
=============================================================================
