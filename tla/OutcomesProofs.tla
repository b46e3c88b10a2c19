--------------------------- MODULE OutcomesProofs ---------------------------
(***************************************************************************)
(* For any rows, checkpoints, limits, prices and numbers of swaps and      *)
(* stops: a bucket has one signal of a kind, and a row of its outcomes is  *)
(* no earlier than its checkpoint, shows nothing of what came after it, and*)
(* labels a token only by what its vault held.                             *)
(***************************************************************************)
EXTENDS Outcomes, SumsAndExtrema

-----------------------------------------------------------------------------
(* The inductive invariant.                                                *)

\* A signal is stored under the key of its own time and row, so what a later
\* insert finds under a key is of the same bucket, mode and blockers.
Keyed ==
    \A k \in Key : signals[k] # NoRow => k = KeyOf(signals[k].decision, signals[k].at)

\* Swaps with a price up to the time a checkpoint is priced at.
Before(x) == {s \in Priced : s.t <= PricedAt(x[1], x[2])}

\* What the worker holds was due when it was read, and a point it found is a
\* reading of the vault or a swap up to the checkpoint.
Held ==
    /\ \A x \in batch : IsDue(x[1], x[2])
    /\ current # NoRow =>
        /\ IsDue(current.of[1], current.of[2])
        /\ current.point \in {VaultPoint(p, d) : p \in Price \ {0}, d \in Depth}
                               \cup {TradePoint(s.price) : s \in Before(current.of)}

\* What each row of signal_outcomes shows, whatever is persisted later.
RowStands(x, o) ==
    /\ o.at >= signals[x[1]].at + x[2]
    /\ o.status = "measured" =>
        /\ o.source = "observed_trade" =>
            /\ \E s \in Before(x) : s.price = o.price
            /\ \E s \in Before(x) : s.price = o.max
            /\ o.max >= o.price \/ \E s \in swaps : s.t <= signals[x[1]].at /\ s.price = o.price
        /\ o.isTradeable \/ o.is12xClean \/ o.is2xClean \/ o.isRugged
             => o.source = "raydium_reserves"

RowsStand ==
    \A x \in Key \X Checkpoints :
        outcomes[x] # NoRow => signals[x[1]] # NoRow /\ RowStands(x, outcomes[x])

OutcomesInv == TypeOK /\ IsFiniteSet(swaps) /\ Keyed /\ Held /\ RowsStand

\* What the table of signals holds of a signal.
LEMMA SignalType ==
    ASSUME TypeOK, NEW k \in Signals
    PROVE  /\ k \in Key /\ signals[k] # NoRow
           /\ signals[k].at \in 0 .. MaxTime /\ signals[k].decision \in Decision
  BY DEF TypeOK, Signals

\* Checkpoints are delays.
LEMMA CheckpointType ==
    ASSUME NEW c \in Checkpoints
    PROVE  c \in Nat
  BY OutcomesAssumption

\* Every time and offset compared below is an integer.
LEMMA TimesAreNumbers ==
    ASSUME TypeOK, NEW x \in Signals \X Checkpoints
    PROVE  signals[x[1]].at \in Nat /\ x[2] \in Nat /\ now \in Nat
  <1>1. x[1] \in Signals /\ x[2] \in Checkpoints
    OBVIOUS
  <1>2. signals[x[1]].at \in 0 .. MaxTime
    BY <1>1, SignalType
  <1>3. x[2] \in Nat
    BY <1>1, CheckpointType
  <1> QED
    BY <1>2, <1>3 DEF TypeOK

\* Prices are integers.
LEMMA PriceType ==
    ASSUME NEW p \in Price \ {0}
    PROVE  p \in Int
  BY OutcomesAssumption

\* Signals and swaps are never taken back.
Kept ==
    /\ \A k \in Key : signals[k] # NoRow => signals'[k] = signals[k]
    /\ swaps \subseteq swaps'

\* Rows stay true when signals and swaps only grow.
LEMMA RowsKept ==
    ASSUME RowsStand, Kept, outcomes' = outcomes
    PROVE  RowsStand'
  <1> SUFFICES ASSUME NEW x \in Key \X Checkpoints, outcomes[x] # NoRow
               PROVE  signals'[x[1]] # NoRow /\ RowStands(x, outcomes[x])'
    BY DEF RowsStand, RowStands, Before, Priced, PricedAt
  <1>1. signals[x[1]] # NoRow /\ RowStands(x, outcomes[x])
    BY DEF RowsStand
  <1>2. x[1] \in Key /\ signals'[x[1]] = signals[x[1]]
    BY <1>1 DEF Kept
  <1>3. \A s \in Before(x) : s \in Before(x)'
    BY <1>2 DEF Kept, Before, Priced, PricedAt
  <1>4. \A s \in swaps : s \in swaps'
    BY DEF Kept
  <1> QED
    BY <1>1, <1>2, <1>3, <1>4 DEF RowStands

\* The worker's part of TypeOK.
HeldType ==
    /\ batch \subseteq Signals \X Checkpoints
    /\ current # NoRow => /\ current.of \in Signals \X Checkpoints
                          /\ current.point.price \in Price \ {0}

\* So does what the worker holds, as time goes on.
LEMMA HeldKept ==
    ASSUME TypeOK, Held, Kept, now' \in Int, now' >= now,
           batch' \subseteq batch, current' = current \/ current' = NoRow
    PROVE  HeldType' /\ Held'
  <1>1. \A k \in Signals : k \in Signals' /\ signals'[k] = signals[k]
    BY DEF Signals, Kept
  <1>2. \A x \in Signals \X Checkpoints : x \in (Signals \X Checkpoints)'
    BY <1>1
  <1>3. ASSUME NEW x \in Signals \X Checkpoints
        PROVE  /\ IsDue(x[1], x[2]) => IsDue(x[1], x[2])'
               /\ \A s \in Before(x) : s \in Before(x)'
    <2>1. x[1] \in Signals /\ x[2] \in Checkpoints /\ signals'[x[1]] = signals[x[1]]
      BY <1>1
    <2>2. signals[x[1]].at \in Int /\ x[2] \in Int /\ now \in Int
      BY <2>1, SignalType, CheckpointType DEF TypeOK
    <2> QED
      BY <2>1, <2>2 DEF IsDue, Before, Priced, PricedAt, Kept
  <1>4. HeldType'
    BY <1>2 DEF HeldType, TypeOK
  <1>5. \A x \in batch' : IsDue(x[1], x[2])'
    BY <1>3 DEF Held, TypeOK
  <1>6. ASSUME current' # NoRow
        PROVE  /\ IsDue(current.of[1], current.of[2])'
               /\ current.point \in {VaultPoint(p, d) : p \in Price \ {0}, d \in Depth}
                                      \cup {TradePoint(s.price) : s \in Before(current.of)'}
    <2>1. current' = current /\ current.of \in Signals \X Checkpoints
      BY <1>6 DEF TypeOK
    <2>2. \A s \in Before(current.of) : s \in Before(current.of)'
      BY <1>3, <2>1
    <2>3. IsDue(current.of[1], current.of[2])'
      BY <1>3, <1>6, <2>1 DEF Held
    <2>4. current.point \in {VaultPoint(p, d) : p \in Price \ {0}, d \in Depth}
                              \cup {TradePoint(s.price) : s \in Before(current.of)}
      BY <1>6, <2>1 DEF Held
    <2> QED
      BY <2>2, <2>3, <2>4
  <1> QED
    BY <1>4, <1>5, <1>6 DEF Held, Before, Priced, PricedAt, IsDue

-----------------------------------------------------------------------------
(* Steps that settle no checkpoint.                                        *)

\* Tables that do not change keep what they show.
LEMMA KeptWhenSame ==
    ASSUME UNCHANGED <<signals, swaps>>
    PROVE  Kept /\ Signals' = Signals
  BY DEF Kept, Signals

\* A signal is recorded under its own key, unless the bucket has one.
LEMMA ClassifyStep ==
    ASSUME OutcomesInv, NEW d \in Decision, Classify(d)
    PROVE  OutcomesInv'
  <1> USE OutcomesAssumption DEF OutcomesInv
  <1>1. /\ classified < MaxDecisions /\ classified' = classified + 1
        /\ UNCHANGED <<now, signals, swaps, outcomes, up, batch, current, stops>>
    BY DEF Classify
  <1>2. pending' \subseteq [n : 0 .. MaxDecisions, decision : Decision]
    <2> DEFINE new == [n |-> classified, decision |-> d]
    <2>1. new \in [n : 0 .. MaxDecisions, decision : Decision]
      BY DEF TypeOK
    <2>2. pending' = pending \cup {new}
      BY DEF Classify
    <2> HIDE DEF new
    <2> QED
      BY <2>1, <2>2 DEF TypeOK
  <1>3. now' \in Int /\ now' >= now
    BY <1>1 DEF TypeOK
  <1>4. HeldType' /\ Held' /\ RowsStand'
    BY <1>1, <1>3, KeptWhenSame, HeldKept, RowsKept
  <1>5. classified' \in 0 .. MaxDecisions
    BY <1>1 DEF TypeOK
  <1>6. TypeOK'
    BY <1>1, <1>2, <1>4, <1>5 DEF TypeOK, HeldType
  <1>7. Keyed' /\ IsFiniteSet(swaps)'
    BY <1>1 DEF Keyed
  <1> QED
    BY <1>4, <1>6, <1>7

\* A goroutine that records nothing, and rows the worker lets go.
LEMMA FewerStep ==
    ASSUME OutcomesInv,
           up' \in BOOLEAN, stops' \in 0 .. MaxStops,
           pending' \subseteq pending, batch' \subseteq batch,
           current' = current \/ current' = NoRow,
           UNCHANGED <<now, classified, signals, swaps, outcomes>>
    PROVE  OutcomesInv'
  <1> USE DEF OutcomesInv
  <1>1. now' \in Int /\ now' >= now
    BY DEF TypeOK
  <1>2. HeldType' /\ Held' /\ RowsStand'
    BY <1>1, KeptWhenSame, HeldKept, RowsKept
  <1>3. TypeOK'
    BY <1>2 DEF TypeOK, HeldType
  <1>4. Keyed' /\ IsFiniteSet(swaps)'
    BY DEF Keyed
  <1> QED
    BY <1>2, <1>3, <1>4

\* A unit of time passes.
LEMMA TickStep ==
    ASSUME OutcomesInv, Tick
    PROVE  OutcomesInv'
  <1> USE OutcomesAssumption DEF OutcomesInv
  <1>1. /\ now' \in 0 .. MaxTime /\ now' >= now /\ now' \in Int
        /\ UNCHANGED <<classified, signals, swaps, outcomes, up, pending, batch, current, stops>>
    BY DEF Tick, processVars, TypeOK
  <1>2. HeldType' /\ Held' /\ RowsStand'
    BY <1>1, KeptWhenSame, HeldKept, RowsKept
  <1>3. TypeOK'
    BY <1>1, <1>2 DEF TypeOK, HeldType
  <1>4. Keyed' /\ IsFiniteSet(swaps)'
    BY <1>1 DEF Keyed
  <1> QED
    BY <1>2, <1>3, <1>4

\* A signal is stored under the key of now, where there was none.
LEMMA RecordStep ==
    ASSUME OutcomesInv, NEW p \in pending, Record(p)
    PROVE  OutcomesInv'
  <1> USE OutcomesAssumption DEF OutcomesInv
  <1> DEFINE k == KeyOf(p.decision, now)
             row == [at |-> now, decision |-> p.decision]
  <1>1. /\ pending' \subseteq pending
        /\ UNCHANGED <<now, classified, swaps, outcomes, up, batch, current, stops>>
        /\ signals' = IF signals[k] = NoRow THEN [signals EXCEPT ![k] = row] ELSE signals
    BY DEF Record
  <1>2. p.decision \in Decision /\ now \in 0 .. MaxTime
    BY DEF TypeOK
  <1>3. k \in Key
    BY <1>2 DEF Key
  <1>4. row \in [at : 0 .. MaxTime, decision : Decision] /\ row.at = now /\ row.decision = p.decision
    BY <1>2
  <1>5. k = KeyOf(row.decision, row.at)
    BY <1>4
  <1> HIDE DEF k, row
  <1>6. /\ signals' \in [Key -> [at : 0 .. MaxTime, decision : Decision] \cup {NoRow}]
        /\ \A j \in Key : signals'[j] = signals[j] \/ (j = k /\ signals[j] = NoRow /\ signals'[j] = row)
    BY <1>1, <1>3, <1>4 DEF TypeOK
  <1>7. Kept
    BY <1>1, <1>6 DEF Kept
  <1>8. now' \in Int /\ now' >= now
    BY <1>1, <1>2
  <1>9. HeldType' /\ Held' /\ RowsStand'
    BY <1>1, <1>7, <1>8, HeldKept, RowsKept
  <1>10. TypeOK'
    BY <1>1, <1>6, <1>9 DEF TypeOK, HeldType
  <1>11. Keyed' /\ IsFiniteSet(swaps)'
    <2>1. ASSUME NEW j \in Key, signals'[j] # NoRow
          PROVE  j = KeyOf(signals'[j].decision, signals'[j].at)
      <3>1. CASE signals'[j] = signals[j]
        BY <2>1, <3>1 DEF Keyed
      <3>2. CASE j = k /\ signals'[j] = row
        BY <1>5, <3>2
      <3> QED
        BY <1>6, <3>1, <3>2
    <2> QED
      BY <1>1, <2>1 DEF Keyed, KeyOf
  <1> QED
    BY <1>9, <1>10, <1>11

\* A swap persisted late, into the past even, takes nothing from what a row shows.
LEMMA PersistStep ==
    ASSUME OutcomesInv, NEW t \in 0 .. MaxTime, NEW price \in Price, Persist(t, price)
    PROVE  OutcomesInv'
  <1> USE OutcomesAssumption DEF OutcomesInv
  <1> DEFINE new == [t |-> t, price |-> price]
  <1>1. /\ swaps' = swaps \cup {new}
        /\ UNCHANGED <<now, classified, signals, outcomes, up, pending, batch, current, stops>>
    BY DEF Persist, processVars
  <1>2. new \in [t : 0 .. MaxTime, price : Price]
    OBVIOUS
  <1> HIDE DEF new
  <1>3. Kept /\ now' \in Int /\ now' >= now
    BY <1>1 DEF Kept, TypeOK
  <1>4. HeldType' /\ Held' /\ RowsStand'
    BY <1>1, <1>3, HeldKept, RowsKept
  <1>5. IsFiniteSet(swaps')
    BY <1>1, FS_AddElement
  <1>6. swaps' \subseteq [t : 0 .. MaxTime, price : Price]
    BY <1>1, <1>2 DEF TypeOK
  <1>7. TypeOK'
    BY <1>1, <1>4, <1>6 DEF TypeOK, HeldType
  <1>8. Keyed'
    BY <1>1 DEF Keyed
  <1> QED
    BY <1>4, <1>5, <1>7, <1>8

\* What the query returns is due.
LEMMA QueryStep ==
    ASSUME OutcomesInv, Query
    PROVE  OutcomesInv'
  <1> USE DEF OutcomesInv
  <1>1. /\ batch' \in SUBSET Due /\ current = NoRow
        /\ UNCHANGED <<now, classified, signals, swaps, outcomes, up, pending, current, stops>>
    BY DEF Query
  <1>2. batch' \subseteq Signals \X Checkpoints /\ \A x \in batch' : IsDue(x[1], x[2])
    BY <1>1 DEF Due, Open
  <1>3. RowsStand' /\ Signals' = Signals
    BY <1>1, KeptWhenSame, RowsKept
  <1>4. TypeOK'
    BY <1>1, <1>2, <1>3 DEF TypeOK
  <1>5. Held'
    BY <1>1, <1>2 DEF Held, IsDue
  <1>6. Keyed' /\ IsFiniteSet(swaps)'
    BY <1>1 DEF Keyed
  <1> QED
    BY <1>3, <1>4, <1>5, <1>6

\* A point read for a checkpoint is of the vault, or of a swap before it.
LEMMA ReadPriceStep ==
    ASSUME OutcomesInv, NEW x \in batch, ReadPrice(x)
    PROVE  OutcomesInv'
  <1> USE OutcomesAssumption DEF OutcomesInv
  <1>1. /\ batch' \subseteq batch
        /\ UNCHANGED <<now, classified, signals, swaps, outcomes, up, pending, stops>>
    BY DEF ReadPrice
  <1>2. PICK pp \in PointsAt(PricedAt(x[1], x[2])) : current' = [of |-> x, point |-> pp]
    BY DEF ReadPrice
  <1>3. current'.of = x /\ current'.point = pp
    BY <1>2
  <1>4. x \in Signals \X Checkpoints /\ IsDue(x[1], x[2])
    BY DEF TypeOK, Held
  <1>5. \/ pp \in {VaultPoint(p, d) : p \in Price \ {0}, d \in Depth}
        \/ \E s \in LastBefore(PricedAt(x[1], x[2])) : pp = TradePoint(s.price)
    BY <1>2 DEF PointsAt
  <1>6. \A s \in LastBefore(PricedAt(x[1], x[2])) : s \in Before(x)
    BY DEF LastBefore, Before
  <1>7. pp \in {VaultPoint(p, d) : p \in Price \ {0}, d \in Depth}
                  \cup {TradePoint(s.price) : s \in Before(x)}
    BY <1>5, <1>6
  <1>8. pp.price \in Price \ {0}
    <2>1. CASE pp \in {VaultPoint(p, d) : p \in Price \ {0}, d \in Depth}
      BY <2>1 DEF VaultPoint
    <2>2. ASSUME NEW s \in Before(x), pp = TradePoint(s.price)
          PROVE  pp.price \in Price \ {0}
      <3>1. s.price \in Price \ {0}
        BY DEF Before, Priced, TypeOK
      <3> QED
        BY <2>2, <3>1 DEF TradePoint
    <2> QED
      BY <1>7, <2>1, <2>2
  <1>9. RowsStand' /\ Signals' = Signals
    BY <1>1, KeptWhenSame, RowsKept
  <1>10. Before(x)' = Before(x) /\ (IsDue(x[1], x[2])' <=> IsDue(x[1], x[2]))
    BY <1>1 DEF Before, Priced, PricedAt, IsDue
  <1>11. TypeOK'
    BY <1>1, <1>3, <1>4, <1>8, <1>9 DEF TypeOK
  <1>12. Held'
    <2>1. \A y \in batch' : IsDue(y[1], y[2])'
      BY <1>1 DEF Held, IsDue
    <2> QED
      BY <1>3, <1>4, <1>7, <1>10, <2>1 DEF Held
  <1>13. Keyed' /\ IsFiniteSet(swaps)'
    BY <1>1 DEF Keyed
  <1> QED
    BY <1>9, <1>11, <1>12, <1>13

-----------------------------------------------------------------------------
(* Steps that settle a checkpoint.                                         *)

\* A row that stands is inserted, unless its key has one.
LEMMA InsertStep ==
    ASSUME TypeOK, RowsStand, NEW x \in Signals \X Checkpoints,
           NEW row \in Row, RowStands(x, row),
           outcomes' \in {outcomes, Inserted(x, row)},
           UNCHANGED <<signals, swaps>>
    PROVE  /\ outcomes' \in [Key \X Checkpoints -> Row \cup {NoRow}]
           /\ RowsStand'
  <1>1. x \in Key \X Checkpoints /\ signals[x[1]] # NoRow
    BY DEF Signals
  <1>2. /\ outcomes' \in [Key \X Checkpoints -> Row \cup {NoRow}]
        /\ \A y \in Key \X Checkpoints :
             outcomes'[y] = outcomes[y] \/ (y = x /\ outcomes'[y] = row)
    BY <1>1 DEF TypeOK, Inserted
  <1>3. ASSUME NEW y \in Key \X Checkpoints, outcomes'[y] # NoRow
        PROVE  signals[y[1]] # NoRow /\ RowStands(y, outcomes'[y])
    <2>1. CASE outcomes'[y] = outcomes[y]
      BY <1>3, <2>1 DEF RowsStand
    <2>2. CASE y = x /\ outcomes'[y] = row
      BY <1>1, <2>2
    <2> QED
      BY <1>2, <2>1, <2>2
  <1>4. ASSUME NEW y \in Key \X Checkpoints, outcomes'[y] # NoRow
        PROVE  signals'[y[1]] # NoRow /\ RowStands(y, outcomes[y])'
    BY <1>3, <1>4 DEF RowStands, Before, Priced, PricedAt
  <1> QED
    BY <1>2, <1>4 DEF RowsStand

\* The worker gives up a checkpoint, and settles it as unavailable or not at all.
LEMMA GiveUpStep ==
    ASSUME OutcomesInv, NEW x \in batch, GiveUp(x)
    PROVE  OutcomesInv'
  <1> USE OutcomesAssumption DEF OutcomesInv
  <1>1. /\ batch' \subseteq batch /\ outcomes' \in {outcomes, Inserted(x, Unavailable)}
        /\ UNCHANGED <<now, classified, signals, swaps, up, pending, current, stops>>
    BY DEF GiveUp
  <1>2. Unavailable \in Row /\ Unavailable.status = "unavailable" /\ Unavailable.at = now
    BY DEF Unavailable, Row, TypeOK
  <1>3. x \in Signals \X Checkpoints /\ IsDue(x[1], x[2])
    BY DEF TypeOK, Held
  <1>4. signals[x[1]].at \in Int /\ x[2] \in Int /\ now \in Int
    BY <1>3, TimesAreNumbers
  <1>5. RowStands(x, Unavailable)
    BY <1>2, <1>3, <1>4 DEF RowStands, IsDue
  <1>6. /\ outcomes' \in [Key \X Checkpoints -> Row \cup {NoRow}]
        /\ RowsStand'
    BY <1>1, <1>2, <1>3, <1>5, InsertStep
  <1>7. HeldType' /\ Held'
    BY <1>1, <1>4, KeptWhenSame, HeldKept
  <1>8. TypeOK'
    BY <1>1, <1>6, <1>7 DEF TypeOK, HeldType
  <1>9. Keyed' /\ IsFiniteSet(swaps)'
    BY <1>1 DEF Keyed
  <1> QED
    BY <1>6, <1>7, <1>8, <1>9

\* The maximum of a window is 0 if there is no swap in it, else the price of one
\* of them, and of all the greatest.
LEMMA MaxBetweenIsGreatest ==
    ASSUME TypeOK, IsFiniteSet(swaps), NEW from, NEW to
    PROVE  \/ MaxBetween(from, to) = 0 /\ InWindow(from, to) = {}
           \/ /\ \E s \in InWindow(from, to) : MaxBetween(from, to) = s.price
              /\ \A s \in InWindow(from, to) : s.price <= MaxBetween(from, to)
  <1> DEFINE W == {s.price : s \in InWindow(from, to)}
  <1>1. \A s \in InWindow(from, to) : s \in swaps /\ s.price \in Nat
    BY OutcomesAssumption DEF InWindow, Priced, TypeOK
  <1>2. IsFiniteSet(InWindow(from, to))
    BY <1>1, FS_Subset
  <1>3. IsFiniteSet(W)
    <2> DEFINE priceOf == [s \in InWindow(from, to) |-> s.price]
    <2>1. priceOf \in Surjection(InWindow(from, to), W)
      BY DEF Surjection
    <2> HIDE DEF priceOf, W
    <2> QED
      BY <1>2, <2>1, FS_Surjection
  <1>4. W \in SUBSET Nat
    BY <1>1
  <1>5. CASE W = {}
    BY <1>5 DEF MaxBetween
  <1>6. CASE W # {}
    <2>1. \E p \in W : \A q \in W : q <= p
      <3> HIDE DEF W
      <3> QED
        BY <1>3, <1>4, <1>6, GreatestExists
    <2>2. MaxBetween(from, to) \in W /\ \A q \in W : q <= MaxBetween(from, to)
      BY <1>6, <2>1 DEF MaxBetween
    <2> QED
      BY <2>2
  <1> QED
    BY <1>5, <1>6

\* A measured row: its prices are the point's and the maximum's, its labels go by
\* the point's source.
LEMMA MeasuredFields ==
    ASSUME NEW pp, NEW maxP \in Price \ {0}, NEW anchor,
           now \in 0 .. MaxTime, pp.price \in Price \ {0},
           pp.source \in {"raydium_reserves", "observed_trade"}
    PROVE  LET o == Measured(pp, maxP, anchor)
           IN  /\ o \in Row /\ o.at = now /\ o.price = pp.price /\ o.source = pp.source
               /\ o.max = maxP
               /\ o.isTradeable \/ o.is12xClean \/ o.is2xClean => pp.reliable
               /\ o.isRugged => pp.depth >= 0
  <1> DEFINE tradeable == IsTradeable(pp)
             clean12 == IsTradeable(pp) /\ maxP * 10 >= anchor * 12
             clean2 == IsTradeable(pp) /\ maxP >= anchor * 2
             rugged == pp.depth >= 0 /\ pp.depth < RugDepth
             o == [status |-> "measured", at |-> now, price |-> pp.price, source |-> pp.source,
                   max |-> maxP, isTradeable |-> tradeable, is12xClean |-> clean12,
                   is2xClean |-> clean2, isRugged |-> rugged]
  <1>1. tradeable \in BOOLEAN /\ clean12 \in BOOLEAN /\ clean2 \in BOOLEAN /\ rugged \in BOOLEAN
    BY DEF IsTradeable
  <1>2. (tradeable \/ clean12 \/ clean2 => pp.reliable) /\ (rugged => pp.depth >= 0)
    BY DEF IsTradeable
  <1>3. Measured(pp, maxP, anchor) = o
    BY DEF Measured
  <1> HIDE DEF tradeable, clean12, clean2, rugged
  <1>4. /\ o \in Row /\ o.at = now /\ o.price = pp.price /\ o.source = pp.source /\ o.max = maxP
        /\ o.isTradeable = tradeable /\ o.is12xClean = clean12 /\ o.is2xClean = clean2
        /\ o.isRugged = rugged
    BY <1>1 DEF Row
  <1> HIDE DEF o
  <1> QED
    BY <1>2, <1>3, <1>4

\* What is measured at a point: the greatest price of the window, or the
\* point's own where there is none or it could not be read.
LEMMA MaxOrPriceStands ==
    ASSUME OutcomesInv, current # NoRow,
           NEW x, x = current.of, NEW pp, pp = current.point,
           NEW maxP \in {0, MaxBetween(signals[x[1]].at, signals[x[1]].at + x[2])}
    PROVE  /\ MaxOrPrice(maxP, pp) \in Price \ {0}
           /\ pp.source \in {"raydium_reserves", "observed_trade"}
           /\ pp.reliable \/ pp.depth >= 0 => pp.source = "raydium_reserves"
           /\ pp.source = "observed_trade" =>
                /\ \E s \in Before(x) : s.price = pp.price
                /\ \E s \in Before(x) : s.price = MaxOrPrice(maxP, pp)
                /\ \/ MaxOrPrice(maxP, pp) >= pp.price
                   \/ \E s \in swaps : s.t <= signals[x[1]].at /\ s.price = pp.price
  <1> USE OutcomesAssumption DEF OutcomesInv
  <1> DEFINE at == signals[x[1]].at
             until == at + x[2]
  <1>1. /\ x \in Signals \X Checkpoints /\ pp.price \in Price \ {0}
        /\ pp \in {VaultPoint(p, d) : p \in Price \ {0}, d \in Depth}
                   \cup {TradePoint(s.price) : s \in Before(x)}
    BY DEF Held, TypeOK
  <1>2. at \in Nat /\ until \in Nat /\ PricedAt(x[1], x[2]) = until
    <2>1. signals[x[1]].at \in Nat /\ x[2] \in Nat
      BY <1>1, TimesAreNumbers
    <2> QED
      BY <2>1 DEF PricedAt
  <1>3. \/ /\ pp.source = "raydium_reserves"
        \/ /\ pp.source = "observed_trade" /\ ~pp.reliable /\ ~(pp.depth >= 0)
           /\ \E s \in Before(x) : s.price = pp.price
    <2>1. CASE pp \in {VaultPoint(p, d) : p \in Price \ {0}, d \in Depth}
      BY <2>1 DEF VaultPoint
    <2>2. ASSUME NEW s \in Before(x), pp = TradePoint(s.price)
          PROVE  /\ pp.source = "observed_trade" /\ ~pp.reliable /\ ~(pp.depth >= 0)
                 /\ s.price = pp.price
      <3>1. pp.source = "observed_trade" /\ pp.reliable = FALSE /\ pp.depth = -1 /\ pp.price = s.price
        BY <2>2 DEF TradePoint
      <3> QED
        BY <3>1
    <2> QED
      BY <1>1, <2>1, <2>2
  <1>4. \A s \in Before(x) : s \in swaps /\ s.t \in Nat /\ s.price \in Price \ {0} /\ s.t <= until
    BY <1>2 DEF Before, Priced, TypeOK
  <1>n. \A p \in Price \ {0} : p \in Int
    BY PriceType
  <1>m. pp.price \in Price \ {0}
    BY DEF TypeOK
  <1> HIDE DEF at, until
  <1>5. CASE maxP <= 0
    <2>1. MaxOrPrice(maxP, pp) = pp.price
      BY <1>5 DEF MaxOrPrice
    <2>2. pp.price \in Int
      BY <1>n, <1>m
    <2> QED
      BY <1>1, <1>3, <2>1, <2>2
  <1>6. CASE ~(maxP <= 0)
    <2>1. MaxOrPrice(maxP, pp) = maxP /\ maxP = MaxBetween(at, until)
      BY <1>6 DEF MaxOrPrice, at, until
    <2>2. /\ \E s \in InWindow(at, until) : maxP = s.price
          /\ \A s \in InWindow(at, until) : s.price <= maxP
      BY <1>6, <2>1, MaxBetweenIsGreatest
    <2>3. \A s \in InWindow(at, until) : s \in Before(x)
      BY <1>2 DEF InWindow, Before
    <2>4. maxP \in Price \ {0} /\ \E s \in Before(x) : s.price = maxP
      BY <1>4, <2>2, <2>3
    <2>5. ASSUME NEW r \in Before(x), r.price = pp.price
          PROVE  \/ maxP >= pp.price
                 \/ \E s \in swaps : s.t <= at /\ s.price = pp.price
      <3>1. CASE r.t <= at
        BY <1>4, <2>5, <3>1
      <3>2. CASE ~(r.t <= at)
        <4>1. r \in InWindow(at, until)
          BY <1>2, <1>4, <3>2 DEF InWindow, Before
        <4>2. pp.price \in Int /\ maxP \in Int
          BY <1>n, <1>m, <2>4
        <4>3. pp.price <= maxP
          BY <2>2, <2>5, <4>1
        <4> QED
          BY <4>2, <4>3
      <3> QED
        BY <3>1, <3>2
    <2>6. pp.source = "observed_trade" =>
            \/ maxP >= pp.price
            \/ \E s \in swaps : s.t <= at /\ s.price = pp.price
      BY <1>3, <2>5
    <2> QED
      BY <1>3, <2>1, <2>4, <2>6 DEF at
  <1> QED
    BY <1>5, <1>6

\* A measurement is settled with the maximum read after the price, or without one.
LEMMA FinishMeasureStep ==
    ASSUME OutcomesInv, FinishMeasure
    PROVE  OutcomesInv'
  <1> USE OutcomesAssumption DEF OutcomesInv
  <1>1. /\ current # NoRow /\ current' = NoRow
        /\ UNCHANGED <<now, classified, signals, swaps, up, pending, batch, stops>>
    BY DEF FinishMeasure
  <1>2. PICK x, pp : x = current.of /\ pp = current.point
    OBVIOUS
  <1>3. PICK maxP \in {0, MaxBetween(signals[x[1]].at, signals[x[1]].at + x[2])} :
          outcomes' \in {outcomes, Inserted(x, Measured(pp, MaxOrPrice(maxP, pp),
                                                        signals[x[1]].decision.price))}
    BY <1>2 DEF FinishMeasure
  <1>4. PICK max, anchor : max = MaxOrPrice(maxP, pp) /\ anchor = signals[x[1]].decision.price
    OBVIOUS
  <1>5. PICK o : o = Measured(pp, max, anchor)
    OBVIOUS
  <1>6. /\ x \in Signals \X Checkpoints /\ IsDue(x[1], x[2])
        /\ pp.price \in Price \ {0} /\ now \in 0 .. MaxTime
    BY <1>1, <1>2 DEF TypeOK, Held
  <1>7. /\ max \in Price \ {0}
        /\ pp.source \in {"raydium_reserves", "observed_trade"}
        /\ pp.reliable \/ pp.depth >= 0 => pp.source = "raydium_reserves"
        /\ pp.source = "observed_trade" =>
             /\ \E s \in Before(x) : s.price = pp.price
             /\ \E s \in Before(x) : s.price = max
             /\ max >= pp.price \/ \E s \in swaps : s.t <= signals[x[1]].at /\ s.price = pp.price
    BY <1>1, <1>2, <1>4, MaxOrPriceStands
  <1>8. /\ o \in Row /\ o.at = now /\ o.price = pp.price /\ o.source = pp.source
        /\ o.max = max
        /\ o.isTradeable \/ o.is12xClean \/ o.is2xClean => pp.reliable
        /\ o.isRugged => pp.depth >= 0
    BY <1>5, <1>6, <1>7, MeasuredFields
  <1>9. o.at >= signals[x[1]].at + x[2]
    <2>1. signals[x[1]].at \in Nat /\ x[2] \in Nat /\ now \in Nat
      BY <1>6, TimesAreNumbers
    <2> QED
      BY <1>6, <1>8, <2>1 DEF IsDue
  <1>10. RowStands(x, o)
    BY <1>7, <1>8, <1>9 DEF RowStands
  <1>11. outcomes' \in [Key \X Checkpoints -> Row \cup {NoRow}] /\ RowsStand'
    BY <1>1, <1>3, <1>4, <1>5, <1>6, <1>8, <1>10, InsertStep
  <1>12. now' \in Int /\ now' >= now
    BY <1>1, <1>6
  <1>13. HeldType' /\ Held'
    BY <1>1, <1>12, KeptWhenSame, HeldKept
  <1>14. TypeOK'
    BY <1>1, <1>11, <1>13 DEF TypeOK, HeldType
  <1>15. Keyed' /\ IsFiniteSet(swaps)'
    BY <1>1 DEF Keyed
  <1> QED
    BY <1>11, <1>13, <1>14, <1>15

-----------------------------------------------------------------------------
(* The theorems.                                                           *)

\* An empty database.
LEMMA OutcomesInit ==
    ASSUME Init
    PROVE  OutcomesInv
  <1>1. TypeOK
    BY OutcomesAssumption DEF Init, TypeOK
  <1>2. IsFiniteSet(swaps)
    BY FS_EmptySet DEF Init
  <1>3. Keyed /\ Held /\ RowsStand
    BY DEF Init, Keyed, Held, RowsStand
  <1> QED
    BY <1>1, <1>2, <1>3 DEF OutcomesInv

\* Every step keeps the invariant.
LEMMA OutcomesStep ==
    ASSUME OutcomesInv, [Next]_vars
    PROVE  OutcomesInv'
  <1>1. CASE Recorders
    <2>1. ASSUME NEW p \in pending, RecordFails(p)
          PROVE  OutcomesInv'
      BY <2>1, FewerStep DEF RecordFails, OutcomesInv, TypeOK
    <2> QED
      BY <1>1, <2>1, ClassifyStep, RecordStep DEF Recorders
  <1>2. CASE Measure
    BY <1>2, GiveUpStep, ReadPriceStep, FinishMeasureStep DEF Measure
  <1>3. CASE QueryBreaks
    BY <1>3, FewerStep DEF QueryBreaks, OutcomesInv, TypeOK
  <1>4. CASE Stop
    <2>1. stops' \in 0 .. MaxStops
      BY <1>4, OutcomesAssumption DEF Stop, OutcomesInv, TypeOK
    <2> QED
      BY <1>4, <2>1, FewerStep DEF Stop
  <1>5. CASE StartUp
    BY <1>5, FewerStep DEF StartUp, OutcomesInv, TypeOK
  <1>6. CASE UNCHANGED vars
    BY <1>6, FewerStep DEF vars, processVars, OutcomesInv, TypeOK
  <1> QED
    BY <1>1, <1>2, <1>3, <1>4, <1>5, <1>6, PersistStep, QueryStep, TickStep DEF Next

\* The inductive invariant of signals and their outcomes.
THEOREM OutcomesInvariant == Spec => []OutcomesInv
  <1>1. Init => OutcomesInv
    BY OutcomesInit
  <1>2. OutcomesInv /\ [Next]_vars => OutcomesInv'
    BY OutcomesStep
  <1> QED
    BY <1>1, <1>2, PTL DEF Spec

\* Every variable keeps its type; the worker holds rows of recorded signals only
\* and measures positive prices.
THEOREM OutcomesTypes == Spec => []TypeOK
  <1>1. OutcomesInv => TypeOK
    BY DEF OutcomesInv
  <1> QED
    BY <1>1, OutcomesInvariant, PTL

\* A bucket has one signal per mode and set of blockers, whatever the order the
\* blockers are found in and however many goroutines record at a time.
THEOREM OneSignal == Spec => []OneSignalPerBucket
  <1>1. OutcomesInv => OneSignalPerBucket
    BY DEF OutcomesInv, Keyed, OneSignalPerBucket, Signals, KeyOf, Signature
  <1> QED
    BY <1>1, OutcomesInvariant, PTL

\* No checkpoint is settled before it is due.
THEOREM NoneEarly == Spec => []NeverEarly
  <1>1. OutcomesInv => NeverEarly
    BY DEF OutcomesInv, RowsStand, RowStands, NeverEarly
  <1> QED
    BY <1>1, OutcomesInvariant, PTL

\* However late it is measured and whatever is persisted meanwhile, a
\* measurement from swaps shows none of after its checkpoint.
THEOREM OnlyThePast == Spec => []NoLookahead
  <1>1. OutcomesInv => NoLookahead
    <2> SUFFICES ASSUME OutcomesInv, NEW x \in Key \X Checkpoints, outcomes[x] # NoRow,
                        outcomes[x].status = "measured", outcomes[x].source = "observed_trade"
                 PROVE  {outcomes[x].price, outcomes[x].max} \subseteq
                          {s.price : s \in {r \in swaps : r.t <= signals[x[1]].at + x[2]}}
      BY DEF NoLookahead
    <2>1. /\ \E s \in Before(x) : s.price = outcomes[x].price
          /\ \E s \in Before(x) : s.price = outcomes[x].max
      BY DEF OutcomesInv, RowsStand, RowStands
    <2>2. \A s \in Before(x) : s \in {r \in swaps : r.t <= signals[x[1]].at + x[2]}
      BY DEF Before, Priced, PricedAt
    <2> QED
      BY <2>1, <2>2
  <1> QED
    BY <1>1, OutcomesInvariant, PTL

\* The maximum of a measurement from swaps is not below its price, unless the
\* price is one from before the signal.
THEOREM MaxCovers == Spec => []MaxCoversPrice
  <1>1. OutcomesInv => MaxCoversPrice
    BY DEF OutcomesInv, RowsStand, RowStands, MaxCoversPrice
  <1> QED
    BY <1>1, OutcomesInvariant, PTL

\* No label of a clean, tradeable or rugged outcome without a vault reading.
THEOREM LabelsFromVault == Spec => []LabelsNeedVault
  <1>1. OutcomesInv => LabelsNeedVault
    BY DEF OutcomesInv, RowsStand, RowStands, LabelsNeedVault
  <1> QED
    BY <1>1, OutcomesInvariant, PTL
=============================================================================
