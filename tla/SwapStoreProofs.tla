--------------------------- MODULE SwapStoreProofs ---------------------------
(***************************************************************************)
(* The store inherits what SigRingProofs shows of its ring: each of its    *)
(* steps is a step of the ring or leaves it alone.  And of its records, for*)
(* any tokens, wallets, capacities and windows: counters, times and sums   *)
(* are those of the events applied, in whatever order they came; histories *)
(* are bounded, and give up nothing too early; holder snapshots come in    *)
(* order and stay; only idle records are dropped.                          *)
(* Ring and records together are the account of deliveries that Deliveries *)
(* has: what is in a record was taken once, and is refused while recent.   *)
(***************************************************************************)
EXTENDS SwapStore, SigRingProofs, SequenceTheorems, SumsAndExtrema

\* Every method of Store leaves the ring as one of its operations would.
LEMMA StoreStepOnRing == [StoreNext]_vars => [RingNext]_ringVars
  <1> SUFFICES ASSUME [StoreNext]_vars PROVE [RingNext]_ringVars
    OBVIOUS
  <1>1. ASSUME NEW ev \in SwapEvent, Apply(ev) PROVE [RingNext]_ringVars
    <2>1. ev.sig \in Sig \cup {NoSig}
      BY DEF SwapEvent
    <2>2. CASE ApplyDuplicate(ev)
      BY <2>2 DEF ApplyDuplicate, vars, ringVars
    <2>3. CASE ApplyNew(ev)
      BY <2>1, <2>3 DEF ApplyNew, RingNext, Offer, ringVars
    <2> QED
      BY <1>1, <2>2, <2>3 DEF Apply
  <1>2. CASE PruneStale
    BY <1>2 DEF PruneStale, ringVars
  <1>3. ASSUME NEW mint \in Mint, NEW d \in {-1, 0, 1}, UpdateDepth(mint, d)
        PROVE  [RingNext]_ringVars
    BY <1>3 DEF UpdateDepth, ringVars
  <1>4. CASE Reset
    BY <1>4 DEF Reset, RingNext
  <1>5. CASE Tick
    BY <1>5 DEF Tick, ringVars
  <1>6. CASE UNCHANGED vars
    BY <1>6 DEF vars, ringVars
  <1> QED
    BY <1>1, <1>2, <1>3, <1>4, <1>5, <1>6 DEF StoreNext

\* Store.Apply never applies a signature again before SigCacheCap others have
\* been applied, whatever pruning, resets and depth updates come in between.
THEOREM StoreDedupHorizon == StoreSpec => []DedupHorizon
  <1>1. StoreInit => RingInv
    BY RingInitInv DEF StoreInit
  <1>2. RingInv /\ [StoreNext]_vars => RingInv'
    BY StoreStepOnRing, RingStepInv
  <1>3. RingInv => DedupHorizon
    BY DEF RingInv
  <1> QED
    BY <1>1, <1>2, <1>3, PTL DEF StoreSpec

-----------------------------------------------------------------------------
(* Histories.                                                              *)

\* The elements of a sequence with one more.
LEMMA AppendedElements ==
    ASSUME NEW S, NEW seq \in Seq(S), NEW e \in S
    PROVE  /\ Append(seq, e) \in Seq(S) /\ Len(Append(seq, e)) = Len(seq) + 1
           /\ \A i \in DOMAIN seq : Append(seq, e)[i] = seq[i] /\ i \in DOMAIN Append(seq, e)
           /\ Append(seq, e)[Len(seq) + 1] = e /\ Len(seq) + 1 \in DOMAIN Append(seq, e)
           /\ \A i \in DOMAIN Append(seq, e) : i \in DOMAIN seq \/ i = Len(seq) + 1
           /\ Len(seq) \in Nat
           /\ DOMAIN seq = 1 .. Len(seq)
  BY AppendProperties

\* What a capped history keeps: everything while there is room, else all but the
\* oldest, and always the new event.
Keeps(kept, history, cap, ev) ==
    /\ kept \in Seq(AnySwap) /\ Len(kept) <= cap /\ Len(kept) <= Len(history) + 1
    /\ \A j \in DOMAIN kept : kept[j] = ev \/ \E i \in DOMAIN history : kept[j] = history[i]
    /\ \E j \in DOMAIN kept : kept[j] = ev
    /\ Len(history) < cap => \A i \in DOMAIN history : \E j \in DOMAIN kept : kept[j] = history[i]

\* A capped history with one more element: no longer than its cap, in the order
\* of arrival, and without its oldest only if it was full.
LEMMA AppendCappedKeeps ==
    ASSUME NEW history \in Seq(AnySwap), NEW cap \in Nat \ {0}, Len(history) <= cap,
           NEW ev \in AnySwap
    PROVE  Keeps(AppendCapped(history, cap, ev), history, cap, ev)
  <1>1. CASE Len(history) < cap
    <2>1. AppendCapped(history, cap, ev) = Append(history, ev)
      BY <1>1 DEF AppendCapped
    <2>2. Len(history) + 1 <= cap
      BY <1>1, AppendedElements
    <2> QED
      BY <1>1, <2>1, <2>2, AppendedElements DEF Keeps
  <1>2. CASE ~(Len(history) < cap)
    <2>1. history # <<>> /\ Len(history) = cap
      <3>1. Len(history) \in Nat
        OBVIOUS
      <3> QED
        BY <1>2, <3>1, EmptySeq
    <2>2. PICK rest : rest = Tail(history)
      OBVIOUS
    <2>3. /\ rest \in Seq(AnySwap) /\ Len(rest) = cap - 1
          /\ \A i \in DOMAIN rest : rest[i] = history[i + 1] /\ i + 1 \in DOMAIN history
      BY <2>1, <2>2, HeadTailProperties
    <2>4. AppendCapped(history, cap, ev) = Append(rest, ev)
      BY <1>2, <2>2 DEF AppendCapped
    <2>5. \A j \in DOMAIN rest : \E i \in DOMAIN history : rest[j] = history[i]
      BY <2>3
    <2>6. Len(Append(rest, ev)) = cap
      BY <2>3, AppendedElements
    <2> QED
      BY <1>2, <2>1, <2>3, <2>4, <2>5, <2>6, AppendedElements DEF Keeps
  <1> QED
    BY <1>1, <1>2

\* appendTradeEvent drops a prefix, of which every event is too old for the
\* window of the new one or has TradeCap later ones.
LEMMA TradesAfterKeeps ==
    ASSUME NEW trades \in Seq(AnySwap), NEW ev \in AnySwap
    PROVE  LET all == Append(trades, ev)
               kept == TradesAfter(trades, ev)
           IN  \E k \in 1 .. Len(all) :
                 /\ kept \in Seq(AnySwap) /\ Len(kept) = Len(all) - k + 1 /\ Len(kept) <= TradeCap
                 /\ \A j \in 1 .. Len(kept) : kept[j] = all[k - 1 + j]
                 /\ \A i \in 1 .. k - 1 : \/ Len(all) - i >= TradeCap
                                          \/ all[i].at < ev.at - TradeWindow
  <1> USE SwapStoreAssumption
  <1>1. PICK all : all = Append(trades, ev)
    OBVIOUS
  <1>2. /\ all \in Seq(AnySwap) /\ Len(all) \in Nat \ {0} /\ all[Len(all)] = ev
        /\ DOMAIN all = 1 .. Len(all)
    BY <1>1, AppendedElements
  <1>3. \A i \in 1 .. Len(all) : all[i].at \in Nat
    <2>1. \A i \in 1 .. Len(all) : all[i] \in AnySwap
      BY <1>2
    <2>2. \A e \in AnySwap : e.at \in Nat
      BY DEF AnySwap
    <2> QED
      BY <2>1, <2>2
  <1> DEFINE keepFrom == {i \in DOMAIN all : Len(all) - i < TradeCap /\ all[i].at >= ev.at - TradeWindow}
  <1>4. keepFrom \in SUBSET Nat /\ Len(all) \in keepFrom
    <2>1. ev.at \in Nat
      BY DEF AnySwap
    <2> QED
      BY <1>2, <2>1
  <1>5. PICK k : k = Min(keepFrom)
    OBVIOUS
  <1>6. k \in keepFrom /\ \A i \in keepFrom : k <= i
    <2> HIDE DEF keepFrom
    <2> QED
      BY <1>4, <1>5, LeastExists DEF Min
  <1>7. k \in 1 .. Len(all) /\ Len(all) - k < TradeCap
    BY <1>2, <1>6
  <1>8. PICK kept : kept = SubSeq(all, k, Len(all))
    OBVIOUS
  <1>9. TradesAfter(trades, ev) = kept
    BY <1>1, <1>5, <1>8 DEF TradesAfter
  <1>10. /\ kept \in Seq(AnySwap) /\ Len(kept) = Len(all) - k + 1
         /\ \A j \in 1 .. Len(kept) : kept[j] = all[k - 1 + j]
    BY <1>2, <1>7, <1>8, SubSeqProperties
  <1>11. ASSUME NEW i \in 1 .. k - 1
         PROVE  Len(all) - i >= TradeCap \/ all[i].at < ev.at - TradeWindow
    <2>1. i \in DOMAIN all /\ i \notin keepFrom
      BY <1>2, <1>6, <1>7
    <2>2. all[i].at \in Int /\ ev.at \in Int /\ Len(all) \in Int
      BY <1>2, <1>3, <2>1 DEF AnySwap
    <2> QED
      BY <2>1, <2>2
  <1>12. Len(kept) <= TradeCap
    BY <1>2, <1>7, <1>10
  <1> QED
    BY <1>1, <1>7, <1>9, <1>10, <1>11, <1>12

-----------------------------------------------------------------------------
(* What an event makes of a record, field by field.                        *)

\* Times, counts and trades after an event.
LEMMA ObservedFields ==
    ASSUME NEW t \in TokenRecord, NEW ev \in AnySwap
    PROVE  LET u == Observed(t, ev)
           IN  /\ u \in TokenRecord
               /\ u.first = Earliest(t.first, ev.at) /\ u.last = Latest(t.last, ev.at)
               /\ u.total = t.total + 1 /\ u.trades = TradesAfter(t.trades, ev)
               /\ u.buys = t.buys /\ u.sells = t.sells /\ u.depth = t.depth
               /\ u.sellTrades = t.sellTrades /\ u.firstBuy = t.firstBuy
               /\ u.net = t.net /\ u.spent = t.spent /\ u.earned = t.earned
               /\ u.snapped30 = t.snapped30 /\ u.snapped60 = t.snapped60
               /\ u.holders30 = t.holders30 /\ u.holders60 = t.holders60 /\ u.winners = t.winners
  <1> DEFINE first == Earliest(t.first, ev.at)
             last == Latest(t.last, ev.at)
             total == t.total + 1
             trades == TradesAfter(t.trades, ev)
  <1>1. first \in Nat /\ last \in Nat /\ total \in Nat
    <2>1. /\ t.first \in Nat /\ t.last \in Nat /\ t.total \in Nat /\ ev.at \in Nat
      BY DEF TokenRecord, AnySwap
    <2> QED
      BY <2>1 DEF Earliest, Latest
  <1>2. trades \in Seq(AnySwap)
    <2>1. t.trades \in Seq(AnySwap)
      BY DEF TokenRecord
    <2> QED
      BY <2>1, TradesAfterKeeps
  <1>3. Observed(t, ev) =
          [[[[t EXCEPT !.first = first] EXCEPT !.last = last] EXCEPT !.total = total]
             EXCEPT !.trades = trades]
    BY DEF Observed
  <1> HIDE DEF first, last, total, trades
  <1>4. LET u == [[[[t EXCEPT !.first = first] EXCEPT !.last = last] EXCEPT !.total = total]
                    EXCEPT !.trades = trades]
        IN  /\ u \in TokenRecord
            /\ u.first = first /\ u.last = last /\ u.total = total /\ u.trades = trades
            /\ u.buys = t.buys /\ u.sells = t.sells /\ u.depth = t.depth
            /\ u.sellTrades = t.sellTrades /\ u.firstBuy = t.firstBuy
            /\ u.net = t.net /\ u.spent = t.spent /\ u.earned = t.earned
            /\ u.snapped30 = t.snapped30 /\ u.snapped60 = t.snapped60
            /\ u.holders30 = t.holders30 /\ u.holders60 = t.holders60 /\ u.winners = t.winners
    BY <1>1, <1>2 DEF TokenRecord
  <1> QED
    BY <1>3, <1>4 DEF first, last, total, trades

\* What buying, selling and pricing leave alone.
SameMarks(t, u) ==
    /\ u.first = t.first /\ u.last = t.last /\ u.total = t.total /\ u.trades = t.trades
    /\ u.depth = t.depth
    /\ u.snapped30 = t.snapped30 /\ u.snapped60 = t.snapped60
    /\ u.holders30 = t.holders30 /\ u.holders60 = t.holders60 /\ u.winners = t.winners

\* The buy side after an event.
LEMMA BoughtFields ==
    ASSUME NEW t \in TokenRecord, Len(t.buys) <= BuyCap, NEW ev \in AnySwap
    PROVE  LET u == Bought(t, ev)
           IN  /\ u \in TokenRecord /\ SameMarks(t, u) /\ u.sells = t.sells
               /\ u.buys = AppendCapped(t.buys, BuyCap, ev)
               /\ u.sellTrades = t.sellTrades
               /\ u.firstBuy = [t.firstBuy EXCEPT ![ev.wallet] = IF @ = Never THEN ev.at ELSE @]
               /\ u.net = [t.net EXCEPT ![ev.wallet] = @ + ev.qty]
               /\ u.spent = [t.spent EXCEPT ![ev.wallet] = @ + ev.sol] /\ u.earned = t.earned
  <1> USE SwapStoreAssumption
  <1> DEFINE net == [t.net EXCEPT ![ev.wallet] = @ + ev.qty]
             spent == [t.spent EXCEPT ![ev.wallet] = @ + ev.sol]
             firstBuy == [t.firstBuy EXCEPT ![ev.wallet] = IF @ = Never THEN ev.at ELSE @]
             buys == AppendCapped(t.buys, BuyCap, ev)
  <1>1. net \in [Wallet -> Int] /\ spent \in [Wallet -> Nat] /\ firstBuy \in [Wallet -> Nat \cup {Never}]
    <2>1. /\ ev.wallet \in Wallet /\ ev.qty \in Nat /\ ev.sol \in Nat /\ ev.at \in Nat
          /\ t.net \in [Wallet -> Int] /\ t.spent \in [Wallet -> Nat]
          /\ t.firstBuy \in [Wallet -> Nat \cup {Never}]
      BY DEF TokenRecord, AnySwap
    <2> QED
      BY <2>1
  <1>2. buys \in Seq(AnySwap)
    <2>1. t.buys \in Seq(AnySwap)
      BY DEF TokenRecord
    <2> QED
      BY <2>1, AppendCappedKeeps DEF Keeps
  <1>3. Bought(t, ev) =
          [[[[t EXCEPT !.net = net] EXCEPT !.spent = spent] EXCEPT !.firstBuy = firstBuy]
             EXCEPT !.buys = buys]
    BY DEF Bought
  <1> HIDE DEF net, spent, firstBuy, buys
  <1>4. LET u == [[[[t EXCEPT !.net = net] EXCEPT !.spent = spent] EXCEPT !.firstBuy = firstBuy]
                    EXCEPT !.buys = buys]
        IN  /\ u \in TokenRecord /\ SameMarks(t, u) /\ u.sells = t.sells /\ u.buys = buys
            /\ u.sellTrades = t.sellTrades /\ u.firstBuy = firstBuy
            /\ u.net = net /\ u.spent = spent /\ u.earned = t.earned
    BY <1>1, <1>2 DEF TokenRecord, SameMarks
  <1> QED
    BY <1>3, <1>4 DEF buys, firstBuy, net, spent

\* The sell side after an event.
LEMMA SoldFields ==
    ASSUME NEW t \in TokenRecord, Len(t.sells) <= SellCap, NEW ev \in AnySwap
    PROVE  LET u == Sold(t, ev)
           IN  /\ u \in TokenRecord /\ SameMarks(t, u) /\ u.buys = t.buys
               /\ u.sells = AppendCapped(t.sells, SellCap, ev)
               /\ u.sellTrades = t.sellTrades + 1 /\ u.firstBuy = t.firstBuy
               /\ u.net = [t.net EXCEPT ![ev.wallet] = @ - ev.qty]
               /\ u.earned = [t.earned EXCEPT ![ev.wallet] = @ + ev.sol] /\ u.spent = t.spent
  <1> USE SwapStoreAssumption
  <1> DEFINE net == [t.net EXCEPT ![ev.wallet] = @ - ev.qty]
             earned == [t.earned EXCEPT ![ev.wallet] = @ + ev.sol]
             count == t.sellTrades + 1
             sells == AppendCapped(t.sells, SellCap, ev)
  <1>1. net \in [Wallet -> Int] /\ earned \in [Wallet -> Nat] /\ count \in Nat
    <2>1. /\ ev.wallet \in Wallet /\ ev.qty \in Nat /\ ev.sol \in Nat
          /\ t.net \in [Wallet -> Int] /\ t.earned \in [Wallet -> Nat] /\ t.sellTrades \in Nat
      BY DEF TokenRecord, AnySwap
    <2>2. t.net[ev.wallet] - ev.qty \in Int /\ t.earned[ev.wallet] + ev.sol \in Nat
      BY <2>1
    <2>3. net \in [Wallet -> Int]
      BY <2>1, <2>2
    <2>4. earned \in [Wallet -> Nat]
      BY <2>1, <2>2
    <2> QED
      BY <2>1, <2>3, <2>4
  <1>2. sells \in Seq(AnySwap)
    <2>1. t.sells \in Seq(AnySwap)
      BY DEF TokenRecord
    <2> QED
      BY <2>1, AppendCappedKeeps DEF Keeps
  <1>3. Sold(t, ev) =
          [[[[t EXCEPT !.net = net] EXCEPT !.earned = earned] EXCEPT !.sellTrades = count]
             EXCEPT !.sells = sells]
    BY DEF Sold
  <1> HIDE DEF net, earned, count, sells
  <1>4. LET u == [[[[t EXCEPT !.net = net] EXCEPT !.earned = earned] EXCEPT !.sellTrades = count]
                    EXCEPT !.sells = sells]
        IN  /\ u \in TokenRecord /\ SameMarks(t, u) /\ u.buys = t.buys /\ u.sells = sells
            /\ u.sellTrades = count /\ u.firstBuy = t.firstBuy
            /\ u.net = net /\ u.earned = earned /\ u.spent = t.spent
    BY <1>1, <1>2 DEF TokenRecord, SameMarks
  <1> QED
    BY <1>3, <1>4 DEF sells, count, net, earned

\* The last price changes nothing else.
LEMMA PricedFields ==
    ASSUME NEW t \in TokenRecord, NEW ev \in AnySwap
    PROVE  LET u == Priced(t, ev)
           IN  /\ u \in TokenRecord /\ SameMarks(t, u) /\ u.buys = t.buys /\ u.sells = t.sells
               /\ u.sellTrades = t.sellTrades /\ u.firstBuy = t.firstBuy
               /\ u.net = t.net /\ u.spent = t.spent /\ u.earned = t.earned
  <1> DEFINE price == <<ev.sol, ev.qty>>
  <1>1. ev.qty > 0 /\ ev.sol > 0 => price \in {<<>>} \cup ((Sol \ {0}) \X (Qty \ {0}))
    BY DEF AnySwap
  <1>2. Priced(t, ev) = t \/ (ev.qty > 0 /\ ev.sol > 0 /\ Priced(t, ev) = [t EXCEPT !.price = price])
    BY DEF Priced
  <1> HIDE DEF price
  <1>3. price \in {<<>>} \cup ((Sol \ {0}) \X (Qty \ {0})) =>
        LET u == [t EXCEPT !.price = price]
        IN  /\ u \in TokenRecord /\ SameMarks(t, u) /\ u.buys = t.buys /\ u.sells = t.sells
            /\ u.sellTrades = t.sellTrades /\ u.firstBuy = t.firstBuy
            /\ u.net = t.net /\ u.spent = t.spent /\ u.earned = t.earned
    BY DEF TokenRecord, SameMarks
  <1> QED
    BY <1>1, <1>2, <1>3 DEF SameMarks

\* Holders and organic winners are counted.
LEMMA CountsAreNatural ==
    ASSUME NEW t \in TokenRecord
    PROVE  CountHolders(t.net) \in Nat /\ CountOrganicWinners(t) \in Nat
  <1>1. \A S \in SUBSET Wallet : Cardinality(S) \in Nat
    BY SwapStoreAssumption, FS_Subset, FS_CardinalityType
  <1> QED
    BY <1>1 DEF CountHolders, CountOrganicWinners

\* What a snapshot of holders leaves alone.
SameEvents(t, u) ==
    /\ u.first = t.first /\ u.last = t.last /\ u.total = t.total /\ u.trades = t.trades
    /\ u.buys = t.buys /\ u.sells = t.sells /\ u.depth = t.depth
    /\ u.sellTrades = t.sellTrades /\ u.firstBuy = t.firstBuy
    /\ u.net = t.net /\ u.spent = t.spent /\ u.earned = t.earned

\* The first snapshot is taken once, of a token old enough.
LEMMA Snapped30Fields ==
    ASSUME NEW t \in TokenRecord
    PROVE  LET u == Snapped30(t)
           IN  /\ u \in TokenRecord /\ SameEvents(t, u)
               /\ u.snapped60 = t.snapped60 /\ u.holders60 = t.holders60 /\ u.winners = t.winners
               /\ t.snapped30 => u.snapped30 /\ u.holders30 = t.holders30
               /\ now - t.first >= Snap30 => u.snapped30
               /\ u.snapped30 => t.snapped30 \/ now - t.first >= Snap30
  <1> DEFINE holders == CountHolders(t.net)
  <1>1. holders \in Nat
    BY CountsAreNatural
  <1>2. CASE ~t.snapped30 /\ now - t.first >= Snap30
    <2>1. Snapped30(t) = [[t EXCEPT !.snapped30 = TRUE] EXCEPT !.holders30 = holders]
      BY <1>2 DEF Snapped30
    <2> HIDE DEF holders
    <2>2. LET u == [[t EXCEPT !.snapped30 = TRUE] EXCEPT !.holders30 = holders]
          IN  /\ u \in TokenRecord /\ SameEvents(t, u) /\ u.snapped30 = TRUE
              /\ u.snapped60 = t.snapped60 /\ u.holders60 = t.holders60 /\ u.winners = t.winners
      BY <1>1 DEF TokenRecord, SameEvents
    <2> QED
      BY <1>2, <2>1, <2>2
  <1>3. CASE ~(~t.snapped30 /\ now - t.first >= Snap30)
    <2>1. Snapped30(t) = t
      BY <1>3 DEF Snapped30
    <2> QED
      BY <1>3, <2>1 DEF SameEvents
  <1> QED
    BY <1>2, <1>3

\* So is the second.
LEMMA Snapped60Fields ==
    ASSUME NEW t \in TokenRecord
    PROVE  LET u == Snapped60(t)
           IN  /\ u \in TokenRecord /\ SameEvents(t, u)
               /\ u.snapped30 = t.snapped30 /\ u.holders30 = t.holders30
               /\ t.snapped60 => u.snapped60 /\ u.holders60 = t.holders60 /\ u.winners = t.winners
               /\ u.snapped60 => t.snapped60 \/ now - t.first >= Snap60
               /\ ~u.snapped60 => u.holders60 = t.holders60 /\ u.winners = t.winners
  <1> DEFINE holders == CountHolders(t.net)
             winners == CountOrganicWinners(t)
  <1>1. holders \in Nat /\ winners \in Nat
    BY CountsAreNatural
  <1>2. CASE ~t.snapped60 /\ now - t.first >= Snap60
    <2>1. Snapped60(t) = [[[t EXCEPT !.snapped60 = TRUE] EXCEPT !.holders60 = holders]
                             EXCEPT !.winners = winners]
      BY <1>2 DEF Snapped60
    <2> HIDE DEF holders, winners
    <2>2. LET u == [[[t EXCEPT !.snapped60 = TRUE] EXCEPT !.holders60 = holders]
                      EXCEPT !.winners = winners]
          IN  /\ u \in TokenRecord /\ SameEvents(t, u) /\ u.snapped60 = TRUE
              /\ u.snapped30 = t.snapped30 /\ u.holders30 = t.holders30
      BY <1>1 DEF TokenRecord, SameEvents
    <2> QED
      BY <1>2, <2>1, <2>2
  <1>3. CASE ~(~t.snapped60 /\ now - t.first >= Snap60)
    <2>1. Snapped60(t) = t
      BY <1>3 DEF Snapped60
    <2> QED
      BY <1>3, <2>1 DEF SameEvents
  <1> QED
    BY <1>2, <1>3

-----------------------------------------------------------------------------
(* The inductive invariant: a record t and the events h that made it.      *)

BuysOf(h) == {i \in DOMAIN h : h[i].isBuy}
SellsOf(h) == {i \in DOMAIN h : ~h[i].isBuy}

\* Counters are exact, and the record's times span its events'.
Counted(t, h) ==
    /\ t.total = Len(h)
    /\ t.sellTrades = Cardinality(SellsOf(h))
    /\ \A i \in DOMAIN h : t.first <= h[i].at /\ h[i].at <= t.last
    /\ \A w \in Wallet : t.firstBuy[w] = Never <=> \A i \in BuysOf(h) : h[i].wallet # w

\* The trade history s is what the events h end with, and what it lacks is too
\* old, measured from the last block time, or too far back.
EndsWith(s, h, last) ==
    /\ Len(h) - Len(s) >= 0
    /\ \A j \in 1 .. Len(s) : s[j] = h[Len(h) - Len(s) + j]
    /\ \A i \in 1 .. Len(h) - Len(s) : \/ Len(h) - i >= TradeCap
                                      \/ h[i].at < last - TradeWindow

TradesEnd(t, h) == EndsWith(t.trades, h, t.last)

\* Each wallet's sums are over its own swaps.
Summed(t, h) ==
    \A w \in Wallet :
        /\ t.spent[w] = TotalSol(h, SwapsBy(h, w, TRUE))
        /\ t.earned[w] = TotalSol(h, SwapsBy(h, w, FALSE))
        /\ t.net[w] = TotalQty(h, SwapsBy(h, w, TRUE)) - TotalQty(h, SwapsBy(h, w, FALSE))

\* Each event of the history b is at a place of its own among the places S of the
\* events h, p tells which; and none of S is left out while S is within the cap.
PlacedBy(p, b, h, S, cap) ==
    /\ p \in [DOMAIN b -> S] /\ \A j \in DOMAIN b : b[j] = h[p[j]]
    /\ \A j, k \in DOMAIN b : p[j] = p[k] => j = k
    /\ Cardinality(S) <= cap => \A i \in S : \E j \in DOMAIN b : p[j] = i
    /\ Len(b) <= Cardinality(S)

KeptOf(b, h, S, cap) == \E p : PlacedBy(p, b, h, S, cap)

\* The histories of both sides.
SidesKept(t, h) ==
    /\ KeptOf(t.buys, h, BuysOf(h), BuyCap)
    /\ KeptOf(t.sells, h, SellsOf(h), SellCap)

Marked(t, time) ==
    /\ t.snapped60 => t.snapped30
    /\ t.snapped30 => time - t.first >= Snap30
    /\ t.snapped60 => time - t.first >= Snap60
    /\ ~t.snapped60 => t.winners = 0 /\ t.holders60 = 0

Made(t, h, time) ==
    /\ TokenType(t) /\ Counted(t, h) /\ Summed(t, h)
    /\ TradesEnd(t, h) /\ SidesKept(t, h) /\ Marked(t, time)

\* The first and the last block time are those of events.
Spanned(t, h) ==
    /\ \E i \in DOMAIN h : t.first = h[i].at
    /\ \E i \in DOMAIN h : t.last = h[i].at

Sound(t, h, time) ==
    IF t # NoToken THEN Made(t, h, time) /\ Spanned(t, h) ELSE h = <<>>

StoreInv ==
    /\ RingInv /\ now \in Nat
    /\ tokens \in [Mint -> TokenRecord \cup {NoToken}] /\ hist \in [Mint -> Seq(AnySwap)]
    /\ \A mint \in Mint : Sound(tokens[mint], hist[mint], now)

\* What one event makes of a record, field by field.
LEMMA RecordedFields ==
    ASSUME NEW t \in TokenRecord, Len(t.buys) <= BuyCap, Len(t.sells) <= SellCap,
           NEW ev \in AnySwap
    PROVE  LET u == Recorded(t, ev)
           IN  /\ u \in TokenRecord
               /\ u.first = Earliest(t.first, ev.at) /\ u.last = Latest(t.last, ev.at)
               /\ u.total = t.total + 1 /\ u.trades = TradesAfter(t.trades, ev)
               /\ u.depth = t.depth
               /\ ev.isBuy =>
                    /\ u.buys = AppendCapped(t.buys, BuyCap, ev) /\ u.sells = t.sells
                    /\ u.sellTrades = t.sellTrades
                    /\ u.firstBuy = [t.firstBuy EXCEPT ![ev.wallet] = IF @ = Never THEN ev.at ELSE @]
               /\ ~ev.isBuy =>
                    /\ u.buys = t.buys /\ u.sells = AppendCapped(t.sells, SellCap, ev)
                    /\ u.sellTrades = t.sellTrades + 1 /\ u.firstBuy = t.firstBuy
               /\ ev.isBuy => /\ u.net = [t.net EXCEPT ![ev.wallet] = @ + ev.qty]
                              /\ u.spent = [t.spent EXCEPT ![ev.wallet] = @ + ev.sol]
                              /\ u.earned = t.earned
               /\ ~ev.isBuy => /\ u.net = [t.net EXCEPT ![ev.wallet] = @ - ev.qty]
                               /\ u.earned = [t.earned EXCEPT ![ev.wallet] = @ + ev.sol]
                               /\ u.spent = t.spent
               /\ t.snapped30 => u.snapped30 /\ u.holders30 = t.holders30
               /\ now - u.first >= Snap30 => u.snapped30
               /\ u.snapped30 => t.snapped30 \/ now - u.first >= Snap30
               /\ t.snapped60 => u.snapped60 /\ u.holders60 = t.holders60 /\ u.winners = t.winners
               /\ u.snapped60 => t.snapped60 \/ now - u.first >= Snap60
               /\ ~u.snapped60 => u.holders60 = t.holders60 /\ u.winners = t.winners
  <1>1. PICK a : a = Observed(t, ev)
    OBVIOUS
  <1>2. /\ a \in TokenRecord
        /\ a.first = Earliest(t.first, ev.at) /\ a.last = Latest(t.last, ev.at)
        /\ a.total = t.total + 1 /\ a.trades = TradesAfter(t.trades, ev)
        /\ a.buys = t.buys /\ a.sells = t.sells /\ a.depth = t.depth
        /\ a.sellTrades = t.sellTrades /\ a.firstBuy = t.firstBuy
        /\ a.net = t.net /\ a.spent = t.spent /\ a.earned = t.earned
        /\ a.snapped30 = t.snapped30 /\ a.snapped60 = t.snapped60
        /\ a.holders30 = t.holders30 /\ a.holders60 = t.holders60 /\ a.winners = t.winners
    BY <1>1, ObservedFields
  <1>3. PICK b : b = IF ev.isBuy THEN Bought(a, ev) ELSE Sold(a, ev)
    OBVIOUS
  <1>4. /\ b \in TokenRecord /\ SameMarks(a, b)
        /\ ev.isBuy =>
             /\ b.buys = AppendCapped(t.buys, BuyCap, ev) /\ b.sells = t.sells
             /\ b.sellTrades = t.sellTrades
             /\ b.firstBuy = [t.firstBuy EXCEPT ![ev.wallet] = IF @ = Never THEN ev.at ELSE @]
        /\ ~ev.isBuy =>
             /\ b.buys = t.buys /\ b.sells = AppendCapped(t.sells, SellCap, ev)
             /\ b.sellTrades = t.sellTrades + 1 /\ b.firstBuy = t.firstBuy
        /\ ev.isBuy => /\ b.net = [t.net EXCEPT ![ev.wallet] = @ + ev.qty]
                       /\ b.spent = [t.spent EXCEPT ![ev.wallet] = @ + ev.sol]
                       /\ b.earned = t.earned
        /\ ~ev.isBuy => /\ b.net = [t.net EXCEPT ![ev.wallet] = @ - ev.qty]
                        /\ b.earned = [t.earned EXCEPT ![ev.wallet] = @ + ev.sol]
                        /\ b.spent = t.spent
    <2>1. CASE ev.isBuy
      <3>1. b = Bought(a, ev) /\ Len(a.buys) <= BuyCap
        BY <1>2, <1>3, <2>1
      <3>2. /\ b \in TokenRecord /\ SameMarks(a, b) /\ b.sells = a.sells
            /\ b.buys = AppendCapped(a.buys, BuyCap, ev) /\ b.sellTrades = a.sellTrades
            /\ b.firstBuy = [a.firstBuy EXCEPT ![ev.wallet] = IF @ = Never THEN ev.at ELSE @]
            /\ b.net = [a.net EXCEPT ![ev.wallet] = @ + ev.qty]
            /\ b.spent = [a.spent EXCEPT ![ev.wallet] = @ + ev.sol] /\ b.earned = a.earned
        BY <1>2, <3>1, BoughtFields
      <3> QED
        BY <1>2, <2>1, <3>2
    <2>2. CASE ~ev.isBuy
      <3>1. b = Sold(a, ev) /\ Len(a.sells) <= SellCap
        BY <1>2, <1>3, <2>2
      <3>2. /\ b \in TokenRecord /\ SameMarks(a, b) /\ b.buys = a.buys
            /\ b.sells = AppendCapped(a.sells, SellCap, ev)
            /\ b.sellTrades = a.sellTrades + 1 /\ b.firstBuy = a.firstBuy
            /\ b.net = [a.net EXCEPT ![ev.wallet] = @ - ev.qty]
            /\ b.earned = [a.earned EXCEPT ![ev.wallet] = @ + ev.sol] /\ b.spent = a.spent
        BY <1>2, <3>1, SoldFields
      <3> QED
        BY <1>2, <2>2, <3>2
    <2> QED
      BY <2>1, <2>2
  <1>5. PICK c : c = Priced(b, ev)
    OBVIOUS
  <1>6. /\ c \in TokenRecord /\ SameMarks(b, c) /\ c.buys = b.buys /\ c.sells = b.sells
        /\ c.sellTrades = b.sellTrades /\ c.firstBuy = b.firstBuy
        /\ c.net = b.net /\ c.spent = b.spent /\ c.earned = b.earned
    BY <1>4, <1>5, PricedFields
  <1>7. PICK d : d = Snapped30(c)
    OBVIOUS
  <1>8. /\ d \in TokenRecord /\ SameEvents(c, d)
        /\ d.snapped60 = c.snapped60 /\ d.holders60 = c.holders60 /\ d.winners = c.winners
        /\ c.snapped30 => d.snapped30 /\ d.holders30 = c.holders30
        /\ now - c.first >= Snap30 => d.snapped30
        /\ d.snapped30 => c.snapped30 \/ now - c.first >= Snap30
    BY <1>6, <1>7, Snapped30Fields
  <1>9. PICK e : e = Snapped60(d)
    OBVIOUS
  <1>10. /\ e \in TokenRecord /\ SameEvents(d, e)
         /\ e.snapped30 = d.snapped30 /\ e.holders30 = d.holders30
         /\ d.snapped60 => e.snapped60 /\ e.holders60 = d.holders60 /\ e.winners = d.winners
         /\ e.snapped60 => d.snapped60 \/ now - d.first >= Snap60
         /\ ~e.snapped60 => e.holders60 = d.holders60 /\ e.winners = d.winners
    BY <1>8, <1>9, Snapped60Fields
  <1>11. Recorded(t, ev) = e
    BY <1>1, <1>3, <1>5, <1>7, <1>9 DEF Recorded
  <1>12. /\ e.first = Earliest(t.first, ev.at) /\ e.last = Latest(t.last, ev.at)
         /\ e.total = t.total + 1 /\ e.trades = TradesAfter(t.trades, ev)
         /\ e.depth = t.depth
         /\ e.first = c.first /\ e.first = d.first
         /\ e.buys = b.buys /\ e.sells = b.sells
         /\ e.sellTrades = b.sellTrades /\ e.firstBuy = b.firstBuy
         /\ e.net = b.net /\ e.spent = b.spent /\ e.earned = b.earned
    BY <1>2, <1>4, <1>6, <1>8, <1>10 DEF SameMarks, SameEvents
  <1>13. /\ c.snapped30 = t.snapped30 /\ c.snapped60 = t.snapped60
         /\ c.holders30 = t.holders30 /\ c.holders60 = t.holders60 /\ c.winners = t.winners
    BY <1>2, <1>4, <1>6 DEF SameMarks
  <1>14. /\ ev.isBuy =>
             /\ e.buys = AppendCapped(t.buys, BuyCap, ev) /\ e.sells = t.sells
             /\ e.sellTrades = t.sellTrades
             /\ e.firstBuy = [t.firstBuy EXCEPT ![ev.wallet] = IF @ = Never THEN ev.at ELSE @]
         /\ ~ev.isBuy =>
             /\ e.buys = t.buys /\ e.sells = AppendCapped(t.sells, SellCap, ev)
             /\ e.sellTrades = t.sellTrades + 1 /\ e.firstBuy = t.firstBuy
         /\ ev.isBuy => /\ e.net = [t.net EXCEPT ![ev.wallet] = @ + ev.qty]
                        /\ e.spent = [t.spent EXCEPT ![ev.wallet] = @ + ev.sol]
                        /\ e.earned = t.earned
         /\ ~ev.isBuy => /\ e.net = [t.net EXCEPT ![ev.wallet] = @ - ev.qty]
                         /\ e.earned = [t.earned EXCEPT ![ev.wallet] = @ + ev.sol]
                         /\ e.spent = t.spent
    BY <1>4, <1>12
  <1>15. /\ t.snapped30 => e.snapped30 /\ e.holders30 = t.holders30
         /\ now - e.first >= Snap30 => e.snapped30
         /\ e.snapped30 => t.snapped30 \/ now - e.first >= Snap30
         /\ t.snapped60 => e.snapped60 /\ e.holders60 = t.holders60 /\ e.winners = t.winners
         /\ e.snapped60 => t.snapped60 \/ now - e.first >= Snap60
         /\ ~e.snapped60 => e.holders60 = t.holders60 /\ e.winners = t.winners
    BY <1>8, <1>10, <1>12, <1>13
  <1> QED
    BY <1>10, <1>11, <1>12, <1>14, <1>15

\* The buys, or the sells, of the events after one more.
LEMMA SidesAfter ==
    ASSUME NEW h \in Seq(AnySwap), NEW ev \in AnySwap
    PROVE  LET g == Append(h, ev)
           IN  /\ IsFiniteSet(BuysOf(h)) /\ IsFiniteSet(SellsOf(h))
               /\ ev.isBuy => /\ BuysOf(g) = BuysOf(h) \cup {Len(g)} /\ SellsOf(g) = SellsOf(h)
                              /\ Cardinality(BuysOf(g)) = Cardinality(BuysOf(h)) + 1
               /\ ~ev.isBuy => /\ SellsOf(g) = SellsOf(h) \cup {Len(g)} /\ BuysOf(g) = BuysOf(h)
                               /\ Cardinality(SellsOf(g)) = Cardinality(SellsOf(h)) + 1
               /\ Cardinality(BuysOf(h)) \in Nat /\ Cardinality(SellsOf(h)) \in Nat
  <1>1. PICK g : g = Append(h, ev)
    OBVIOUS
  <1>2. /\ g \in Seq(AnySwap) /\ Len(g) = Len(h) + 1 /\ g[Len(g)] = ev /\ Len(h) \in Nat
        /\ DOMAIN h = 1 .. Len(h) /\ DOMAIN g = 1 .. Len(g)
        /\ \A i \in DOMAIN h : g[i] = h[i]
    BY <1>1, AppendedElements
  <1>3. IsFiniteSet(DOMAIN h)
    BY <1>2, FS_Interval
  <1>4. IsFiniteSet(BuysOf(h)) /\ IsFiniteSet(SellsOf(h))
    BY <1>3, FS_Subset DEF BuysOf, SellsOf
  <1>5. Len(g) \notin DOMAIN h /\ DOMAIN g = DOMAIN h \cup {Len(g)}
    BY <1>2
  <1>6. ev.isBuy => BuysOf(g) = BuysOf(h) \cup {Len(g)} /\ SellsOf(g) = SellsOf(h)
    BY <1>2, <1>5 DEF BuysOf, SellsOf
  <1>7. ~ev.isBuy => SellsOf(g) = SellsOf(h) \cup {Len(g)} /\ BuysOf(g) = BuysOf(h)
    BY <1>2, <1>5 DEF BuysOf, SellsOf
  <1>8. Len(g) \notin BuysOf(h) /\ Len(g) \notin SellsOf(h)
    BY <1>5 DEF BuysOf, SellsOf
  <1>9. /\ ev.isBuy => Cardinality(BuysOf(g)) = Cardinality(BuysOf(h)) + 1
        /\ ~ev.isBuy => Cardinality(SellsOf(g)) = Cardinality(SellsOf(h)) + 1
    BY <1>4, <1>6, <1>7, <1>8, FS_AddElement
  <1>10. Cardinality(BuysOf(h)) \in Nat /\ Cardinality(SellsOf(h)) \in Nat
    BY <1>4, FS_CardinalityType
  <1> QED
    BY <1>1, <1>4, <1>6, <1>7, <1>9, <1>10

\* Counters stay exact with one more event.
LEMMA CountedStep ==
    ASSUME NEW t \in TokenRecord, Len(t.buys) <= BuyCap, Len(t.sells) <= SellCap,
           NEW h \in Seq(AnySwap), NEW ev \in AnySwap, Counted(t, h)
    PROVE  Counted(Recorded(t, ev), Append(h, ev))
  <1>1. PICK u, g : u = Recorded(t, ev) /\ g = Append(h, ev)
    OBVIOUS
  <1>2. /\ u.first = Earliest(t.first, ev.at) /\ u.last = Latest(t.last, ev.at)
        /\ u.total = t.total + 1
        /\ ev.isBuy =>
             /\ u.sellTrades = t.sellTrades
             /\ u.firstBuy = [t.firstBuy EXCEPT ![ev.wallet] = IF @ = Never THEN ev.at ELSE @]
        /\ ~ev.isBuy => u.sellTrades = t.sellTrades + 1 /\ u.firstBuy = t.firstBuy
    BY <1>1, RecordedFields
  <1>3. /\ Len(g) = Len(h) + 1 /\ g[Len(g)] = ev /\ Len(h) \in Nat
        /\ DOMAIN g = DOMAIN h \cup {Len(g)}
        /\ \A i \in DOMAIN h : g[i] = h[i]
    <2>1. /\ Len(g) = Len(h) + 1 /\ g[Len(g)] = ev /\ Len(h) \in Nat /\ g \in Seq(AnySwap)
          /\ DOMAIN h = 1 .. Len(h) /\ DOMAIN g = 1 .. Len(g)
          /\ \A i \in DOMAIN h : g[i] = h[i]
      BY <1>1, AppendedElements
    <2> QED
      BY <2>1
  <1>4. /\ t.first \in Nat /\ t.last \in Nat /\ ev.at \in Nat /\ ev.wallet \in Wallet
        /\ t.firstBuy \in [Wallet -> Nat \cup {Never}]
    BY DEF TokenRecord, AnySwap
  <1>5. u.total = Len(g)
    BY <1>2, <1>3 DEF Counted
  <1>6. u.sellTrades = Cardinality(SellsOf(g))
    BY <1>1, <1>2, SidesAfter DEF Counted
  <1>7. ASSUME NEW i \in DOMAIN g
        PROVE  u.first <= g[i].at /\ g[i].at <= u.last
    <2>1. CASE i \in DOMAIN h
      <3>1. t.first <= h[i].at /\ h[i].at <= t.last /\ g[i] = h[i]
        BY <1>3, <2>1 DEF Counted
      <3>2. h[i].at \in Nat
        <4>1. h[i] \in AnySwap
          BY <2>1
        <4> QED
          BY <4>1 DEF AnySwap
      <3> QED
        BY <1>2, <1>4, <3>1, <3>2 DEF Earliest, Latest
    <2>2. CASE i = Len(g)
      BY <1>2, <1>3, <1>4, <2>2 DEF Earliest, Latest
    <2> QED
      BY <1>3, <2>1, <2>2
  <1>8. ASSUME NEW w \in Wallet
        PROVE  u.firstBuy[w] = Never <=> \A i \in BuysOf(g) : g[i].wallet # w
    <2>1. t.firstBuy[w] = Never <=> \A i \in BuysOf(h) : h[i].wallet # w
      BY DEF Counted
    <2>2. \A i \in BuysOf(h) : g[i] = h[i]
      BY <1>3 DEF BuysOf
    <2>3. CASE ev.isBuy
      <3>1. BuysOf(g) = BuysOf(h) \cup {Len(g)}
        BY <1>1, <2>3, SidesAfter
      <3>2. CASE w = ev.wallet
        <4>1. u.firstBuy[w] # Never
          BY <1>2, <1>4, <2>3, <3>2, SwapStoreAssumption
        <4>2. Len(g) \in BuysOf(g) /\ g[Len(g)].wallet = w
          BY <1>3, <3>1, <3>2
        <4> QED
          BY <4>1, <4>2
      <3>3. CASE w # ev.wallet
        <4>1. u.firstBuy[w] = t.firstBuy[w]
          BY <1>2, <1>4, <2>3, <3>3
        <4>2. g[Len(g)].wallet # w
          BY <1>3, <3>3
        <4> QED
          BY <2>1, <2>2, <3>1, <4>1, <4>2
      <3> QED
        BY <3>2, <3>3
    <2>4. CASE ~ev.isBuy
      <3>1. BuysOf(g) = BuysOf(h) /\ u.firstBuy = t.firstBuy
        BY <1>1, <1>2, <2>4, SidesAfter
      <3> QED
        BY <2>1, <2>2, <3>1
    <2> QED
      BY <2>3, <2>4
  <1> QED
    BY <1>1, <1>5, <1>6, <1>7, <1>8 DEF Counted

\* The swaps of one side by one wallet, after one more event.
LEMMA SwapsByOneMore ==
    ASSUME NEW h \in Seq(AnySwap), NEW ev \in AnySwap, NEW w, NEW isBuy \in BOOLEAN
    PROVE  /\ SwapsBy(Append(h, ev), w, isBuy) =
                 IF ev.wallet = w /\ ev.isBuy = isBuy
                 THEN SwapsBy(h, w, isBuy) \cup {Len(h) + 1} ELSE SwapsBy(h, w, isBuy)
           /\ SwapsBy(h, w, isBuy) \in SUBSET DOMAIN h
  <1>1. PICK g : g = Append(h, ev)
    OBVIOUS
  <1>2. /\ DOMAIN h = 1 .. Len(h) /\ DOMAIN g = 1 .. Len(h) + 1 /\ Len(h) \in Nat
        /\ g[Len(h) + 1] = ev /\ \A i \in DOMAIN h : g[i] = h[i]
    BY <1>1, AppendedElements
  <1>3. DOMAIN g = DOMAIN h \cup {Len(h) + 1} /\ Len(h) + 1 \notin DOMAIN h
    BY <1>2
  <1> QED
    BY <1>1, <1>2, <1>3 DEF SwapsBy

\* One more event adds its amount to the totals it counts in, and nothing to others.
LEMMA TotalsOneMore ==
    ASSUME NEW h \in Seq(AnySwap), NEW ev \in AnySwap, NEW swaps \in SUBSET DOMAIN h
    PROVE  LET g == Append(h, ev)
           IN  /\ TotalSol(g, swaps) = TotalSol(h, swaps)
               /\ TotalQty(g, swaps) = TotalQty(h, swaps)
               /\ TotalSol(g, swaps \cup {Len(h) + 1}) = TotalSol(h, swaps) + ev.sol
               /\ TotalQty(g, swaps \cup {Len(h) + 1}) = TotalQty(h, swaps) + ev.qty
               /\ TotalSol(h, swaps) \in Int /\ TotalQty(h, swaps) \in Int
  <1>1. PICK g, new : g = Append(h, ev) /\ new = Len(h) + 1
    OBVIOUS
  <1>2. /\ DOMAIN h = 1 .. Len(h) /\ new \in DOMAIN g /\ new \notin DOMAIN h
        /\ g[new] = ev /\ \A i \in DOMAIN h : g[i] = h[i] /\ i \in DOMAIN g
    BY <1>1, AppendedElements
  <1>3. PICK solH, solG, qtyH, qtyG :
          /\ solH = [i \in DOMAIN h |-> h[i].sol] /\ solG = [i \in DOMAIN g |-> g[i].sol]
          /\ qtyH = [i \in DOMAIN h |-> h[i].qty] /\ qtyG = [i \in DOMAIN g |-> g[i].qty]
    OBVIOUS
  <1>4. \A e \in AnySwap : e.sol \in Int /\ e.qty \in Int
    <2>1. \A x \in Sol \cup Qty : x \in Int
      BY SwapStoreAssumption
    <2>2. \A e \in AnySwap : e.sol \in Sol /\ e.qty \in Qty
      BY DEF AnySwap
    <2> QED
      BY <2>1, <2>2
  <1>5. \A i \in swaps : /\ solH[i] \in Int /\ solH[i] = solG[i]
                         /\ qtyH[i] \in Int /\ qtyH[i] = qtyG[i]
    <2>1. \A i \in swaps : h[i] \in AnySwap /\ i \in DOMAIN h
      OBVIOUS
    <2> QED
      BY <1>2, <1>3, <1>4, <2>1
  <1>6. solG[new] = ev.sol /\ qtyG[new] = ev.qty /\ ev.sol \in Int /\ ev.qty \in Int
    BY <1>2, <1>3, <1>4
  <1>7. IsFiniteSet(swaps)
    <2>1. IsFiniteSet(DOMAIN h)
      BY <1>2, FS_Interval
    <2> QED
      BY <2>1, FS_Subset
  <1>8. PICK more : more = swaps \cup {new}
    OBVIOUS
  <1>9. IsFiniteSet(more) /\ new \in more /\ more \ {new} = swaps
    BY <1>2, <1>7, <1>8, FS_AddElement
  <1>10. \A i \in more : solG[i] \in Int /\ qtyG[i] \in Int
    BY <1>5, <1>6, <1>8
  <1>11. /\ SumFunctionOnSet(solG, swaps) = SumFunctionOnSet(solH, swaps)
         /\ SumFunctionOnSet(qtyG, swaps) = SumFunctionOnSet(qtyH, swaps)
    BY <1>5, <1>7, SumOfSame
  <1>12. SumFunctionOnSet(solG, more) = SumFunctionOnSet(solG, swaps) + ev.sol
    BY <1>6, <1>9, <1>10, SumWithout
  <1>13. SumFunctionOnSet(qtyG, more) = SumFunctionOnSet(qtyG, swaps) + ev.qty
    BY <1>6, <1>9, <1>10, SumWithout
  <1>14. SumFunctionOnSet(solH, swaps) \in Int /\ SumFunctionOnSet(qtyH, swaps) \in Int
    BY <1>5, <1>7, SumIsInt
  <1> QED
    BY <1>1, <1>3, <1>8, <1>11, <1>12, <1>13, <1>14 DEF TotalSol, TotalQty

\* Each wallet's sums stay exact with one more event.
LEMMA SummedStep ==
    ASSUME NEW t \in TokenRecord, Len(t.buys) <= BuyCap, Len(t.sells) <= SellCap,
           NEW h \in Seq(AnySwap), NEW ev \in AnySwap, Summed(t, h)
    PROVE  Summed(Recorded(t, ev), Append(h, ev))
  <1>1. PICK u, g : u = Recorded(t, ev) /\ g = Append(h, ev)
    OBVIOUS
  <1>2. /\ ev.isBuy => /\ u.net = [t.net EXCEPT ![ev.wallet] = @ + ev.qty]
                       /\ u.spent = [t.spent EXCEPT ![ev.wallet] = @ + ev.sol]
                       /\ u.earned = t.earned
        /\ ~ev.isBuy => /\ u.net = [t.net EXCEPT ![ev.wallet] = @ - ev.qty]
                        /\ u.earned = [t.earned EXCEPT ![ev.wallet] = @ + ev.sol]
                        /\ u.spent = t.spent
    BY <1>1, RecordedFields
  <1>3. /\ ev.wallet \in Wallet /\ ev.qty \in Nat /\ ev.sol \in Nat /\ ev.isBuy \in BOOLEAN
        /\ t.net \in [Wallet -> Int] /\ t.spent \in [Wallet -> Nat] /\ t.earned \in [Wallet -> Nat]
    BY SwapStoreAssumption DEF TokenRecord, AnySwap
  <1>4. SUFFICES ASSUME NEW w \in Wallet
                 PROVE  /\ u.spent[w] = TotalSol(g, SwapsBy(g, w, TRUE))
                        /\ u.earned[w] = TotalSol(g, SwapsBy(g, w, FALSE))
                        /\ u.net[w] = TotalQty(g, SwapsBy(g, w, TRUE))
                                         - TotalQty(g, SwapsBy(g, w, FALSE))
    BY <1>1 DEF Summed
  <1>5. PICK bought, sold, bought2, sold2 :
          /\ bought = SwapsBy(h, w, TRUE) /\ sold = SwapsBy(h, w, FALSE)
          /\ bought2 = SwapsBy(g, w, TRUE) /\ sold2 = SwapsBy(g, w, FALSE)
    OBVIOUS
  <1>6. /\ bought \in SUBSET DOMAIN h /\ sold \in SUBSET DOMAIN h
        /\ bought2 = IF ev.wallet = w /\ ev.isBuy THEN bought \cup {Len(h) + 1} ELSE bought
        /\ sold2 = IF ev.wallet = w /\ ~ev.isBuy THEN sold \cup {Len(h) + 1} ELSE sold
    <2>1. /\ bought \in SUBSET DOMAIN h
          /\ bought2 = IF ev.wallet = w /\ ev.isBuy = TRUE THEN bought \cup {Len(h) + 1} ELSE bought
      BY <1>1, <1>5, SwapsByOneMore
    <2>2. /\ sold \in SUBSET DOMAIN h
          /\ sold2 = IF ev.wallet = w /\ ev.isBuy = FALSE THEN sold \cup {Len(h) + 1} ELSE sold
      BY <1>1, <1>5, SwapsByOneMore
    <2> QED
      BY <1>3, <2>1, <2>2
  <1>7. /\ t.spent[w] = TotalSol(h, bought) /\ t.earned[w] = TotalSol(h, sold)
        /\ t.net[w] = TotalQty(h, bought) - TotalQty(h, sold)
    BY <1>5 DEF Summed
  <1>8. /\ TotalSol(g, bought) = TotalSol(h, bought) /\ TotalQty(g, bought) = TotalQty(h, bought)
        /\ TotalSol(g, bought \cup {Len(h) + 1}) = TotalSol(h, bought) + ev.sol
        /\ TotalQty(g, bought \cup {Len(h) + 1}) = TotalQty(h, bought) + ev.qty
        /\ TotalQty(h, bought) \in Int
    BY <1>1, <1>6, TotalsOneMore
  <1>9. /\ TotalSol(g, sold) = TotalSol(h, sold) /\ TotalQty(g, sold) = TotalQty(h, sold)
        /\ TotalSol(g, sold \cup {Len(h) + 1}) = TotalSol(h, sold) + ev.sol
        /\ TotalQty(g, sold \cup {Len(h) + 1}) = TotalQty(h, sold) + ev.qty
        /\ TotalQty(h, sold) \in Int
    BY <1>1, <1>6, TotalsOneMore
  <1>10. CASE ev.wallet # w
    <2>1. bought2 = bought /\ sold2 = sold
      BY <1>6, <1>10
    <2>2. u.spent[w] = t.spent[w] /\ u.earned[w] = t.earned[w] /\ u.net[w] = t.net[w]
      <3>1. u.spent[w] = t.spent[w]
        BY <1>2, <1>3, <1>10
      <3>2. u.earned[w] = t.earned[w]
        BY <1>2, <1>3, <1>10
      <3>3. u.net[w] = t.net[w]
        BY <1>2, <1>3, <1>10
      <3> QED
        BY <3>1, <3>2, <3>3
    <2> QED
      BY <1>5, <1>7, <1>8, <1>9, <2>1, <2>2
  <1>11. CASE ev.wallet = w /\ ev.isBuy
    <2>1. bought2 = bought \cup {Len(h) + 1} /\ sold2 = sold
      BY <1>6, <1>11
    <2>2. /\ u.spent[w] = t.spent[w] + ev.sol /\ u.earned[w] = t.earned[w]
          /\ u.net[w] = t.net[w] + ev.qty
      BY <1>2, <1>3, <1>11
    <2>3. u.spent[w] = TotalSol(g, bought2) /\ u.earned[w] = TotalSol(g, sold2)
      BY <1>7, <1>8, <1>9, <2>1, <2>2
    <2>4. u.net[w] = TotalQty(g, bought2) - TotalQty(g, sold2)
      <3>1. PICK x \in Int, y \in Int : x = TotalQty(h, bought) /\ y = TotalQty(h, sold)
        BY <1>8, <1>9
      <3>2. TotalQty(g, bought2) = x + ev.qty /\ TotalQty(g, sold2) = y
        BY <1>8, <1>9, <2>1, <3>1
      <3>3. u.net[w] = (x - y) + ev.qty
        BY <1>7, <2>2, <3>1
      <3> QED
        BY <1>3, <3>1, <3>2, <3>3
    <2> QED
      BY <1>5, <2>3, <2>4
  <1>12. CASE ev.wallet = w /\ ~ev.isBuy
    <2>1. bought2 = bought /\ sold2 = sold \cup {Len(h) + 1}
      BY <1>6, <1>12
    <2>2. /\ u.spent[w] = t.spent[w] /\ u.earned[w] = t.earned[w] + ev.sol
          /\ u.net[w] = t.net[w] - ev.qty
      BY <1>2, <1>3, <1>12
    <2>3. u.spent[w] = TotalSol(g, bought2) /\ u.earned[w] = TotalSol(g, sold2)
      BY <1>7, <1>8, <1>9, <2>1, <2>2
    <2>4. u.net[w] = TotalQty(g, bought2) - TotalQty(g, sold2)
      <3>1. PICK x \in Int, y \in Int : x = TotalQty(h, bought) /\ y = TotalQty(h, sold)
        BY <1>8, <1>9
      <3>2. TotalQty(g, bought2) = x /\ TotalQty(g, sold2) = y + ev.qty
        BY <1>8, <1>9, <2>1, <3>1
      <3>3. u.net[w] = (x - y) - ev.qty
        BY <1>7, <2>2, <3>1
      <3> QED
        BY <1>3, <3>1, <3>2, <3>3
    <2> QED
      BY <1>5, <2>3, <2>4
  <1> QED
    BY <1>10, <1>11, <1>12

\* The first and the last time stay those of events.
LEMMA SpannedStep ==
    ASSUME NEW t \in TokenRecord, Len(t.buys) <= BuyCap, Len(t.sells) <= SellCap,
           NEW h \in Seq(AnySwap), NEW ev \in AnySwap,
           Spanned(t, h) \/ (t.first = ev.at /\ t.last = ev.at)
    PROVE  Spanned(Recorded(t, ev), Append(h, ev))
  <1>1. PICK u, g : u = Recorded(t, ev) /\ g = Append(h, ev)
    OBVIOUS
  <1>2. u.first = Earliest(t.first, ev.at) /\ u.last = Latest(t.last, ev.at)
    BY <1>1, RecordedFields
  <1>3. /\ \A i \in DOMAIN h : i \in DOMAIN g /\ g[i] = h[i]
        /\ \E i \in DOMAIN g : g[i] = ev
    BY <1>1, AppendedElements
  <1>4. (u.first = t.first \/ u.first = ev.at) /\ (u.last = t.last \/ u.last = ev.at)
    BY <1>2 DEF Earliest, Latest
  <1>5. (\E i \in DOMAIN g : g[i].at = t.first) \/ t.first = ev.at
    BY <1>3 DEF Spanned
  <1>6. (\E i \in DOMAIN g : g[i].at = t.last) \/ t.last = ev.at
    BY <1>3 DEF Spanned
  <1>7. \E i \in DOMAIN g : g[i].at = ev.at
    BY <1>3
  <1> QED
    BY <1>1, <1>4, <1>5, <1>6, <1>7 DEF Spanned

\* A prefix given up earlier stays given up: the last event is never earlier.
LEMMA EndsWithOneMore ==
    ASSUME NEW s \in Seq(AnySwap), NEW h \in Seq(AnySwap), NEW ev \in AnySwap,
           NEW last \in Nat, NEW later \in Nat, last <= later, ev.at <= later,
           EndsWith(s, h, last)
    PROVE  /\ EndsWith(TradesAfter(s, ev), Append(h, ev), later)
           /\ Len(TradesAfter(s, ev)) <= TradeCap
  <1>1. PICK all, kept, g : all = Append(s, ev) /\ kept = TradesAfter(s, ev) /\ g = Append(h, ev)
    OBVIOUS
  <1>2. PICK k \in 1 .. Len(all) :
          /\ kept \in Seq(AnySwap) /\ Len(kept) = Len(all) - k + 1 /\ Len(kept) <= TradeCap
          /\ \A j \in 1 .. Len(kept) : kept[j] = all[k - 1 + j]
          /\ \A i \in 1 .. k - 1 : \/ Len(all) - i >= TradeCap
                                   \/ all[i].at < ev.at - TradeWindow
    <2> HIDE DEF TradesAfter
    <2> QED
      BY <1>1, TradesAfterKeeps
  <1>3. PICK d : d = Len(h) - Len(s)
    OBVIOUS
  <1>4. /\ d >= 0
        /\ \A j \in 1 .. Len(s) : s[j] = h[d + j]
        /\ \A i \in 1 .. d : Len(h) - i >= TradeCap \/ h[i].at < last - TradeWindow
    BY <1>3 DEF EndsWith
  <1>5. /\ Len(g) = Len(h) + 1 /\ g[Len(h) + 1] = ev /\ Len(h) \in Nat
        /\ \A i \in 1 .. Len(h) : g[i] = h[i]
    BY <1>1, AppendedElements
  <1>6. /\ Len(all) = Len(s) + 1 /\ all[Len(s) + 1] = ev /\ Len(s) \in Nat
        /\ \A i \in 1 .. Len(s) : all[i] = s[i]
    BY <1>1, AppendedElements
  <1>7. PICK a, b, c : a = Len(s) /\ b = Len(h) /\ c = Len(kept)
    OBVIOUS
  <1>8. /\ a \in Nat /\ b \in Nat /\ c \in Nat /\ d \in Nat /\ k \in 1 .. a + 1
        /\ d = b - a /\ c = a + 2 - k
        /\ Len(g) = b + 1 /\ Len(all) = a + 1
    <2>1. a \in Nat /\ b \in Nat /\ d = b - a /\ Len(g) = b + 1 /\ Len(all) = a + 1
      BY <1>3, <1>5, <1>6, <1>7
    <2>2. k \in 1 .. a + 1 /\ c = a + 1 - k + 1
      BY <1>2, <1>7, <2>1
    <2> QED
      BY <1>4, <2>1, <2>2
  <1>9. TradeCap \in Nat /\ TradeWindow \in Nat /\ ev.at \in Nat
    BY SwapStoreAssumption DEF AnySwap
  <1>10. Len(g) - Len(kept) = d + k - 1
    <2>1. Len(g) - Len(kept) = b + 1 - c
      BY <1>7, <1>8
    <2> QED
      BY <1>8, <2>1
  <1>11. \A j \in 1 .. a + 1 : all[j] = g[d + j]
    <2> SUFFICES ASSUME NEW j \in 1 .. a + 1 PROVE all[j] = g[d + j]
      OBVIOUS
    <2>1. CASE j \in 1 .. a
      <3>1. d + j \in 1 .. b
        BY <1>8, <2>1
      <3>2. all[j] = s[j] /\ s[j] = h[d + j]
        BY <1>4, <1>6, <1>7, <2>1
      <3>3. g[d + j] = h[d + j]
        BY <1>5, <1>7, <3>1
      <3> QED
        BY <3>2, <3>3
    <2>2. CASE j = a + 1
      <3>1. d + j = b + 1
        BY <1>8, <2>2
      <3> QED
        BY <1>5, <1>6, <1>7, <2>2, <3>1
    <2>3. j \in 1 .. a \/ j = a + 1
      BY <1>8
    <2> QED
      BY <2>1, <2>2, <2>3
  <1>12. ASSUME NEW j \in 1 .. Len(kept)
         PROVE  kept[j] = g[Len(g) - Len(kept) + j]
    <2>1. k - 1 + j \in 1 .. a + 1 /\ d + (k - 1 + j) = d + k - 1 + j
      BY <1>7, <1>8
    <2>2. kept[j] = all[k - 1 + j]
      BY <1>2
    <2> QED
      BY <1>10, <1>11, <2>1, <2>2
  <1>13. ASSUME NEW i \in 1 .. d + k - 1
         PROVE  Len(g) - i >= TradeCap \/ g[i].at < later - TradeWindow
    <2>1. CASE i <= d
      <3>1. i \in 1 .. d /\ i \in 1 .. b
        BY <1>8, <2>1
      <3>2. g[i] = h[i] /\ h[i].at \in Nat
        <4>1. h[i] \in AnySwap
          BY <1>7, <3>1
        <4> QED
          BY <1>5, <1>7, <3>1, <4>1 DEF AnySwap
      <3>3. b - i >= TradeCap \/ h[i].at < last - TradeWindow
        BY <1>4, <1>7, <3>1
      <3>4. b - i >= TradeCap => b + 1 - i >= TradeCap
        BY <1>8, <1>9, <3>1
      <3>5. h[i].at < last - TradeWindow => h[i].at < later - TradeWindow
        BY <1>9, <3>2
      <3> QED
        BY <1>8, <3>2, <3>3, <3>4, <3>5
    <2>2. CASE ~(i <= d)
      <3>1. i - d \in 1 .. k - 1 /\ i - d \in 1 .. a + 1 /\ d + (i - d) = i
        BY <1>8, <2>2
      <3>2. all[i - d] = g[i]
        BY <1>11, <3>1
      <3>3. g[i].at \in Nat
        <4>1. all \in Seq(AnySwap)
          BY <1>1
        <4>2. all[i - d] \in AnySwap
          BY <1>8, <3>1, <4>1
        <4> QED
          BY <3>2, <4>2 DEF AnySwap
      <3>4. a + 1 - (i - d) >= TradeCap \/ g[i].at < ev.at - TradeWindow
        BY <1>2, <1>8, <3>1, <3>2
      <3>5. a + 1 - (i - d) = b + 1 - i
        BY <1>8
      <3>6. g[i].at < ev.at - TradeWindow => g[i].at < later - TradeWindow
        BY <1>9, <3>3
      <3> QED
        BY <1>8, <3>4, <3>5, <3>6
    <2> QED
      BY <2>1, <2>2
  <1>14. Len(g) - Len(kept) >= 0
    BY <1>8, <1>10
  <1>15. EndsWith(kept, g, later)
    BY <1>10, <1>12, <1>13, <1>14 DEF EndsWith
  <1> QED
    BY <1>1, <1>2, <1>15

\* The trade history still ends the history, and lacks only what may be dropped.
LEMMA TradesEndStep ==
    ASSUME NEW t \in TokenRecord, Len(t.buys) <= BuyCap, Len(t.sells) <= SellCap,
           NEW h \in Seq(AnySwap), NEW ev \in AnySwap, TradesEnd(t, h)
    PROVE  /\ TradesEnd(Recorded(t, ev), Append(h, ev))
           /\ Len(Recorded(t, ev).trades) <= TradeCap
  <1>1. PICK u : u = Recorded(t, ev)
    OBVIOUS
  <1>2. u.last = Latest(t.last, ev.at) /\ u.trades = TradesAfter(t.trades, ev)
    BY <1>1, RecordedFields
  <1>3. t.last \in Nat /\ ev.at \in Nat /\ t.trades \in Seq(AnySwap)
    BY DEF TokenRecord, AnySwap
  <1>4. u.last \in Nat /\ t.last <= u.last /\ ev.at <= u.last
    BY <1>2, <1>3 DEF Latest
  <1>5. EndsWith(t.trades, h, t.last)
    BY DEF TradesEnd
  <1>6. /\ EndsWith(TradesAfter(t.trades, ev), Append(h, ev), u.last)
        /\ Len(TradesAfter(t.trades, ev)) <= TradeCap
    BY <1>3, <1>4, <1>5, EndsWithOneMore
  <1> QED
    BY <1>1, <1>2, <1>6 DEF TradesEnd

\* A history with one more event keeps it and what the older ones had place for.
LEMMA KeptOfOneMore ==
    ASSUME NEW cap \in Nat \ {0}, NEW b \in Seq(AnySwap), Len(b) <= cap, NEW h \in Seq(AnySwap),
           NEW ev \in AnySwap, NEW S \in SUBSET DOMAIN h, KeptOf(b, h, S, cap)
    PROVE  /\ KeptOf(AppendCapped(b, cap, ev), Append(h, ev), S \cup {Len(h) + 1}, cap)
           /\ KeptOf(b, Append(h, ev), S, cap)
  <1>1. PICK p : PlacedBy(p, b, h, S, cap)
    BY DEF KeptOf
  <1>2. PICK g, last, T : g = Append(h, ev) /\ last = Len(h) + 1 /\ T = S \cup {last}
    OBVIOUS
  <1>3. /\ Len(h) \in Nat /\ DOMAIN h = 1 .. Len(h) /\ last \notin S
        /\ g[last] = ev /\ \A i \in S : g[i] = h[i]
    BY <1>2, AppendedElements
  <1>4. /\ Len(b) \in Nat /\ DOMAIN b = 1 .. Len(b)
        /\ p \in [DOMAIN b -> S] /\ \A j \in DOMAIN b : b[j] = h[p[j]]
        /\ \A j, k \in DOMAIN b : p[j] = p[k] => j = k
        /\ Cardinality(S) <= cap => \A i \in S : \E j \in DOMAIN b : p[j] = i
        /\ Len(b) <= Cardinality(S)
    BY <1>1 DEF PlacedBy
  <1>5. /\ IsFiniteSet(S) /\ Cardinality(S) \in Nat /\ Cardinality(T) = Cardinality(S) + 1
    <2>1. IsFiniteSet(DOMAIN h)
      <3>1. Len(h) \in Int /\ 1 \in Int /\ DOMAIN h = 1 .. Len(h)
        BY <1>3
      <3> QED
        BY <3>1, FS_Interval
    <2>2. IsFiniteSet(S) /\ Cardinality(S) \in Nat
      BY <2>1, FS_Subset, FS_CardinalityType
    <2> QED
      BY <1>2, <1>3, <2>2, FS_AddElement
  <1>6. KeptOf(b, g, S, cap)
    <2>1. \A j \in DOMAIN b : b[j] = g[p[j]]
      BY <1>3, <1>4
    <2>2. PlacedBy(p, b, g, S, cap)
      BY <1>4, <2>1 DEF PlacedBy
    <2> QED
      BY <2>2 DEF KeptOf
  <1>7. PICK kept, gone : /\ kept = AppendCapped(b, cap, ev)
                          /\ gone = IF Len(b) < cap THEN 0 ELSE 1
    OBVIOUS
  <1>8. /\ kept \in Seq(AnySwap) /\ gone \in {0, 1} /\ Len(kept) = Len(b) - gone + 1
        /\ DOMAIN kept = 1 .. Len(kept) /\ kept[Len(kept)] = ev
        /\ \A j \in 1 .. Len(kept) - 1 : kept[j] = b[j + gone]
    <2>1. CASE Len(b) < cap
      <3>1. kept = Append(b, ev) /\ gone = 0
        BY <1>7, <2>1 DEF AppendCapped
      <3> QED
        BY <1>4, <3>1, AppendedElements
    <2>2. CASE ~(Len(b) < cap)
      <3>1. PICK r : r = Tail(b)
        OBVIOUS
      <3>2. b # <<>>
        BY <1>4, <2>2
      <3>3. r \in Seq(AnySwap) /\ Len(r) = Len(b) - 1 /\ \A j \in 1 .. Len(b) - 1 : r[j] = b[j + 1]
        BY <1>4, <3>1, <3>2
      <3>4. kept = Append(r, ev) /\ gone = 1
        BY <1>7, <2>2, <3>1 DEF AppendCapped
      <3>5. /\ kept \in Seq(AnySwap) /\ Len(kept) = Len(r) + 1 /\ kept[Len(r) + 1] = ev
            /\ \A i \in DOMAIN r : kept[i] = r[i]
        BY <3>3, <3>4, AppendedElements
      <3>6. DOMAIN kept = 1 .. Len(kept) /\ DOMAIN r = 1 .. Len(r)
        BY <3>3, <3>5
      <3>7. Len(kept) = Len(b) /\ Len(r) + 1 = Len(b) /\ Len(b) \in Nat
        BY <1>4, <3>3, <3>5
      <3>8. \A j \in 1 .. Len(kept) - 1 : kept[j] = b[j + gone]
        BY <3>3, <3>4, <3>5, <3>6, <3>7
      <3> QED
        BY <3>4, <3>5, <3>6, <3>7, <3>8
    <2> QED
      BY <2>1, <2>2
  <1>9. PICK q : q = [j \in DOMAIN kept |-> IF j = Len(kept) THEN last ELSE p[j + gone]]
    OBVIOUS
  <1>10. \A j \in DOMAIN kept : j # Len(kept) =>
           /\ j \in 1 .. Len(kept) - 1 /\ j + gone \in DOMAIN b
           /\ q[j] = p[j + gone] /\ q[j] \in S /\ q[j] # last
    BY <1>3, <1>4, <1>8, <1>9
  <1>11. Len(kept) \in DOMAIN kept /\ q[Len(kept)] = last
    <2>1. Len(kept) \in DOMAIN kept
      <3>1. Len(b) >= 1 \/ gone = 0
        BY <1>4, <1>7
      <3> QED
        BY <1>4, <1>8, <3>1
    <2> QED
      BY <1>9, <2>1
  <1>12. q \in [DOMAIN kept -> T]
    BY <1>2, <1>9, <1>10, <1>11
  <1>13. ASSUME NEW j \in DOMAIN kept PROVE kept[j] = g[q[j]]
    <2>1. CASE j = Len(kept)
      BY <1>3, <1>8, <1>11, <2>1
    <2>2. CASE j # Len(kept)
      <3>1. kept[j] = b[j + gone] /\ q[j] = p[j + gone] /\ q[j] \in S /\ j + gone \in DOMAIN b
        BY <1>8, <1>10, <2>2
      <3> QED
        BY <1>3, <1>4, <3>1
    <2> QED
      BY <2>1, <2>2
  <1>14. ASSUME NEW j \in DOMAIN kept, NEW k \in DOMAIN kept, q[j] = q[k] PROVE j = k
    <2>1. CASE j # Len(kept) /\ k # Len(kept)
      <3>1. j + gone = k + gone
        BY <1>4, <1>10, <1>14, <2>1
      <3> QED
        BY <1>8, <3>1
    <2>2. CASE j = Len(kept) \/ k = Len(kept)
      BY <1>10, <1>11, <1>14, <2>2
    <2> QED
      BY <2>1, <2>2
  <1>15. ASSUME Cardinality(T) <= cap, NEW i \in T PROVE \E j \in DOMAIN kept : q[j] = i
    <2>1. gone = 0
      BY <1>4, <1>5, <1>7, <1>15
    <2>2. CASE i = last
      BY <1>11, <2>2
    <2>3. CASE i \in S
      <3>1. PICK j \in DOMAIN b : p[j] = i
        BY <1>4, <1>5, <1>15, <2>3
      <3>2. j \in DOMAIN kept /\ j # Len(kept)
        BY <1>4, <1>8, <2>1
      <3> QED
        BY <1>10, <2>1, <3>1, <3>2
    <2> QED
      BY <1>2, <2>2, <2>3
  <1>16. Len(kept) <= Cardinality(T)
    BY <1>4, <1>5, <1>8
  <1>17. PlacedBy(q, kept, g, T, cap)
    BY <1>12, <1>13, <1>14, <1>15, <1>16 DEF PlacedBy
  <1> QED
    BY <1>2, <1>6, <1>7, <1>17 DEF KeptOf

\* Both histories still have all events of their side, up to their caps.
LEMMA SidesKeptStep ==
    ASSUME NEW t \in TokenRecord, Len(t.buys) <= BuyCap, Len(t.sells) <= SellCap,
           NEW h \in Seq(AnySwap), NEW ev \in AnySwap, SidesKept(t, h)
    PROVE  /\ SidesKept(Recorded(t, ev), Append(h, ev))
           /\ Len(Recorded(t, ev).buys) <= BuyCap /\ Len(Recorded(t, ev).sells) <= SellCap
  <1>1. PICK u, g : u = Recorded(t, ev) /\ g = Append(h, ev)
    OBVIOUS
  <1>2. /\ ev.isBuy => u.buys = AppendCapped(t.buys, BuyCap, ev) /\ u.sells = t.sells
        /\ ~ev.isBuy => u.buys = t.buys /\ u.sells = AppendCapped(t.sells, SellCap, ev)
    BY <1>1, RecordedFields
  <1>3. t.buys \in Seq(AnySwap) /\ t.sells \in Seq(AnySwap)
    BY DEF TokenRecord
  <1>4. BuyCap \in Nat \ {0} /\ SellCap \in Nat \ {0}
    BY SwapStoreAssumption
  <1>5. /\ KeptOf(t.buys, h, BuysOf(h), BuyCap) /\ KeptOf(t.sells, h, SellsOf(h), SellCap)
        /\ BuysOf(h) \in SUBSET DOMAIN h /\ SellsOf(h) \in SUBSET DOMAIN h
    BY DEF SidesKept, BuysOf, SellsOf
  <1>6. /\ ev.isBuy => BuysOf(g) = BuysOf(h) \cup {Len(h) + 1} /\ SellsOf(g) = SellsOf(h)
        /\ ~ev.isBuy => SellsOf(g) = SellsOf(h) \cup {Len(h) + 1} /\ BuysOf(g) = BuysOf(h)
    <2>1. Len(g) = Len(h) + 1
      BY <1>1, AppendedElements
    <2> QED
      BY <1>1, <2>1, SidesAfter
  <1>7. /\ KeptOf(AppendCapped(t.buys, BuyCap, ev), g, BuysOf(h) \cup {Len(h) + 1}, BuyCap)
        /\ KeptOf(t.buys, g, BuysOf(h), BuyCap)
    BY <1>1, <1>3, <1>4, <1>5, KeptOfOneMore
  <1>8. /\ KeptOf(AppendCapped(t.sells, SellCap, ev), g, SellsOf(h) \cup {Len(h) + 1}, SellCap)
        /\ KeptOf(t.sells, g, SellsOf(h), SellCap)
    BY <1>1, <1>3, <1>4, <1>5, KeptOfOneMore
  <1>9. SidesKept(u, g)
    BY <1>2, <1>6, <1>7, <1>8 DEF SidesKept
  <1>10. Len(u.buys) <= BuyCap /\ Len(u.sells) <= SellCap
    <2>1. Len(AppendCapped(t.buys, BuyCap, ev)) <= BuyCap
      BY <1>3, <1>4, AppendCappedKeeps DEF Keeps
    <2>2. Len(AppendCapped(t.sells, SellCap, ev)) <= SellCap
      BY <1>3, <1>4, AppendCappedKeeps DEF Keeps
    <2> QED
      BY <1>2, <2>1, <2>2
  <1> QED
    BY <1>1, <1>9, <1>10

\* Block times that arrive late make a token older, never younger, and the 60
\* minute mark comes after the 30 minute one.
LEMMA MarkedStep ==
    ASSUME now \in Nat,
           NEW t \in TokenRecord, Len(t.buys) <= BuyCap, Len(t.sells) <= SellCap,
           NEW ev \in AnySwap, Marked(t, now)
    PROVE  Marked(Recorded(t, ev), now)
  <1>1. PICK u : u = Recorded(t, ev)
    OBVIOUS
  <1>2. /\ u.first = Earliest(t.first, ev.at)
        /\ t.snapped30 => u.snapped30
        /\ now - u.first >= Snap30 => u.snapped30
        /\ u.snapped30 => t.snapped30 \/ now - u.first >= Snap30
        /\ t.snapped60 => u.snapped60
        /\ u.snapped60 => t.snapped60 \/ now - u.first >= Snap60
        /\ ~u.snapped60 => u.holders60 = t.holders60 /\ u.winners = t.winners
    BY <1>1, RecordedFields
  <1>3. /\ t.first \in Nat /\ ev.at \in Nat
        /\ Snap30 \in Nat /\ Snap60 \in Nat /\ Snap30 < Snap60
    BY SwapStoreAssumption DEF TokenRecord, AnySwap
  <1>4. u.first \in Nat /\ u.first <= t.first
    BY <1>2, <1>3 DEF Earliest
  <1>5. u.snapped30 => now - u.first >= Snap30
    BY <1>2, <1>3, <1>4 DEF Marked
  <1>6. u.snapped60 => now - u.first >= Snap60
    BY <1>2, <1>3, <1>4 DEF Marked
  <1>7. u.snapped60 => u.snapped30
    BY <1>2, <1>3, <1>4, <1>6
  <1>8. ~u.snapped60 => u.winners = 0 /\ u.holders60 = 0
    BY <1>2 DEF Marked
  <1> QED
    BY <1>1, <1>5, <1>6, <1>7, <1>8 DEF Marked

\* Apply: what it makes of a record is what one more event makes of it.
LEMMA MadeStep ==
    ASSUME now \in Nat, NEW t, NEW h \in Seq(AnySwap), NEW ev \in AnySwap, Made(t, h, now),
           Spanned(t, h) \/ (t.first = ev.at /\ t.last = ev.at)
    PROVE  /\ Made(Recorded(t, ev), Append(h, ev), now) /\ Spanned(Recorded(t, ev), Append(h, ev))
           /\ Recorded(t, ev) \in TokenRecord
  <1>1. /\ t \in TokenRecord /\ Len(t.buys) <= BuyCap /\ Len(t.sells) <= SellCap /\ t.depth >= -1
        /\ Counted(t, h) /\ Summed(t, h) /\ TradesEnd(t, h) /\ SidesKept(t, h) /\ Marked(t, now)
    BY DEF Made, TokenType
  <1>2. Counted(Recorded(t, ev), Append(h, ev))
    BY <1>1, CountedStep
  <1>3. TradesEnd(Recorded(t, ev), Append(h, ev)) /\ Len(Recorded(t, ev).trades) <= TradeCap
    BY <1>1, TradesEndStep
  <1>4. /\ SidesKept(Recorded(t, ev), Append(h, ev))
        /\ Len(Recorded(t, ev).buys) <= BuyCap /\ Len(Recorded(t, ev).sells) <= SellCap
    BY <1>1, SidesKeptStep
  <1>5. Marked(Recorded(t, ev), now)
    BY <1>1, MarkedStep
  <1>6. Spanned(Recorded(t, ev), Append(h, ev))
    BY <1>1, SpannedStep
  <1>7. Recorded(t, ev) \in TokenRecord /\ Recorded(t, ev).depth = t.depth
    BY <1>1, RecordedFields
  <1>9. Summed(Recorded(t, ev), Append(h, ev))
    BY <1>1, SummedStep
  <1>8. TokenType(Recorded(t, ev))
    BY <1>1, <1>3, <1>4, <1>7 DEF TokenType
  <1> QED
    BY <1>2, <1>3, <1>4, <1>5, <1>6, <1>7, <1>8, <1>9 DEF Made

\* newTokenState: a record no event has been applied to.
LEMMA NewTokenMade ==
    ASSUME NEW ev \in AnySwap
    PROVE  /\ Made(NewToken(ev), <<>>, now)
           /\ NewToken(ev).first = ev.at /\ NewToken(ev).last = ev.at
  <1>1. PICK t : t = NewToken(ev)
    OBVIOUS
  <1>2. ev.at \in Nat
    BY DEF AnySwap
  <1>3. t \in TokenRecord
    BY <1>1, <1>2 DEF NewToken, TokenRecord
  <1>4. /\ t.first = ev.at /\ t.last = ev.at /\ t.total = 0 /\ t.sellTrades = 0
        /\ t.firstBuy = [w \in Wallet |-> Never]
        /\ t.buys = <<>> /\ t.sells = <<>> /\ t.trades = <<>>
        /\ t.snapped30 = FALSE /\ t.snapped60 = FALSE /\ t.winners = 0 /\ t.holders60 = 0
        /\ t.net = [w \in Wallet |-> 0] /\ t.spent = [w \in Wallet |-> 0]
        /\ t.earned = [w \in Wallet |-> 0]
        /\ t.depth = -1
    BY <1>1 DEF NewToken
  <1>5. TokenType(t)
    BY <1>3, <1>4, SwapStoreAssumption DEF TokenType
  <1>6. BuysOf(<<>>) = {} /\ SellsOf(<<>>) = {} /\ Cardinality({}) = 0 /\ Len(<<>>) = 0
        /\ DOMAIN <<>> = {}
    BY FS_EmptySet DEF BuysOf, SellsOf
  <1>7. Counted(t, <<>>)
    BY <1>4, <1>6 DEF Counted
  <1>8. TradesEnd(t, <<>>)
    BY <1>4, <1>6 DEF TradesEnd, EndsWith
  <1>9. SidesKept(t, <<>>)
    <2>1. ASSUME NEW cap PROVE KeptOf(<<>>, <<>>, {}, cap)
      <3>1. PICK p : p = [j \in {} |-> j]
        OBVIOUS
      <3>2. DOMAIN <<>> = {} /\ p \in [{} -> {}] /\ Len(<<>>) <= Cardinality({})
        BY <1>6, <3>1
      <3>3. PlacedBy(p, <<>>, <<>>, {}, cap)
        BY <3>2 DEF PlacedBy
      <3> QED
        BY <3>3 DEF KeptOf
    <2> QED
      BY <1>4, <1>6, <2>1 DEF SidesKept
  <1>10. Marked(t, now)
    BY <1>4 DEF Marked
  <1>11. Summed(t, <<>>)
    <2>1. \A w, isBuy : SwapsBy(<<>>, w, isBuy) = {}
      BY <1>6 DEF SwapsBy
    <2>2. TotalSol(<<>>, {}) = 0 /\ TotalQty(<<>>, {}) = 0
      BY SumOfNone DEF TotalSol, TotalQty
    <2>3. \A w \in Wallet : t.spent[w] = 0 /\ t.earned[w] = 0 /\ t.net[w] = 0
      BY <1>4
    <2> SUFFICES ASSUME NEW w \in Wallet
                 PROVE  /\ t.spent[w] = TotalSol(<<>>, SwapsBy(<<>>, w, TRUE))
                        /\ t.earned[w] = TotalSol(<<>>, SwapsBy(<<>>, w, FALSE))
                        /\ t.net[w] = TotalQty(<<>>, SwapsBy(<<>>, w, TRUE))
                                         - TotalQty(<<>>, SwapsBy(<<>>, w, FALSE))
      BY DEF Summed
    <2>4. SwapsBy(<<>>, w, TRUE) = {} /\ SwapsBy(<<>>, w, FALSE) = {}
      BY <2>1
    <2>5. 0 - 0 = 0
      OBVIOUS
    <2> QED
      BY <2>2, <2>3, <2>4, <2>5
  <1> QED
    BY <1>1, <1>4, <1>5, <1>7, <1>8, <1>9, <1>10, <1>11 DEF Made

-----------------------------------------------------------------------------
(* Every method of the store keeps the invariant.                          *)

\* An empty store.
LEMMA StoreInitInv == StoreInit => StoreInv
  <1> SUFFICES ASSUME StoreInit PROVE StoreInv
    OBVIOUS
  <1>1. RingInv /\ now \in Nat
    BY RingInitInv DEF StoreInit
  <1>2. tokens \in [Mint -> TokenRecord \cup {NoToken}] /\ hist \in [Mint -> Seq(AnySwap)]
    BY DEF StoreInit
  <1>3. \A mint \in Mint : Sound(tokens[mint], hist[mint], now)
    BY DEF StoreInit, Sound
  <1> QED
    BY <1>1, <1>2, <1>3 DEF StoreInv

\* Apply, of an event the ring has not seen.
LEMMA ApplyNewInv ==
    ASSUME StoreInv, RingInv', NEW ev \in SwapEvent, ApplyNew(ev)
    PROVE  StoreInv'
  <1>1. PICK mint, t, h, u, g :
          /\ mint = ev.mint /\ t = RecordOf(ev) /\ h = hist[mint]
          /\ u = Recorded(t, ev) /\ g = Append(h, ev)
    OBVIOUS
  <1>2. now \in Nat /\ now' = now /\ now' \in Nat
    BY DEF StoreInv, ApplyNew
  <1>3. ev \in AnySwap /\ mint \in Mint
    BY <1>1 DEF SwapEvent, AnySwap
  <1>4. /\ tokens \in [Mint -> TokenRecord \cup {NoToken}] /\ hist \in [Mint -> Seq(AnySwap)]
        /\ \A a \in Mint : Sound(tokens[a], hist[a], now)
    BY DEF StoreInv
  <1>5. tokens' = [tokens EXCEPT ![mint] = u] /\ hist' = [hist EXCEPT ![mint] = g]
    BY <1>1, <1>3, <1>4 DEF ApplyNew, Updated
  <1>6. h \in Seq(AnySwap)
    BY <1>1, <1>3, <1>4
  <1>7. Made(t, h, now) /\ (Spanned(t, h) \/ (t.first = ev.at /\ t.last = ev.at))
    <2>1. Sound(tokens[mint], h, now)
      BY <1>1, <1>3, <1>4
    <2>2. CASE Live(mint)
      <3>1. t = tokens[mint] /\ t # NoToken
        BY <1>1, <2>2 DEF Live, RecordOf
      <3>2. Sound(t, h, now)
        BY <2>1, <3>1
      <3> QED
        BY <3>1, <3>2 DEF Sound
    <2>3. CASE ~Live(mint)
      <3>1. h = <<>> /\ t = NewToken(ev)
        BY <1>1, <2>1, <2>3 DEF Live, RecordOf, Sound
      <3> QED
        BY <1>3, <3>1, NewTokenMade
    <2> QED
      BY <2>2, <2>3
  <1>8. Made(u, g, now) /\ Spanned(u, g) /\ u \in TokenRecord
    BY <1>1, <1>2, <1>3, <1>6, <1>7, MadeStep
  <1>9. g \in Seq(AnySwap) /\ Sound(u, g, now)
    BY <1>1, <1>3, <1>6, <1>8, NoTokenAssumption DEF Sound
  <1>10. /\ tokens' \in [Mint -> TokenRecord \cup {NoToken}] /\ hist' \in [Mint -> Seq(AnySwap)]
         /\ \A a \in Mint : Sound(tokens'[a], hist'[a], now)
    BY <1>3, <1>4, <1>5, <1>8, <1>9
  <1> QED
    BY <1>2, <1>10 DEF StoreInv

\* Pruned records leave no history, the others are left alone.
LEMMA PruneStaleInv ==
    ASSUME StoreInv, RingInv', PruneStale
    PROVE  StoreInv'
  <1>1. now \in Nat /\ now' = now /\ now' \in Nat
    BY DEF StoreInv, PruneStale
  <1>2. ASSUME NEW a \in Mint
        PROVE  /\ tokens'[a] \in TokenRecord \cup {NoToken} /\ hist'[a] \in Seq(AnySwap)
               /\ Sound(tokens'[a], hist'[a], now)
    <2>1. Sound(tokens[a], hist[a], now)
      BY DEF StoreInv
    <2>2. CASE Stale(a)
      BY <2>2 DEF PruneStale, Sound
    <2>3. CASE ~Stale(a)
      BY <2>1, <2>3 DEF PruneStale, StoreInv
    <2> QED
      BY <2>2, <2>3
  <1>3. tokens' = [a \in Mint |-> tokens'[a]] /\ hist' = [a \in Mint |-> hist'[a]]
    BY DEF PruneStale
  <1>4. tokens' \in [Mint -> TokenRecord \cup {NoToken}] /\ hist' \in [Mint -> Seq(AnySwap)]
    BY <1>2, <1>3
  <1> QED
    BY <1>1, <1>2, <1>4 DEF StoreInv

\* A depth is written to a record, and nothing else of it changes.
LEMMA UpdateDepthInv ==
    ASSUME StoreInv, RingInv', NEW mint \in Mint, NEW d \in Int, UpdateDepth(mint, d)
    PROVE  StoreInv'
  <1>1. now \in Nat /\ now' = now /\ now' \in Nat /\ hist' = hist /\ d >= 0 /\ d \in Int
    BY DEF StoreInv, UpdateDepth
  <1>2. PICK t, u : t = tokens[mint] /\ u = [t EXCEPT !.depth = d]
    OBVIOUS
  <1>3. /\ tokens \in [Mint -> TokenRecord \cup {NoToken}] /\ hist \in [Mint -> Seq(AnySwap)]
        /\ \A a \in Mint : Sound(tokens[a], hist[a], now)
    BY DEF StoreInv
  <1>4. tokens' = [tokens EXCEPT ![mint] = u]
    BY <1>2, <1>3 DEF UpdateDepth
  <1>5. Made(t, hist[mint], now) /\ Spanned(t, hist[mint]) /\ t \in TokenRecord
    BY <1>2, <1>3 DEF UpdateDepth, Live, Sound
  <1>6. /\ u \in TokenRecord /\ u.depth = d
        /\ u.first = t.first /\ u.last = t.last /\ u.total = t.total /\ u.trades = t.trades
        /\ u.buys = t.buys /\ u.sells = t.sells
        /\ u.sellTrades = t.sellTrades /\ u.firstBuy = t.firstBuy
        /\ u.net = t.net /\ u.spent = t.spent /\ u.earned = t.earned
        /\ u.snapped30 = t.snapped30 /\ u.snapped60 = t.snapped60
        /\ u.holders60 = t.holders60 /\ u.winners = t.winners
    BY <1>1, <1>2, <1>5 DEF TokenRecord
  <1>7. TokenType(u) /\ Counted(u, hist[mint]) /\ TradesEnd(u, hist[mint])
    BY <1>1, <1>5, <1>6 DEF Made, TokenType, Counted, TradesEnd
  <1>8. Summed(u, hist[mint]) /\ SidesKept(u, hist[mint]) /\ Marked(u, now)
    BY <1>5, <1>6 DEF Made, Summed, SidesKept, Marked
  <1>9. Sound(u, hist[mint], now)
    BY <1>5, <1>6, <1>7, <1>8, NoTokenAssumption DEF Made, Spanned, Sound
  <1>10. /\ tokens' \in [Mint -> TokenRecord \cup {NoToken}] /\ hist' \in [Mint -> Seq(AnySwap)]
         /\ \A a \in Mint : Sound(tokens'[a], hist'[a], now)
    BY <1>1, <1>3, <1>4, <1>6, <1>9
  <1> QED
    BY <1>1, <1>10 DEF StoreInv

\* The store forgets everything.
LEMMA ResetInv ==
    ASSUME StoreInv, RingInv', Reset
    PROVE  StoreInv'
  <1>1. now' \in Nat
    BY DEF StoreInv, Reset
  <1>2. tokens' \in [Mint -> TokenRecord \cup {NoToken}] /\ hist' \in [Mint -> Seq(AnySwap)]
    BY DEF Reset
  <1>3. \A a \in Mint : Sound(tokens'[a], hist'[a], now')
    BY DEF Reset, Sound
  <1> QED
    BY <1>1, <1>2, <1>3 DEF StoreInv

\* A token past a mark stays past it.
LEMMA TimePassesInv ==
    ASSUME StoreInv, RingInv', NEW d \in Nat, now' = now + d, UNCHANGED <<tokens, hist>>
    PROVE  StoreInv'
  <1>1. now \in Nat /\ now' = now + d /\ now' \in Nat /\ tokens' = tokens /\ hist' = hist
    BY DEF StoreInv
  <1>2. ASSUME NEW a \in Mint
        PROVE  Sound(tokens[a], hist[a], now')
    <2>1. tokens[a] \in TokenRecord \cup {NoToken} /\ Sound(tokens[a], hist[a], now)
      BY DEF StoreInv
    <2>2. CASE tokens[a] = NoToken
      BY <2>1, <2>2 DEF Sound
    <2>3. CASE tokens[a] # NoToken
      <3>1. PICK t : t = tokens[a]
        OBVIOUS
      <3>2. Made(t, hist[a], now) /\ t \in TokenRecord
        BY <2>1, <2>3, <3>1 DEF Sound
      <3>3. t.first \in Nat /\ Snap30 \in Nat /\ Snap60 \in Nat
        BY <3>2, SwapStoreAssumption DEF TokenRecord
      <3>4. Marked(t, now')
        BY <1>1, <3>2, <3>3 DEF Made, Marked
      <3> QED
        BY <2>1, <2>3, <3>1, <3>2, <3>4 DEF Made, Sound
    <2> QED
      BY <2>2, <2>3
  <1>3. tokens' \in [Mint -> TokenRecord \cup {NoToken}] /\ hist' \in [Mint -> Seq(AnySwap)]
    BY <1>1 DEF StoreInv
  <1> QED
    BY <1>1, <1>2, <1>3 DEF StoreInv

\* Every step keeps the invariant.
LEMMA StoreStepInv == StoreInv /\ [StoreNext]_vars => StoreInv'
  <1> SUFFICES ASSUME StoreInv, [StoreNext]_vars PROVE StoreInv'
    OBVIOUS
  <1>1. RingInv'
    BY StoreStepOnRing, RingStepInv DEF StoreInv
  <1>2. ASSUME NEW ev \in SwapEvent, Apply(ev) PROVE StoreInv'
    <2>1. CASE ApplyDuplicate(ev)
      BY <2>1, <1>1 DEF ApplyDuplicate, vars, StoreInv
    <2>2. CASE ApplyNew(ev)
      BY <1>1, <2>2, ApplyNewInv
    <2> QED
      BY <1>2, <2>1, <2>2 DEF Apply
  <1>3. CASE PruneStale
    BY <1>1, <1>3, PruneStaleInv
  <1>4. ASSUME NEW mint \in Mint, NEW d \in {-1, 0, 1}, UpdateDepth(mint, d)
        PROVE  StoreInv'
    BY <1>1, <1>4, UpdateDepthInv
  <1>5. CASE Reset
    BY <1>1, <1>5, ResetInv
  <1>6. CASE Tick
    BY <1>1, <1>6, TimePassesInv DEF Tick
  <1>7. CASE UNCHANGED vars
    BY <1>1, <1>7 DEF vars, StoreInv
  <1> QED
    BY <1>2, <1>3, <1>4, <1>5, <1>6, <1>7 DEF StoreNext

-----------------------------------------------------------------------------
(* What follows.                                                           *)

\* Whatever order events arrive in, a live token's record is made of exactly the
\* events applied since it was created: its counters count them, its times are
\* the earliest and latest of theirs, its histories are parts of them.
THEOREM StoreInvariant == StoreSpec => []StoreInv
  <1> QED
    BY StoreInitInv, StoreStepInv, PTL DEF StoreSpec

\* The memory bounds of the package comment: no token's histories outgrow
\* their capacities, whatever is applied.
THEOREM StoreTypes == StoreSpec => []StoreTypeOK
  <1>1. StoreInv => StoreTypeOK
    <2> SUFFICES ASSUME StoreInv PROVE StoreTypeOK
      OBVIOUS
    <2>1. \A mint \in Mint : Live(mint) => TokenType(tokens[mint])
      BY DEF StoreInv, Sound, Made, Live
    <2> QED
      BY <2>1 DEF StoreInv, RingInv, StoreTypeOK
  <1> QED
    BY <1>1, StoreInvariant, PTL

\* The two marks of Gate 6 come in order and none early, though an older event
\* may arrive after either and change the token's age.
THEOREM SnapshotsOrdered == StoreSpec => []SnapshotsInOrder
  <1>1. StoreInv => SnapshotsInOrder
    BY DEF StoreInv, Sound, Made, Marked, Live, SnapshotsInOrder
  <1> QED
    BY <1>1, StoreInvariant, PTL

\* appendTradeEvent gives up only what is past the window or the bound.
THEOREM TradesKept == StoreSpec => []RecentTradesKept
  <1>1. StoreInv => RecentTradesKept
    <2> SUFFICES ASSUME StoreInv, NEW mint \in Mint, Live(mint),
                        NEW i \in DOMAIN hist[mint],
                        Len(hist[mint]) - i < TradeCap,
                        hist[mint][i].at >= tokens[mint].last - TradeWindow
                 PROVE  /\ i > Len(hist[mint]) - Len(tokens[mint].trades)
                        /\ tokens[mint].trades[i - (Len(hist[mint]) - Len(tokens[mint].trades))]
                             = hist[mint][i]
      BY DEF RecentTradesKept
    <2>1. PICK t, h, s : t = tokens[mint] /\ h = hist[mint] /\ s = t.trades
      OBVIOUS
    <2>2. h \in Seq(AnySwap) /\ t \in TokenRecord /\ EndsWith(s, h, t.last)
      BY <2>1 DEF StoreInv, Sound, Made, TokenType, TradesEnd, Live
    <2>3. s \in Seq(AnySwap) /\ t.last \in Nat
      BY <2>1, <2>2 DEF TokenRecord
    <2>4. i \in 1 .. Len(h) /\ Len(h) \in Nat /\ Len(s) \in Nat /\ h[i].at \in Nat
      <3>1. h[i] \in AnySwap
        BY <2>1, <2>2
      <3> QED
        BY <2>1, <2>2, <2>3, <3>1 DEF AnySwap
    <2>5. PICK d : d = Len(h) - Len(s)
      OBVIOUS
    <2>6. d \in Nat /\ Len(h) = d + Len(s)
      BY <2>2, <2>4, <2>5 DEF EndsWith
    <2>7. ~(Len(h) - i >= TradeCap) /\ ~(h[i].at < t.last - TradeWindow)
      <3>1. TradeCap \in Nat /\ TradeWindow \in Nat
        BY SwapStoreAssumption
      <3>2. Len(h) - i < TradeCap /\ h[i].at >= t.last - TradeWindow
        BY <2>1
      <3>3. Len(h) - i \in Int /\ h[i].at \in Int /\ t.last - TradeWindow \in Int
        BY <2>3, <2>4, <3>1
      <3> QED
        BY <3>1, <3>2, <3>3, SMTT(30)
    <2>8. i \notin 1 .. d
      BY <2>2, <2>5, <2>7 DEF EndsWith
    <2>9. i > d /\ i - d \in 1 .. Len(s) /\ d + (i - d) = i
      BY <2>4, <2>6, <2>8
    <2>10. s[i - d] = h[i]
      BY <2>2, <2>5, <2>9 DEF EndsWith
    <2> QED
      BY <2>1, <2>5, <2>9, <2>10
  <1> QED
    BY <1>1, StoreInvariant, PTL

\* The windows over the buy history see only buyers, and all of them while the
\* token has had no more than BuyCap buys.
THEOREM WindowsExact == StoreSpec => []WindowsExactUntilCap
  <1>1. StoreInv => WindowsExactUntilCap
    <2> SUFFICES ASSUME StoreInv, NEW mint \in Mint, Live(mint),
                        NEW window \in 1 .. StaleAfter
                 PROVE  /\ BuyersInWindow(tokens[mint].buys, window)
                              \subseteq BuyersInWindow(hist[mint], window)
                        /\ Cardinality(BuysOf(hist[mint])) <= BuyCap =>
                             BuyersInWindow(tokens[mint].buys, window)
                               = BuyersInWindow(hist[mint], window)
      BY DEF WindowsExactUntilCap, BuysOf
    <2>1. PICK b, h : b = tokens[mint].buys /\ h = hist[mint]
      OBVIOUS
    <2>2. PICK p : PlacedBy(p, b, h, BuysOf(h), BuyCap)
      BY <2>1 DEF StoreInv, Sound, Made, SidesKept, KeptOf, Live
    <2>3. \A i \in BuysOf(h) : i \in DOMAIN h /\ h[i].isBuy
      BY DEF BuysOf
    <2>4. \A j \in DOMAIN b : \E i \in BuysOf(h) : b[j] = h[i]
      BY <2>2 DEF PlacedBy
    <2>5. BuyersInWindow(b, window) \subseteq BuyersInWindow(h, window)
      BY <2>3, <2>4 DEF BuyersInWindow
    <2>6. ASSUME Cardinality(BuysOf(h)) <= BuyCap
          PROVE  BuyersInWindow(h, window) \subseteq BuyersInWindow(b, window)
      <3>1. \A i \in BuysOf(h) : \E j \in DOMAIN b : b[j] = h[i]
        BY <2>2, <2>6 DEF PlacedBy
      <3>2. \A i \in DOMAIN h : h[i].isBuy => \E j \in DOMAIN b : b[j] = h[i]
        BY <3>1 DEF BuysOf
      <3> QED
        BY <3>2 DEF BuyersInWindow
    <2> QED
      BY <2>1, <2>5, <2>6
  <1> QED
    BY <1>1, StoreInvariant, PTL

\* A step gives up no holder snapshot of a token it does not forget.
LEMMA SnapshotsStep ==
    ASSUME StoreInv, [StoreNext]_vars, NEW mint \in Mint,
           tokens[mint] # NoToken, tokens'[mint] # NoToken, tokens[mint].snapped30
    PROVE  /\ tokens'[mint].snapped30 /\ tokens'[mint].holders30 = tokens[mint].holders30
           /\ tokens[mint].snapped60 =>
                /\ tokens'[mint].snapped60 /\ tokens'[mint].holders60 = tokens[mint].holders60
                /\ tokens'[mint].winners = tokens[mint].winners
  <1>1. /\ tokens \in [Mint -> TokenRecord \cup {NoToken}]
        /\ Made(tokens[mint], hist[mint], now)
    BY DEF StoreInv, Sound
  <1>2. CASE tokens'[mint] = tokens[mint]
    BY <1>2
  <1>3. ASSUME NEW ev \in SwapEvent, ApplyNew(ev), ev.mint = mint
        PROVE  /\ tokens'[mint].snapped30 /\ tokens'[mint].holders30 = tokens[mint].holders30
               /\ tokens[mint].snapped60 =>
                    /\ tokens'[mint].snapped60 /\ tokens'[mint].holders60 = tokens[mint].holders60
                    /\ tokens'[mint].winners = tokens[mint].winners
    <2>1. PICK t : t = tokens[mint]
      OBVIOUS
    <2>2. ev \in AnySwap
      BY DEF SwapEvent, AnySwap, StoreInv
    <2>3. t \in TokenRecord /\ Len(t.buys) <= BuyCap /\ Len(t.sells) <= SellCap
      BY <1>1, <2>1 DEF Made, TokenType
    <2>4. tokens'[mint] = Recorded(t, ev)
      BY <1>1, <1>3, <2>1 DEF ApplyNew, Updated, RecordOf, Live
    <2>5. PICK u : u = Recorded(t, ev)
      OBVIOUS
    <2>6. /\ t.snapped30 => u.snapped30 /\ u.holders30 = t.holders30
          /\ t.snapped60 => u.snapped60 /\ u.holders60 = t.holders60 /\ u.winners = t.winners
      BY <2>2, <2>3, <2>5, RecordedFields
    <2> QED
      BY <2>1, <2>4, <2>5, <2>6
  <1>4. ASSUME NEW ev \in SwapEvent, ApplyNew(ev), ev.mint # mint
        PROVE  tokens'[mint] = tokens[mint]
    BY <1>1, <1>4 DEF ApplyNew
  <1>5. ASSUME NEW ev \in SwapEvent, ApplyDuplicate(ev)
        PROVE  tokens'[mint] = tokens[mint]
    BY <1>5 DEF ApplyDuplicate, vars
  <1>6. CASE PruneStale
    BY <1>6, <1>2 DEF PruneStale
  <1>7. ASSUME NEW a \in Mint, NEW d \in {-1, 0, 1}, UpdateDepth(a, d)
        PROVE  /\ tokens'[mint].snapped30 /\ tokens'[mint].holders30 = tokens[mint].holders30
               /\ tokens[mint].snapped60 =>
                    /\ tokens'[mint].snapped60 /\ tokens'[mint].holders60 = tokens[mint].holders60
                    /\ tokens'[mint].winners = tokens[mint].winners
    <2>1. CASE a # mint
      BY <1>1, <1>2, <1>7, <2>1 DEF UpdateDepth
    <2>2. CASE a = mint
      <3>1. PICK t : t = tokens[mint]
        OBVIOUS
      <3>2. t \in TokenRecord
        BY <1>1, <3>1 DEF Made, TokenType
      <3>3. tokens'[mint] = [t EXCEPT !.depth = d]
        BY <1>1, <1>7, <2>2, <3>1 DEF UpdateDepth
      <3> QED
        BY <3>1, <3>2, <3>3 DEF TokenRecord
    <2> QED
      BY <2>1, <2>2
  <1>8. CASE Reset
    BY <1>8 DEF Reset
  <1>9. CASE Tick
    BY <1>2, <1>9 DEF Tick
  <1>10. CASE UNCHANGED vars
    BY <1>2, <1>10 DEF vars
  <1> QED
    BY <1>2, <1>3, <1>4, <1>5, <1>6, <1>7, <1>8, <1>9, <1>10 DEF StoreNext, Apply

\* No late delivery, duplicate or depth update rewrites the evidence of Gate 6.
THEOREM SnapshotsStay == StoreSpec => SnapshotsFrozen
  <1>1. StoreInv /\ [StoreNext]_vars =>
          [\A mint \in Mint :
             LET t == tokens[mint]  u == tokens'[mint]
             IN  t # NoToken /\ u # NoToken /\ t.snapped30 =>
                   /\ u.snapped30 /\ u.holders30 = t.holders30
                   /\ t.snapped60 => /\ u.snapped60 /\ u.holders60 = t.holders60
                                     /\ u.winners = t.winners]_vars
    BY SnapshotsStep
  <1> QED
    BY <1>1, StoreInvariant, PTL DEF StoreSpec, SnapshotsFrozen

\* PruneStale goes by the last block time, and no event applied is later: a
\* token with a recent event stays until Reset.
THEOREM OnlyIdleDropped == StoreSpec => OnlyIdlePruned
  <1>1. ASSUME StoreInv, [StoreNext]_vars, NEW mint \in Mint, Live(mint), tokens'[mint] = NoToken
        PROVE  Reset \/ \A i \in DOMAIN hist[mint] : hist[mint][i].at < now - StaleAfter
    <2>1. /\ tokens \in [Mint -> TokenRecord \cup {NoToken}] /\ hist[mint] \in Seq(AnySwap)
          /\ tokens[mint] \in TokenRecord /\ tokens[mint] # NoToken
          /\ Counted(tokens[mint], hist[mint]) /\ now \in Nat
      BY <1>1 DEF StoreInv, Sound, Made, Live
    <2>2. ASSUME NEW ev \in SwapEvent, ApplyNew(ev) PROVE FALSE
      <3>1. StoreInv'
        BY <1>1, StoreStepInv
      <3>2. tokens' = [tokens EXCEPT ![ev.mint] = Updated(ev)]
            /\ hist' = [hist EXCEPT ![ev.mint] = Append(@, ev)]
        BY <2>2 DEF ApplyNew
      <3>3. CASE ev.mint # mint
        BY <1>1, <2>1, <3>2, <3>3 DEF Live
      <3>4. CASE ev.mint = mint
        <4>1. hist'[mint] = Append(hist[mint], ev)
          BY <1>1, <3>2, <3>4 DEF StoreInv
        <4>2. hist'[mint] = <<>>
          BY <1>1, <3>1 DEF StoreInv, Sound
        <4>3. ev \in AnySwap
          BY <1>1 DEF SwapEvent, AnySwap, StoreInv
        <4>4. Len(hist'[mint]) = Len(hist[mint]) + 1 /\ Len(hist[mint]) \in Nat
          BY <2>1, <4>1, <4>3, AppendedElements
        <4> QED
          BY <4>2, <4>4
      <3> QED
        BY <3>3, <3>4
    <2>3. CASE PruneStale
      <3>1. Stale(mint)
        BY <1>1, <2>1, <2>3 DEF PruneStale
      <3>2. tokens[mint].last < now - StaleAfter /\ tokens[mint].last \in Nat /\ StaleAfter \in Nat
        BY <2>1, <3>1, SwapStoreAssumption DEF Stale, TokenRecord
      <3>3. ASSUME NEW i \in DOMAIN hist[mint]
            PROVE  hist[mint][i].at < now - StaleAfter
        <4>1. hist[mint][i].at <= tokens[mint].last
          BY <2>1 DEF Counted
        <4>2. hist[mint][i].at \in Nat
          <5>1. hist[mint][i] \in AnySwap
            BY <2>1
          <5> QED
            BY <5>1 DEF AnySwap
        <4> QED
          BY <2>1, <3>2, <4>1, <4>2
      <3> QED
        BY <3>3
    <2>4. ASSUME NEW a \in Mint, NEW d \in {-1, 0, 1}, UpdateDepth(a, d)
          PROVE  FALSE
      <3>1. tokens'[mint] = IF mint = a THEN [tokens[mint] EXCEPT !.depth = d] ELSE tokens[mint]
        BY <2>1, <2>4 DEF UpdateDepth
      <3>2. [tokens[mint] EXCEPT !.depth = d] \in TokenRecord
        <4>1. d \in Int
          BY <2>4
        <4> QED
          BY <2>1, <4>1 DEF TokenRecord
      <3> QED
        BY <1>1, <2>1, <3>1, <3>2, NoTokenAssumption
    <2>5. CASE Tick \/ UNCHANGED vars \/ \E ev \in SwapEvent : ApplyDuplicate(ev)
      BY <1>1, <2>1, <2>5 DEF Tick, vars, ApplyDuplicate
    <2> QED
      BY <1>1, <2>2, <2>3, <2>4, <2>5 DEF StoreNext, Apply
  <1>2. StoreInv /\ [StoreNext]_vars =>
          [\A mint \in Mint : Live(mint) /\ tokens'[mint] = NoToken =>
             \/ Reset
             \/ \A i \in DOMAIN hist[mint] : hist[mint][i].at < now - StaleAfter]_vars
    BY <1>1
  <1> QED
    BY <1>2, StoreInvariant, PTL DEF StoreSpec, OnlyIdlePruned

\* A token's counters, times and sums depend on which events were applied, not on
\* the order of their block times, which is how they arrive.
THEOREM AggregatesAccumulate == StoreSpec => []AggregatesExact
  <1>1. StoreInv => AggregatesExact
    <2> SUFFICES ASSUME StoreInv, NEW mint \in Mint, Live(mint)
                 PROVE  LET t == tokens[mint]  h == hist[mint]
                            times == {h[i].at : i \in DOMAIN h}
                        IN  /\ t.total = Len(h)
                            /\ t.sellTrades = Cardinality({i \in DOMAIN h : ~h[i].isBuy})
                            /\ t.first = Min(times) /\ t.last = Max(times)
                            /\ \A w \in Wallet :
                                /\ t.spent[w] = TotalSol(h, SwapsBy(h, w, TRUE))
                                /\ t.earned[w] = TotalSol(h, SwapsBy(h, w, FALSE))
                                /\ t.net[w] = TotalQty(h, SwapsBy(h, w, TRUE))
                                                 - TotalQty(h, SwapsBy(h, w, FALSE))
                                /\ (t.firstBuy[w] = Never) <=> (SwapsBy(h, w, TRUE) = {})
      BY Zenon DEF AggregatesExact
    <2> DEFINE t == tokens[mint]
               h == hist[mint]
               times == {h[i].at : i \in DOMAIN h}
    <2>1. Counted(t, h) /\ Summed(t, h) /\ Spanned(t, h) /\ t \in TokenRecord /\ h \in Seq(AnySwap)
      BY DEF StoreInv, Sound, Made, TokenType, Live
    <2>2. t.first \in Nat /\ t.last \in Nat /\ times \in SUBSET Nat
      <3>1. \A i \in DOMAIN h : h[i] \in AnySwap
        BY <2>1
      <3>2. \A i \in DOMAIN h : h[i].at \in Nat
        BY <3>1 DEF AnySwap
      <3>3. t.first \in Nat /\ t.last \in Nat
        BY <2>1 DEF TokenRecord
      <3> QED
        BY <3>2, <3>3
    <2>3. t.total = Len(h) /\ t.sellTrades = Cardinality({i \in DOMAIN h : ~h[i].isBuy})
      BY <2>1 DEF Counted, SellsOf
    <2>4. /\ t.first \in times /\ \A x \in times : t.first <= x
          /\ t.last \in times /\ \A x \in times : x <= t.last
      BY <2>1 DEF Counted, Spanned
    <2> HIDE DEF t, h, times
    <2>5. t.first = Min(times)
      <3>1. Min(times) \in times /\ \A x \in times : Min(times) <= x
        BY <2>4 DEF Min
      <3>2. Min(times) \in Nat
        BY <2>2, <3>1
      <3> QED
        BY <2>2, <2>4, <3>1, <3>2
    <2>6. t.last = Max(times)
      <3>1. Max(times) \in times /\ \A x \in times : Max(times) >= x
        <4>1. \A x \in times : t.last >= x
          BY <2>2, <2>4
        <4> QED
          BY <2>4, <4>1 DEF Max
      <3>2. Max(times) \in Nat
        BY <2>2, <3>1
      <3> QED
        BY <2>2, <2>4, <3>1, <3>2
    <2>7. ASSUME NEW w \in Wallet
          PROVE  (t.firstBuy[w] = Never) <=> (SwapsBy(h, w, TRUE) = {})
      <3>1. t.firstBuy[w] = Never <=> \A i \in BuysOf(h) : h[i].wallet # w
        BY <2>1 DEF Counted
      <3>2. \A i \in DOMAIN h : h[i].isBuy \in BOOLEAN
        <4>1. \A i \in DOMAIN h : h[i] \in AnySwap
          BY <2>1
        <4> QED
          BY <4>1 DEF AnySwap
      <3>3. SwapsBy(h, w, TRUE) = {i \in BuysOf(h) : h[i].wallet = w}
        BY <3>2 DEF SwapsBy, BuysOf
      <3> QED
        BY <3>1, <3>3
    <2>8. \A w \in Wallet : /\ t.spent[w] = TotalSol(h, SwapsBy(h, w, TRUE))
                            /\ t.earned[w] = TotalSol(h, SwapsBy(h, w, FALSE))
                            /\ t.net[w] = TotalQty(h, SwapsBy(h, w, TRUE))
                                             - TotalQty(h, SwapsBy(h, w, FALSE))
      BY <2>1 DEF Summed
    <2> QED
      BY <2>3, <2>5, <2>6, <2>7, <2>8 DEF t, h, times
  <1> QED
    BY <1>1, StoreInvariant, PTL

-----------------------------------------------------------------------------
(* The store as an account of deliveries.                                  *)

\* What the horizon is, in terms of the log and of the map.
LastOfLog ==
    /\ LastAccepted \in Seq(Sig) /\ Len(LastAccepted) = n
    /\ DOMAIN LastAccepted = 1 .. n /\ Len(log) \in Nat /\ n \in 0 .. Cap
    /\ n <= Len(log) /\ (n < Cap => Len(log) = n)
    /\ \A i \in 1 .. n : LastAccepted[i] = log[Len(log) - n + i]

RefusedAreLast == m = {LastAccepted[i] : i \in DOMAIN LastAccepted}

\* The ring's slots, read back in order, are what the log ends with.
LEMMA LastAcceptedEndsLog == RingInv => LastOfLog /\ RefusedAreLast
  <1> SUFFICES ASSUME RingInv PROVE LastOfLog /\ RefusedAreLast
    OBVIOUS
  <1>1. PICK L : L = Len(log)
    OBVIOUS
  <1>2. /\ L \in Nat /\ DOMAIN log = 1 .. L /\ n \in Nat /\ n <= Cap /\ Cap \in Nat
        /\ n <= L /\ (n < Cap => L = n) /\ \A i \in 1 .. L : log[i] \in Sig
    BY <1>1, SigRingAssumption DEF RingInv, RingTypeOK
  <1>3. ASSUME NEW i \in 1 .. n
        PROVE  LastAccepted[i] = log[L - n + i] /\ L - n + i \in 1 .. L
    <2>1. n - i \in 0 .. n - 1 /\ L - (n - i) = L - n + i
      BY <1>2
    <2>2. buf[Slot(n - i)] = log[L - (n - i)]
      BY <1>1, <2>1 DEF RingInv, BufIsLogSuffix
    <2>3. LastAccepted[i] = buf[Slot(n - i)]
      BY DEF LastAccepted
    <2> QED
      BY <1>2, <2>1, <2>2, <2>3
  <1>4. DOMAIN LastAccepted = 1 .. n /\ \A i \in 1 .. n : LastAccepted[i] \in Sig
    <2>1. DOMAIN LastAccepted = 1 .. n
      BY DEF LastAccepted
    <2> QED
      BY <1>2, <1>3, <2>1
  <1>5. LastAccepted = [i \in 1 .. n |-> LastAccepted[i]]
    BY DEF LastAccepted
  <1>6. LastAccepted \in Seq(Sig) /\ Len(LastAccepted) = n
    BY <1>2, <1>4, <1>5
  <1>7. m = {LastAccepted[i] : i \in 1 .. n}
    <2>1. m = {log[j] : j \in {k \in 1 .. L : L - k < Cap}}
      BY <1>1, <1>2 DEF RingInv, SeenIsRecent
    <2>2. ASSUME NEW j \in 1 .. L, L - j < Cap
          PROVE  \E i \in 1 .. n : L - n + i = j
      <3>1. j - (L - n) \in 1 .. n /\ L - n + (j - (L - n)) = j
        BY <1>2, <2>2
      <3> QED
        BY <3>1
    <2>3. \A i \in 1 .. n : L - (L - n + i) < Cap
      BY <1>2
    <2>4. \A j \in {k \in 1 .. L : L - k < Cap} : \E i \in 1 .. n : log[j] = LastAccepted[i]
      BY <1>3, <2>2
    <2>5. \A i \in 1 .. n : \E j \in {k \in 1 .. L : L - k < Cap} : LastAccepted[i] = log[j]
      BY <1>3, <2>3
    <2> QED
      BY <2>1, <2>4, <2>5
  <1> QED
    BY <1>1, <1>2, <1>3, <1>4, <1>6, <1>7 DEF LastOfLog, RefusedAreLast

\* A signature offered to the ring moves the horizon by one.
LEMMA OfferMovesHorizon ==
    ASSUME RingInv, RingInv', NEW sig \in Sig, Offer(sig)
    PROVE  LastAccepted' = Applied!With(sig)
  <1>1. PICK L, a, b, k : L = Len(log) /\ a = LastAccepted /\ b = LastAccepted' /\ k = n'
    OBVIOUS
  <1>2. /\ a \in Seq(Sig) /\ Len(a) = n /\ DOMAIN a = 1 .. n /\ L \in Nat
        /\ n \in 0 .. Cap /\ n <= L /\ (n < Cap => L = n)
        /\ \A i \in 1 .. n : a[i] = log[L - n + i]
    BY <1>1, LastAcceptedEndsLog DEF LastOfLog
  <1>3. /\ log' = Append(log, sig) /\ k = (IF n = Cap THEN n ELSE n + 1) /\ Cap \in Nat \ {0}
    BY <1>1, SigRingAssumption DEF Offer, Add
  <1>4. Len(log') = L + 1 /\ log'[L + 1] = sig /\ \A i \in 1 .. L : log'[i] = log[i]
    <2>1. log \in Seq(Sig)
      BY DEF RingInv, RingTypeOK
    <2> QED
      BY <1>1, <1>3, <2>1, AppendProperties
  <1>5. /\ b \in Seq(Sig) /\ Len(b) = k /\ DOMAIN b = 1 .. k
        /\ \A i \in 1 .. k : b[i] = log'[L + 1 - k + i]
    <2>1. LastOfLog'
      BY LastAcceptedEndsLog, PTL
    <2> QED
      BY <1>1, <1>4, <2>1 DEF LastOfLog
  <1>6. PICK kept : kept = IF n < Cap THEN a ELSE Tail(a)
    OBVIOUS
  <1>7. /\ kept \in Seq(Sig) /\ Len(kept) = k - 1 /\ k \in Nat \ {0} /\ k <= L + 1
        /\ \A i \in 1 .. k - 1 : kept[i] = log[L + 1 - k + i] /\ L + 1 - k + i \in 1 .. L
    <2>1. CASE n < Cap
      <3>1. k = n + 1 /\ kept = a
        BY <1>2, <1>3, <1>6, <2>1
      <3> QED
        BY <1>2, <1>3, <2>1, <3>1
    <2>2. CASE ~(n < Cap)
      <3>1. n = Cap /\ k = n /\ kept = Tail(a) /\ a # <<>>
        BY <1>2, <1>3, <1>6, <2>2
      <3>2. kept \in Seq(Sig) /\ Len(kept) = n - 1 /\ \A i \in 1 .. n - 1 : kept[i] = a[i + 1]
        BY <1>2, <3>1, HeadTailProperties
      <3>3. \A i \in 1 .. n - 1 : i + 1 \in 1 .. n /\ L - n + (i + 1) = L + 1 - k + i
        BY <1>2, <3>1
      <3> QED
        BY <1>2, <1>3, <3>1, <3>2, <3>3
    <2> QED
      BY <2>1, <2>2
  <1>8. PICK c : c = Append(kept, sig)
    OBVIOUS
  <1>9. /\ c \in Seq(Sig) /\ Len(c) = k /\ c[k] = sig /\ \A i \in 1 .. k - 1 : c[i] = kept[i]
    BY <1>7, <1>8, AppendProperties
  <1>10. \A i \in 1 .. k : c[i] = b[i]
    <2>1. \A i \in 1 .. k - 1 : c[i] = b[i]
      BY <1>4, <1>5, <1>7, <1>9
    <2>2. c[k] = b[k]
      <3>1. L + 1 - k + k = L + 1 /\ k \in 1 .. k
        BY <1>2, <1>7
      <3> QED
        BY <1>4, <1>5, <1>9, <3>1
    <2> QED
      BY <1>7, <2>1, <2>2
  <1>11. b = c
    BY <1>5, <1>7, <1>9, <1>10, SeqEqual
  <1> QED
    BY <1>1, <1>2, <1>6, <1>8, <1>11 DEF Applied!With

\* An event applied is taken once, and counted once in its record.
LEMMA ApplyIsTaken ==
    ASSUME StoreInv, StoreInv', NEW ev \in SwapEvent, ApplyNew(ev)
    PROVE  Applied!Next
  <1>1. PICK mint, t, u : mint = ev.mint /\ t = RecordOf(ev) /\ u = Recorded(t, ev)
    OBVIOUS
  <1>2. /\ ev \in AnySwap /\ mint \in Mint /\ ev.sig \in Sig \cup {NoSig}
    BY <1>1 DEF SwapEvent, AnySwap
  <1>3. /\ tokens \in [Mint -> TokenRecord \cup {NoToken}] /\ hist \in [Mint -> Seq(AnySwap)]
        /\ Sound(tokens[mint], hist[mint], now) /\ RingInv /\ RingInv'
    BY <1>2 DEF StoreInv
  <1>4. tokens' = [tokens EXCEPT ![mint] = u] /\ hist' = [hist EXCEPT ![mint] = Append(@, ev)]
    BY <1>1 DEF ApplyNew, Updated
  <1>5. u \in TokenRecord /\ u # NoToken /\ u.total = CountedIn[mint] + 1
    <2>1. CASE Live(mint)
      <3>1. t = tokens[mint] /\ t # NoToken /\ CountedIn[mint] = t.total
        BY <1>1, <1>2, <2>1 DEF Live, RecordOf, CountedIn
      <3>2. t \in TokenRecord /\ TokenType(t)
        BY <1>3, <3>1 DEF Sound, Made, TokenType
      <3>3. Len(t.buys) <= BuyCap /\ Len(t.sells) <= SellCap
        BY <3>2 DEF TokenType
      <3>4. u \in TokenRecord /\ u.total = t.total + 1
        BY <1>1, <1>2, <3>2, <3>3, RecordedFields
      <3> QED
        BY <3>1, <3>4, NoTokenAssumption
    <2>2. CASE ~Live(mint)
      <3>1. t = NewToken(ev) /\ CountedIn[mint] = 0
        BY <1>1, <1>2, <2>2 DEF Live, RecordOf, CountedIn
      <3>2. TokenType(t) /\ t.total = 0
        BY <1>2, <3>1, NewTokenMade DEF Made, NewToken
      <3>3. t \in TokenRecord /\ Len(t.buys) <= BuyCap /\ Len(t.sells) <= SellCap
        BY <3>2 DEF TokenType
      <3>4. u \in TokenRecord /\ u.total = t.total + 1
        BY <1>1, <1>2, <3>3, RecordedFields
      <3> QED
        BY <3>1, <3>2, <3>4, NoTokenAssumption
    <2> QED
      BY <2>1, <2>2
  <1>6. CountedIn' = [CountedIn EXCEPT ![mint] = @ + 1]
    <2>1. DOMAIN CountedIn = Mint /\ CountedIn' = [a \in Mint |-> CountedIn'[a]]
      BY DEF CountedIn
    <2>2. CountedIn'[mint] = CountedIn[mint] + 1
      BY <1>2, <1>3, <1>4, <1>5 DEF CountedIn, Live
    <2>3. \A a \in Mint : a # mint => CountedIn'[a] = CountedIn[a]
      BY <1>3, <1>4 DEF CountedIn, Live
    <2>4. CountedIn = [a \in Mint |-> CountedIn[a]]
      BY DEF CountedIn
    <2> QED
      BY <1>2, <2>1, <2>2, <2>3, <2>4
  <1>7. TakenInto' = [TakenInto EXCEPT ![mint] = Append(@, ev.sig)]
    <2>1. /\ DOMAIN TakenInto = Mint /\ TakenInto = [a \in Mint |-> TakenInto[a]]
          /\ TakenInto' = [a \in Mint |-> TakenInto'[a]]
      BY DEF TakenInto
    <2>2. \A a \in Mint : a # mint => TakenInto'[a] = TakenInto[a]
      BY <1>3, <1>4 DEF TakenInto
    <2>3. TakenInto'[mint] = Append(TakenInto[mint], ev.sig)
      <3>1. PICK h, g : h = hist[mint] /\ g = Append(h, ev)
        OBVIOUS
      <3>2. /\ h \in Seq(AnySwap) /\ hist'[mint] = g
            /\ TakenInto[mint] = [i \in DOMAIN h |-> h[i].sig]
            /\ TakenInto'[mint] = [i \in DOMAIN g |-> g[i].sig]
        BY <1>2, <1>3, <1>4, <3>1 DEF TakenInto
      <3>3. /\ g \in Seq(AnySwap) /\ Len(g) = Len(h) + 1 /\ g[Len(h) + 1] = ev
            /\ \A i \in DOMAIN h : g[i] = h[i]
            /\ DOMAIN h = 1 .. Len(h) /\ Len(h) \in Nat /\ DOMAIN g = 1 .. Len(g)
        BY <1>2, <3>1, <3>2, AppendedElements
      <3>4. \A e \in AnySwap : e.sig \in Sig \cup {NoSig}
        BY DEF AnySwap
      <3>5. TakenInto[mint] \in Seq(Sig \cup {NoSig}) /\ Len(TakenInto[mint]) = Len(h)
        <4>1. \A i \in 1 .. Len(h) : h[i].sig \in Sig \cup {NoSig}
          BY <3>2, <3>3, <3>4
        <4> QED
          BY <3>2, <3>3, <4>1
      <3>6. TakenInto'[mint] \in Seq(Sig \cup {NoSig}) /\ Len(TakenInto'[mint]) = Len(h) + 1
        <4>1. \A i \in 1 .. Len(g) : g[i].sig \in Sig \cup {NoSig}
          BY <3>3, <3>4
        <4> QED
          BY <3>2, <3>3, <4>1
      <3>7. PICK a, c : a = TakenInto[mint] /\ c = Append(a, ev.sig)
        OBVIOUS
      <3>8. /\ c \in Seq(Sig \cup {NoSig}) /\ Len(c) = Len(h) + 1
            /\ c[Len(h) + 1] = ev.sig /\ \A i \in 1 .. Len(h) : c[i] = a[i]
        BY <1>2, <3>5, <3>7, AppendProperties
      <3>9. \A i \in 1 .. Len(h) + 1 : TakenInto'[mint][i] = c[i]
        <4>1. ASSUME NEW i \in 1 .. Len(h) PROVE TakenInto'[mint][i] = c[i]
          <5>1. i \in DOMAIN g /\ i \in DOMAIN h /\ g[i] = h[i]
            BY <3>3
          <5>2. TakenInto'[mint][i] = g[i].sig /\ a[i] = h[i].sig
            BY <3>2, <3>7, <5>1
          <5> QED
            BY <3>8, <5>1, <5>2
        <4>2. TakenInto'[mint][Len(h) + 1] = c[Len(h) + 1]
          BY <3>2, <3>3, <3>8
        <4> QED
          BY <3>3, <4>1, <4>2
      <3> QED
        BY <3>6, <3>7, <3>8, <3>9, SeqEqual
    <2> QED
      BY <1>2, <2>1, <2>2, <2>3
  <1>8. m' = {LastAccepted'[i] : i \in DOMAIN LastAccepted'}
    <2>1. RingInv'
      BY <1>3
    <2>2. RefusedAreLast'
      BY <2>1, LastAcceptedEndsLog, PTL
    <2> QED
      BY <2>2 DEF RefusedAreLast
  <1>9. /\ ev.sig \notin m
        /\ LastAccepted' = IF ev.sig = NoSig THEN LastAccepted ELSE Applied!With(ev.sig)
    <2>1. CASE ev.sig = NoSig
      <3>1. UNCHANGED ringVars
        BY <2>1 DEF ApplyNew
      <3>2. LastAccepted' = LastAccepted
        BY <3>1 DEF ringVars, LastAccepted, Slot
      <3>3. NoSig \notin m
        BY <1>3, SigRingAssumption DEF RingInv, RingTypeOK
      <3> QED
        BY <2>1, <3>2, <3>3
    <2>2. CASE ev.sig # NoSig
      <3>1. ev.sig \in Sig /\ Offer(ev.sig)
        BY <1>2, <2>2 DEF ApplyNew, Offer
      <3>2. LastAccepted' = Applied!With(ev.sig)
        BY <1>3, <3>1, OfferMovesHorizon
      <3> QED
        BY <2>2, <3>1, <3>2 DEF Offer, Seen
    <2> QED
      BY <2>1, <2>2
  <1>10. Applied!Take(ev.sig, mint)
    BY <1>6, <1>7, <1>8, <1>9 DEF Applied!Take
  <1> QED
    BY <1>2, <1>10 DEF Applied!Next

\* Every method of Store is a step of the account, or none.
LEMMA StoreStepIsAccounted ==
    StoreInv /\ StoreInv' /\ [StoreNext]_vars => [Applied!Next]_(Applied!vars)
  <1> SUFFICES ASSUME StoreInv, StoreInv', [StoreNext]_vars
               PROVE  Applied!Next \/ UNCHANGED Applied!vars
    OBVIOUS
  <1>r. ASSUME UNCHANGED <<m, buf, pos, n>>
        PROVE  LastAccepted' = LastAccepted /\ m' = m
    BY <1>r DEF LastAccepted, Slot
  <1>t. /\ tokens \in [Mint -> TokenRecord \cup {NoToken}] /\ hist \in [Mint -> Seq(AnySwap)]
        /\ \A mint \in Mint : Sound(tokens[mint], hist[mint], now)
    BY DEF StoreInv
  <1>1. ASSUME NEW ev \in SwapEvent, Apply(ev)
        PROVE  Applied!Next \/ UNCHANGED Applied!vars
    <2>1. CASE ApplyDuplicate(ev)
      BY <2>1, <1>r DEF ApplyDuplicate, vars, Applied!vars, TakenInto, CountedIn, Live
    <2>2. CASE ApplyNew(ev)
      BY <2>2, ApplyIsTaken
    <2> QED
      BY <1>1, <2>1, <2>2 DEF Apply
  <1>2. CASE PruneStale
    <2> DEFINE idle == {mint \in Mint : Stale(mint)}
    <2>1. LastAccepted' = LastAccepted /\ m' = m
      BY <1>2, <1>r DEF PruneStale
    <2>2. CountedIn' = [mint \in Mint |-> IF mint \in idle THEN 0 ELSE CountedIn[mint]]
      <3>1. ASSUME NEW mint \in Mint
            PROVE  (IF Live(mint) THEN tokens[mint].total ELSE 0)' =
                     IF mint \in idle THEN 0 ELSE CountedIn[mint]
        BY <1>2 DEF PruneStale, Live, CountedIn
      <3> QED
        BY <3>1 DEF CountedIn
    <2>3. TakenInto' = [mint \in Mint |-> IF mint \in idle THEN <<>> ELSE TakenInto[mint]]
      <3>1. ASSUME NEW mint \in Mint
            PROVE  [i \in DOMAIN hist'[mint] |-> hist'[mint][i].sig] =
                     IF mint \in idle THEN <<>> ELSE TakenInto[mint]
        <4>1. CASE mint \in idle
          <5>1. hist'[mint] = <<>>
            BY <1>2, <4>1 DEF PruneStale
          <5>2. DOMAIN hist'[mint] = {}
            BY <5>1
          <5>3. [i \in DOMAIN hist'[mint] |-> hist'[mint][i].sig] = <<>>
            BY <5>2
          <5> QED
            BY <4>1, <5>3
        <4>2. CASE mint \notin idle
          BY <1>2, <4>2 DEF PruneStale, TakenInto
        <4> QED
          BY <4>1, <4>2
      <3> QED
        BY <3>1 DEF TakenInto
    <2>4. idle \in SUBSET Mint
      OBVIOUS
    <2> HIDE DEF idle
    <2> QED
      BY <2>1, <2>2, <2>3, <2>4 DEF Applied!Next, Applied!Drop
  <1>3. ASSUME NEW mint \in Mint, NEW d \in {-1, 0, 1}, UpdateDepth(mint, d)
        PROVE  UNCHANGED Applied!vars
    <2>1. LastAccepted' = LastAccepted /\ m' = m /\ hist' = hist
      BY <1>3, <1>r DEF UpdateDepth
    <2>2. TakenInto' = TakenInto
      BY <2>1 DEF TakenInto
    <2>3. ASSUME NEW a \in Mint
          PROVE  (IF Live(a) THEN tokens[a].total ELSE 0)' = IF Live(a) THEN tokens[a].total ELSE 0
      <3>1. tokens' = [tokens EXCEPT ![mint].depth = d] /\ tokens[mint] # NoToken
        BY <1>3 DEF UpdateDepth, Live
      <3>2. CASE a # mint
        BY <1>t, <3>1, <3>2 DEF Live
      <3>3. CASE a = mint
        <4>1. PICK t, u : t = tokens[mint] /\ u = [t EXCEPT !.depth = d]
          OBVIOUS
        <4>2. t \in TokenRecord /\ d \in Int
          BY <1>t, <3>1, <4>1
        <4>3. u \in TokenRecord /\ u.total = t.total
          BY <4>1, <4>2 DEF TokenRecord
        <4>4. tokens'[mint] = u
          BY <1>t, <3>1, <4>1
        <4> QED
          BY <3>1, <3>3, <4>1, <4>3, <4>4, NoTokenAssumption DEF Live
      <3> QED
        BY <3>2, <3>3
    <2>4. CountedIn' = CountedIn
      BY <2>3 DEF CountedIn
    <2> QED
      BY <2>1, <2>2, <2>4 DEF Applied!vars
  <1>4. CASE Reset
    <2>1. m' = {} /\ n' = 0
      BY <1>4 DEF Reset, RingReset
    <2>2. LastAccepted' = <<>>
      BY <2>1 DEF LastAccepted
    <2>3. TakenInto' = [mint \in Mint |-> <<>>] /\ CountedIn' = [mint \in Mint |-> 0]
      <3>1. \A mint \in Mint : hist'[mint] = <<>> /\ ~Live(mint)'
        BY <1>4 DEF Reset, Live
      <3>2. \A mint \in Mint : [i \in DOMAIN hist'[mint] |-> hist'[mint][i].sig] = <<>>
        BY <3>1
      <3> QED
        BY <3>1, <3>2 DEF TakenInto, CountedIn
    <2> QED
      BY <2>1, <2>2, <2>3 DEF Applied!Next, Applied!Forget, Applied!Nothing
  <1>5. CASE Tick
    BY <1>5, <1>r DEF Tick, Applied!vars, TakenInto, CountedIn, Live
  <1>6. CASE UNCHANGED vars
    BY <1>6, <1>r DEF vars, Applied!vars, TakenInto, CountedIn, Live
  <1> QED
    BY <1>1, <1>2, <1>3, <1>4, <1>5, <1>6 DEF StoreNext

\* The idempotency that store.go states, for any capacity, tokens and signatures:
\* an event changes the records if and only if its signature is empty or not among
\* the last Cap taken, and it is then counted once, in the record of its token;
\* pruning forgets records but no signature, a reset forgets both.
THEOREM StoreImplementsDeliveries == StoreSpec => ImplementsDeliveries
  <1>1. StoreInit => Applied!Init
    <2> SUFFICES ASSUME StoreInit PROVE Applied!Init
      OBVIOUS
    <2>1. m = {} /\ n = 0 /\ \A mint \in Mint : hist[mint] = <<>> /\ tokens[mint] = NoToken
      BY DEF StoreInit, RingInit, NewRing
    <2>2. LastAccepted = <<>>
      BY <2>1 DEF LastAccepted
    <2>3. \A mint \in Mint : [i \in DOMAIN hist[mint] |-> hist[mint][i].sig] = <<>>
      BY <2>1
    <2> QED
      BY <2>1, <2>2, <2>3 DEF Applied!Init, Applied!Nothing, TakenInto, CountedIn, Live
  <1> QED
    BY <1>1, StoreStepIsAccounted, StoreInvariant, PTL DEF StoreSpec, ImplementsDeliveries, Applied!Spec

=============================================================================
