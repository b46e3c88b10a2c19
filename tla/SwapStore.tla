------------------------------ MODULE SwapStore ------------------------------
(***************************************************************************)
(* The live token store (Store in internal/state/store.go): per-token      *)
(* aggregates and bounded histories updated by Apply, pruned by PruneStale,*)
(* cleared by Reset, with the on-chain pool depth written by UpdateDepth.  *)
(* Every method that writes holds the store's lock throughout, so each is  *)
(* one action.  Events arrive in any order of block time and may be        *)
(* delivered again.                                                        *)
(*                                                                         *)
(* Time is counted in ticks, and the durations of the code are constants.  *)
(* `hist` is a history variable: the events applied to a token since its   *)
(* record was created, in arrival order.  No action reads it.              *)
(***************************************************************************)
EXTENDS SigRing, FiniteSets, FiniteSetsExt

CONSTANTS
    Mint, Wallet,
    Sol,          \* SOL amounts of a swap
    Qty,          \* token amounts of a swap; 0 is an unparsed amount
    NoToken, Never,
    BuyCap,       \* MaxBuyHistoryPerToken
    SellCap,      \* MaxSellHistoryPerToken
    TradeCap,     \* tradeHistory's bound of 500
    TradeWindow,  \* tradeHistory's 10 minutes
    WinnerDelay,  \* an organic winner first buys after minute 5
    Snap30,       \* the 30 minute mark
    Snap60,       \* the 60 minute mark
    StaleAfter,   \* StaleDuration
    MaxLag        \* bound: how long after its block time an event may arrive

ASSUME SwapStoreAssumption ==
    /\ BuyCap \in Nat \ {0} /\ SellCap \in Nat \ {0} /\ TradeCap \in Nat \ {0}
    /\ TradeWindow \in Nat /\ WinnerDelay \in Nat /\ StaleAfter \in Nat
    /\ Snap30 \in Nat /\ Snap60 \in Nat /\ Snap30 < Snap60
    /\ MaxLag \in Nat
    /\ Sol \subseteq Nat /\ Qty \subseteq Nat
    /\ IsFiniteSet(Wallet) /\ Never \notin Int

VARIABLES
    tokens,  \* Mint -> token record or NoToken
    now,     \* Store.now()
    hist     \* history: Mint -> events applied since the record was created

storeVars == <<tokens, now, hist>>
vars == <<m, buf, pos, n, log, tokens, now, hist>>

\* What a caller may pass to Apply at this moment.  NoSig is the empty
\* signature, which Apply's contract covers although NormalizeHelius drops it;
\* the block time is at most MaxLag behind the clock.
SwapEvent ==
    [sig : Sig \cup {NoSig}, mint : Mint, wallet : Wallet, isBuy : BOOLEAN,
     at : {t \in now - MaxLag .. now : t >= 0}, sol : Sol, qty : Qty]

Live(mint) == tokens[mint] # NoToken

-----------------------------------------------------------------------------
(* One token's record: the fields of tokenState, each per-wallet map total   *)
(* over Wallet.  The sums buySOL and sellSOL and the set uniqueBuyers can be *)
(* read off the maps and are left out, as is the text of evidence sources.   *)

AnySwap ==
    [sig : Sig \cup {NoSig}, mint : Mint, wallet : Wallet, isBuy : BOOLEAN,
     at : Nat, sol : Sol, qty : Qty]

TokenRecord ==
    [observed : Nat, first : Nat, last : Nat, total : Nat, sellTrades : Nat,
     price : {<<>>} \cup ((Sol \ {0}) \X (Qty \ {0})),
     net : [Wallet -> Int],
     spent : [Wallet -> Nat], earned : [Wallet -> Nat],
     firstBuy : [Wallet -> Nat \cup {Never}],
     buys : Seq(AnySwap), sells : Seq(AnySwap), trades : Seq(AnySwap),
     snapped30 : BOOLEAN, snapped60 : BOOLEAN,
     holders30 : Nat, holders60 : Nat, winners : Nat,
     depth : Int]

ASSUME NoTokenAssumption == NoToken \notin TokenRecord

NewToken(ev) ==
    [observed |-> ev.at, first |-> ev.at, last |-> ev.at, total |-> 0, sellTrades |-> 0,
     price |-> <<>>,
     net |-> [w \in Wallet |-> 0],
     spent |-> [w \in Wallet |-> 0], earned |-> [w \in Wallet |-> 0],
     firstBuy |-> [w \in Wallet |-> Never],
     buys |-> <<>>, sells |-> <<>>, trades |-> <<>>,
     snapped30 |-> FALSE, snapped60 |-> FALSE,
     holders30 |-> 0, holders60 |-> 0, winners |-> 0,
     depth |-> -1]

Earliest(a, b) == IF a < b THEN a ELSE b
Latest(a, b) == IF a > b THEN a ELSE b

\* The bugs of comparing with <= and of evicting one record too early.
AppendCappedLate(history, cap, ev) ==
    Append(IF Len(history) <= cap THEN history ELSE Tail(history), ev)

AppendCappedEarly(history, cap, ev) ==
    Append(IF Len(history) \in {0, cap - 2} THEN history ELSE Tail(history), ev)

\* The history keeps its last `cap` records in arrival order.
AppendCapped(history, cap, ev) ==
    Append(IF Len(history) < cap THEN history ELSE Tail(history), ev)

\* The bug of trimming by the newest time seen, as if deliveries were in order.
TradesAfterAssumingOrder(trades, ev) ==
    LET all == Append(trades, ev)
    IN  SubSeq(all, IF Len(all) > TradeCap THEN 2 ELSE
                    IF all[1].at # ev.at THEN Len(all) ELSE 1, Len(all))

\* appendTradeEvent: drops records from the front while there are too many of
\* them or the front one is out of the window that ends at this event.
TradesAfter(trades, ev) ==
    LET all == Append(trades, ev)
        keepFrom == {i \in DOMAIN all : Len(all) - i < TradeCap
                                          /\ all[i].at >= ev.at - TradeWindow}
    IN  SubSeq(all, Min(keepFrom), Len(all))

CountHolders(net) == Cardinality({w \in Wallet : net[w] > 0})

\* countOrganicWinners: first bought after minute 5, sold for over 1.5 times the
\* cost.  The 30 second deployer window lies inside the 5 minutes.
CountOrganicWinners(t) ==
    Cardinality({w \in Wallet :
        /\ t.firstBuy[w] # Never /\ t.firstBuy[w] > t.first + WinnerDelay
        /\ t.spent[w] > 0 /\ 2 * (t.earned[w] - t.spent[w]) > t.spent[w]})

\* The bug of keeping the first arrival's block time.
ObservedFirstArrival(t, ev) ==
    [t EXCEPT !.last = Latest(@, ev.at),
              !.total = @ + 1, !.trades = TradesAfter(@, ev)]

\* The part of Apply both sides share.
Observed(t, ev) ==
    [t EXCEPT !.first = Earliest(@, ev.at), !.last = Latest(@, ev.at),
              !.total = @ + 1, !.trades = TradesAfter(@, ev)]

Bought(t, ev) ==
    [t EXCEPT !.net[ev.wallet] = @ + ev.qty, !.spent[ev.wallet] = @ + ev.sol,
              !.firstBuy[ev.wallet] = IF @ = Never THEN ev.at ELSE @,
              !.buys = AppendCapped(@, BuyCap, ev)]

Sold(t, ev) ==
    [t EXCEPT !.net[ev.wallet] = @ - ev.qty, !.earned[ev.wallet] = @ + ev.sol,
              !.sellTrades = @ + 1, !.sells = AppendCapped(@, SellCap, ev)]

\* lastPriceSOL, as the two amounts of the last swap that has both.
Priced(t, ev) ==
    IF ev.qty > 0 /\ ev.sol > 0 THEN [t EXCEPT !.price = <<ev.sol, ev.qty>>] ELSE t

\* The bug of forgetting the flag: every later event retakes the snapshot.
Snapped30Again(t) ==
    IF now - t.first >= Snap30
    THEN [t EXCEPT !.snapped30 = TRUE, !.holders30 = CountHolders(t.net)]
    ELSE t

\* The bug of measuring a token's age from its last event.
Snapped30BySilence(t) ==
    IF ~t.snapped30 /\ now - t.last >= Snap30
    THEN [t EXCEPT !.snapped30 = TRUE, !.holders30 = CountHolders(t.net)]
    ELSE t

\* Holder snapshots are taken inside Apply only, each at the first event that
\* finds the token old enough.
Snapped30(t) ==
    IF ~t.snapped30 /\ now - t.first >= Snap30
    THEN [t EXCEPT !.snapped30 = TRUE, !.holders30 = CountHolders(t.net)]
    ELSE t

Snapped60(t) ==
    IF ~t.snapped60 /\ now - t.first >= Snap60
    THEN [t EXCEPT !.snapped60 = TRUE, !.holders60 = CountHolders(t.net),
                   !.winners = CountOrganicWinners(t)]
    ELSE t

RecordOf(ev) == IF Live(ev.mint) THEN tokens[ev.mint] ELSE NewToken(ev)

\* What one event makes of a token's record.
Recorded(record, ev) ==
    LET t == Observed(record, ev)
        traded == IF ev.isBuy THEN Bought(t, ev) ELSE Sold(t, ev)
    IN  Snapped60(Snapped30(Priced(traded, ev)))

Updated(ev) == Recorded(RecordOf(ev), ev)

-----------------------------------------------------------------------------
(* The store's methods.                                                    *)

StoreInit ==
    /\ RingInit
    /\ tokens = [mint \in Mint |-> NoToken]
    /\ hist = [mint \in Mint |-> <<>>]
    /\ now = 0

\* Apply returns false: the signature is still in the ring.
ApplyDuplicate(ev) ==
    /\ ev.sig # NoSig /\ Seen(ev.sig)
    /\ UNCHANGED vars

\* The bug of asking the ring before adding to it, but not before counting.
ApplyNewCountsDuplicates(ev) ==
    /\ IF ev.sig = NoSig \/ Seen(ev.sig) THEN UNCHANGED ringVars ELSE Add(ev.sig)
    /\ tokens' = [tokens EXCEPT ![ev.mint] = Updated(ev)]
    /\ hist' = [hist EXCEPT ![ev.mint] = Append(@, ev)]
    /\ UNCHANGED now

\* Apply returns true; an event without a signature bypasses the ring.
ApplyNew(ev) ==
    /\ IF ev.sig = NoSig
       THEN UNCHANGED ringVars
       ELSE ~Seen(ev.sig) /\ Add(ev.sig)
    /\ tokens' = [tokens EXCEPT ![ev.mint] = Updated(ev)]
    /\ hist' = [hist EXCEPT ![ev.mint] = Append(@, ev)]
    /\ UNCHANGED now

Apply(ev) == ApplyDuplicate(ev) \/ ApplyNew(ev)

\* The bug of measuring idleness from the token's first event.
StaleByAge(mint) == Live(mint) /\ tokens[mint].first < now - StaleAfter

Stale(mint) == Live(mint) /\ tokens[mint].last < now - StaleAfter

\* The ring keeps the signatures of the tokens it removes.
PruneStale ==
    /\ tokens' = [mint \in Mint |-> IF Stale(mint) THEN NoToken ELSE tokens[mint]]
    /\ hist' = [mint \in Mint |-> IF Stale(mint) THEN <<>> ELSE hist[mint]]
    /\ UNCHANGED <<m, buf, pos, n, log, now>>

\* A depth fetch completes: negative depths and unknown mints are ignored.
UpdateDepth(mint, d) ==
    /\ d >= 0 /\ Live(mint)
    /\ tokens' = [tokens EXCEPT ![mint].depth = d]
    /\ UNCHANGED <<m, buf, pos, n, log, now, hist>>

Reset ==
    /\ RingReset
    /\ tokens' = [mint \in Mint |-> NoToken]
    /\ hist' = [mint \in Mint |-> <<>>]
    /\ UNCHANGED now

Tick ==
    /\ now' = now + 1
    /\ UNCHANGED <<m, buf, pos, n, log, tokens, hist>>

StoreNext ==
    \/ \E ev \in SwapEvent : Apply(ev)
    \/ PruneStale
    \/ \E mint \in Mint, d \in {-1, 0, 1} : UpdateDepth(mint, d)
    \/ Reset
    \/ Tick

StoreSpec == StoreInit /\ [][StoreNext]_vars

-----------------------------------------------------------------------------
(* Properties.                                                             *)

TokenType(t) ==
    /\ t \in TokenRecord /\ t.depth >= -1
    /\ Len(t.buys) <= BuyCap /\ Len(t.sells) <= SellCap /\ Len(t.trades) <= TradeCap

\* Types, and the memory bounds of the store's package comment.
StoreTypeOK ==
    /\ RingTypeOK
    /\ now \in Nat
    /\ DOMAIN tokens = Mint /\ hist \in [Mint -> Seq(AnySwap)]
    /\ \A mint \in Mint : Live(mint) => TokenType(tokens[mint])

\* Positions in h of the events of one side by one wallet.
SwapsBy(h, w, isBuy) == {i \in DOMAIN h : h[i].wallet = w /\ h[i].isBuy = isBuy}
TotalSol(h, swaps) == SumFunctionOnSet([i \in DOMAIN h |-> h[i].sol], swaps)
TotalQty(h, swaps) == SumFunctionOnSet([i \in DOMAIN h |-> h[i].qty], swaps)

\* "TotalBuySOL, TotalSellSOL, UniqueBuyerCount, and SellTradeCount are exact:
\* they accumulate from every applied event", FirstSeenAt is the minimum block
\* time and LastEventAt the maximum, whatever the order of arrival: a token's
\* aggregates are functions of the multiset of applied events.
AggregatesExact ==
    \A mint \in Mint : Live(mint) =>
        LET t == tokens[mint]  h == hist[mint]
            times == {h[i].at : i \in DOMAIN h}
        IN  /\ t.total = Len(h)
            /\ t.sellTrades = Cardinality({i \in DOMAIN h : ~h[i].isBuy})
            /\ t.first = Min(times) /\ t.last = Max(times)
            /\ \A w \in Wallet :
                /\ t.spent[w] = TotalSol(h, SwapsBy(h, w, TRUE))
                /\ t.earned[w] = TotalSol(h, SwapsBy(h, w, FALSE))
                /\ t.net[w] = TotalQty(h, SwapsBy(h, w, TRUE))
                                - TotalQty(h, SwapsBy(h, w, FALSE))
                /\ (t.firstBuy[w] = Never) <=> (SwapsBy(h, w, TRUE) = {})

\* The buyers a window ending now sees (buyersInWindow and its siblings).
BuyersInWindow(h, window) ==
    {h[i].wallet : i \in {j \in DOMAIN h : h[j].isBuy /\ h[j].at > now - window}}

\* Window metrics are exact until a token has had more than BuyCap buys, and
\* after that they miss wallets but never invent one, even when deliveries are
\* out of order ("What is approximate" in store.go).
WindowsExactUntilCap ==
    \A mint \in Mint : Live(mint) =>
        LET t == tokens[mint]  h == hist[mint]
            buysApplied == Cardinality({i \in DOMAIN h : h[i].isBuy})
        IN  \A window \in 1 .. StaleAfter :
                /\ BuyersInWindow(t.buys, window) \subseteq BuyersInWindow(h, window)
                /\ buysApplied <= BuyCap =>
                     BuyersInWindow(t.buys, window) = BuyersInWindow(h, window)

\* appendTradeEvent gives up no event that is both inside the trade window and
\* among the last TradeCap arrivals, however the arrivals were ordered.
RecentTradesKept ==
    \A mint \in Mint : Live(mint) =>
        LET t == tokens[mint]  h == hist[mint]
        IN  \A i \in DOMAIN h :
                Len(h) - i < TradeCap /\ h[i].at >= t.last - TradeWindow
                  => i > Len(h) - Len(t.trades)
                     /\ t.trades[i - (Len(h) - Len(t.trades))] = h[i]

\* Gate 6 compares two snapshots of one token: the 60 minute one exists only
\* with the 30 minute one, neither was taken of a token younger than its mark,
\* and organic winners are counted with the 60 minute one.
SnapshotsInOrder ==
    \A mint \in Mint : Live(mint) =>
        LET t == tokens[mint]
        IN  /\ t.snapped60 => t.snapped30
            /\ t.snapped30 => now - t.first >= Snap30
            /\ t.snapped60 => now - t.first >= Snap60
            /\ ~t.snapped60 => t.winners = 0 /\ t.holders60 = 0

\* A holder snapshot, once taken, stays as taken while the record lives: later
\* swaps, late deliveries and depth updates never rewrite Gate 6's evidence.
SnapshotsFrozen ==
    [][\A mint \in Mint :
          LET t == tokens[mint]  u == tokens'[mint]
          IN  t # NoToken /\ u # NoToken /\ t.snapped30 =>
                /\ u.snapped30 /\ u.holders30 = t.holders30
                /\ t.snapped60 => /\ u.snapped60 /\ u.holders60 = t.holders60
                                  /\ u.winners = t.winners]_vars

\* A record disappears only when the store forgets everything (Reset) or when
\* every event applied to it is older than StaleAfter.
OnlyIdlePruned ==
    [][\A mint \in Mint : Live(mint) /\ tokens'[mint] = NoToken =>
          \/ Reset
          \/ \A i \in DOMAIN hist[mint] : hist[mint][i].at < now - StaleAfter]_vars

\* The last n accepted signatures, as the ring's slots hold them.
LastAccepted == [i \in 1 .. n |-> buf[Slot(n - i)]]

\* The signatures of the events in each record, and how many it says it has.
TakenInto == [mint \in Mint |-> [i \in DOMAIN hist[mint] |-> hist[mint][i].sig]]
CountedIn == [mint \in Mint |-> IF Live(mint) THEN tokens[mint].total ELSE 0]

\* The store is an exactly-once account of deliveries ("What is idempotent" in
\* store.go; Deliveries has the contract): through wrap-arounds of the ring, late
\* and repeated deliveries, pruning and resets, an event changes the records
\* exactly if its signature is empty or not among the last Cap taken, and then
\* it is counted once, in the record of its own token.  What the map refuses,
\* what the slots hold and what the records count never part.
Applied == INSTANCE Deliveries WITH
    recent <- LastAccepted, refused <- m, taken <- TakenInto, counts <- CountedIn

ImplementsDeliveries == Applied!Spec

\* Holders among the wallets of h counting only swaps up to block time t.
HoldersAsOf(h, t) ==
    LET upTo(w, isBuy) == {i \in SwapsBy(h, w, isBuy) : h[i].at <= t}
    IN  Cardinality({w \in Wallet :
            TotalQty(h, upTo(w, TRUE)) > TotalQty(h, upTo(w, FALSE))})

\* Gate 6 (gate6HolderGrowth in internal/engine/scorer.go): evaluated once both
\* snapshots are non-zero, failed when the later one is not the larger.
Gate6Stalled(t) ==
    t.holders30 # 0 /\ t.holders60 # 0 /\ t.holders60 - t.holders30 <= 0

\* "HoldersAt30m is the distinct holder count snapshot taken when the token
\* reached 30 minutes old" (model/types.go; 60m alike), and "a token that stopped
\* attracting holders at 60m is structurally unsound" (Gate 6): a token whose
\* holders did grow between its two marks is not judged stalled.
GrowthNotJudgedStall ==
    \A mint \in Mint : Live(mint) =>
        LET t == tokens[mint]  h == hist[mint]
        IN  HoldersAsOf(h, t.first + Snap60) > HoldersAsOf(h, t.first + Snap30)
              => ~Gate6Stalled(t)
=============================================================================
