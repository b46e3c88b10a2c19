SPECIFICATION MCSpec
CONSTANTS
  Sig = {s1, s2}
  NoSig = NoSig
  Cap = 1
  Mint = {a}
  Wallet = {w1, w2}
  Sol = {1, 2}
  Qty = {1}
  NoToken = NoToken
  Never = Never
  BuyCap = 2
  SellCap = 1
  TradeCap = 2
  TradeWindow = 1
  WinnerDelay = 1
  Snap30 = 2
  Snap60 = 3
  StaleAfter = 3
  MaxLag = 2
  MaxNow = 5
  MaxEvents = 3
SYMMETRY Symmetric
INVARIANTS StoreTypeOK AggregatesExact WindowsExactUntilCap RecentTradesKept SnapshotsInOrder
PROPERTIES SnapshotsFrozen OnlyIdlePruned ImplementsDeliveries
CHECK_DEADLOCK FALSE
