----------------------------- MODULE MCSwapStore -----------------------------
(* The store with one or two tokens, two wallets and a short clock.  Marks   *)
(* and windows keep the order they have in the code: the trade window and    *)
(* the winner delay are below the 30 minute mark, that one below the 60      *)
(* minute mark, and a token goes stale only after it.                        *)
EXTENDS SwapStore, TLC

CONSTANTS
    MaxNow,    \* bound: the clock
    MaxEvents  \* bound: events applied to the live records

Held == MapThenSumSet(LAMBDA mint : Len(hist[mint]), Mint)

\* Buys cost 1, so that a sale for 2 makes a winner and a sale for 1 does not.
MCEvent == {ev \in SwapEvent : ev.isBuy => ev.sol = 1}

MCApply == Held < MaxEvents /\ \E ev \in MCEvent : Apply(ev)
MCTick == now < MaxNow /\ Tick
\* Bound: a depth fetch completes at the last tick only.
MCDepth == now = MaxNow /\ \E mint \in Mint, d \in {-1, 0} : UpdateDepth(mint, d)

MCNext == MCApply \/ PruneStale \/ MCDepth \/ Reset \/ MCTick

MCSpec == StoreInit /\ [][MCNext]_vars

Symmetric == Permutations(Wallet) \cup Permutations(Sig)
=============================================================================
