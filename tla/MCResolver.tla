----------------------------- MODULE MCResolver -----------------------------
(***************************************************************************)
(* Two calls of Cluster that share wallet w1.  For safety there are two    *)
(* slots and three wallets, so that two fetches run at a time and a third  *)
(* waits; for liveness, the second call brings one wallet of its own and   *)
(* everyone competes for one slot.  w1 was funded by w3, the others by     *)
(* nobody the provider knows.                                              *)
(***************************************************************************)
EXTENDS Resolver, TLC

CONSTANTS b1, b2, w1, w2, w3

FourLookups == b1 :> {w1, w2} @@ b2 :> {w1, w3}

ThreeLookups == b1 :> {w1} @@ b2 :> {w1, w2}

FunderOfW1 == w1 :> w3 @@ w2 :> NoWallet @@ w3 :> NoWallet
=============================================================================
