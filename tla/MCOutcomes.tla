----------------------------- MODULE MCOutcomes -----------------------------
(***************************************************************************)
(* One token classified with the same two blockers in either order, one    *)
(* checkpoint a tick later, a look back of two ticks, one row per query.   *)
(***************************************************************************)
EXTENDS Outcomes

EitherOrder == {[mode |-> "WOW", blockers |-> <<"liquidity", "holders">>, price |-> 5],
                [mode |-> "WOW", blockers |-> <<"holders", "liquidity">>, price |-> 0]}
=============================================================================
