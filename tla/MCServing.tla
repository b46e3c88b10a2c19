------------------------------ MODULE MCServing ------------------------------
(***************************************************************************)
(* Two swaps and their goroutines, on a pool with a WSOL vault and one     *)
(* without; a balance is cached for two units, a context ends after one,   *)
(* and rows are old after one.  The loop and one request's goroutine       *)
(* compete for the refresh.                                                *)
(***************************************************************************)
EXTENDS Serving

CONSTANTS f1, f2, raydium, other, loop, asked
=============================================================================
