-------------------------------- MODULE Dedup --------------------------------
(***************************************************************************)
(* What the store promises about duplicate deliveries ("What is            *)
(* idempotent" in internal/state/store.go), without the ring: a signature  *)
(* is accepted exactly when it is not among the last Cap accepted ones,    *)
(* and a reset or a restart forgets every one of them.                     *)
(***************************************************************************)
EXTENDS Integers, Sequences

CONSTANTS
    Sig,  \* non-empty transaction signatures
    Cap   \* SigCacheCap, the deduplication horizon

VARIABLE log  \* accepted signatures since the last reset, oldest first

Recent == {log[i] : i \in {j \in DOMAIN log : Len(log) - j < Cap}}

Init == log = <<>>

Accept(sig) == sig \notin Recent /\ log' = Append(log, sig)

Forget == log' = <<>>

Next == Forget \/ \E sig \in Sig : Accept(sig)

Spec == Init /\ [][Next]_log
=============================================================================
