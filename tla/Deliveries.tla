------------------------------ MODULE Deliveries ------------------------------
(***************************************************************************)
(* What the store promises about deliveries ("What is idempotent" and      *)
(* "What is NOT idempotent across restart" in internal/state/store.go, and *)
(* Apply), seen from its callers and readers: no ring, no histories and no *)
(* clock.  An event is taken once and counted once, in the record of its   *)
(* token, and from then on refused until Cap others with a signature have  *)
(* been taken; nothing else is ever refused.  An event that is refused     *)
(* leaves everything as it was, so that it is a stuttering step.           *)
(***************************************************************************)
EXTENDS Integers, Sequences

CONSTANTS
    Sig,    \* non-empty transaction signatures
    NoSig,  \* the empty signature, which is never refused
    Mint,   \* tokens
    Cap     \* SigCacheCap, the deduplication horizon

VARIABLES
    recent,   \* the last Cap signatures taken since the last reset, oldest first
    refused,  \* the signatures Apply answers false to
    taken,    \* Mint -> the signatures of the events taken into its record
    counts    \* Mint -> events its record says it accounts for, 0 where none is held

vars == <<recent, refused, taken, counts>>

Nothing == /\ taken = [mint \in Mint |-> <<>>]
           /\ counts = [mint \in Mint |-> 0]

Init ==
    /\ recent = <<>> /\ refused = {}
    /\ Nothing

\* The horizon with one more signature.
With(sig) == Append(IF Len(recent) < Cap THEN recent ELSE Tail(recent), sig)

Take(sig, mint) ==
    /\ sig \notin refused
    /\ recent' = IF sig = NoSig THEN recent ELSE With(sig)
    /\ refused' = {recent'[i] : i \in DOMAIN recent'}
    /\ taken' = [taken EXCEPT ![mint] = Append(@, sig)]
    /\ counts' = [counts EXCEPT ![mint] = @ + 1]

\* Idle records are dropped; their signatures are still refused.
Drop ==
    /\ \E idle \in SUBSET Mint :
         /\ taken' = [mint \in Mint |-> IF mint \in idle THEN <<>> ELSE taken[mint]]
         /\ counts' = [mint \in Mint |-> IF mint \in idle THEN 0 ELSE counts[mint]]
    /\ UNCHANGED <<recent, refused>>

\* A reset, like a restart, forgets records and signatures together.
Forget ==
    /\ recent' = <<>> /\ refused' = {}
    /\ Nothing'

Next ==
    \/ \E sig \in Sig \cup {NoSig}, mint \in Mint : Take(sig, mint)
    \/ Drop
    \/ Forget

Spec == Init /\ [][Next]_vars
=============================================================================
