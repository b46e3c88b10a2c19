------------------------------ MODULE MCSigRing ------------------------------
(* The ring alone, small enough to wrap around twice.                      *)
EXTENDS SigRing

CONSTANT MaxLog  \* bound: signatures accepted between two resets

MCOffer(sig) == Len(log) < MaxLog /\ Offer(sig)

MCNext == RingReset \/ \E sig \in Sig : MCOffer(sig)

MCSpec == RingInit /\ [][MCNext]_ringVars
=============================================================================
