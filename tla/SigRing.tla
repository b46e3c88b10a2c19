------------------------------- MODULE SigRing -------------------------------
(***************************************************************************)
(* The signature deduplication ring of the live store (sigRing in          *)
(* internal/state/store.go): a circular buffer of Cap signatures backed by *)
(* a set.  Store.Apply asks Seen(sig) and then calls Add(sig) while it     *)
(* holds the store's lock, so that one Offer is one step.                  *)
(*                                                                         *)
(* `log` is a history variable: the signatures accepted since the ring was *)
(* built, oldest first.  No action reads it.                               *)
(***************************************************************************)
EXTENDS Integers, Sequences

CONSTANTS
    Sig,    \* non-empty transaction signatures
    NoSig,  \* the zero value of a slot never written
    Cap     \* SigCacheCap

ASSUME SigRingAssumption ==
    /\ Cap \in Nat \ {0}
    /\ NoSig \notin Sig

VARIABLES
    m,      \* the set of signatures held
    buf,    \* buf[0 .. Cap-1], the circular buffer
    pos,    \* next write slot; the oldest slot when the ring is full
    n,      \* entries held
    log     \* history: accepted signatures since the ring was built

ring == <<m, buf, pos, n>>
ringVars == <<m, buf, pos, n, log>>

-----------------------------------------------------------------------------

NewRing ==
    /\ m = {}
    /\ buf = [i \in 0 .. Cap - 1 |-> NoSig]
    /\ pos = 0
    /\ n = 0

RingInit == NewRing /\ log = <<>>

Seen(sig) == sig \in m

\* The bugs of never evicting and of evicting the newest entry.
KeptNeverEvicts == m

KeptNewest == IF n = Cap THEN m \ {buf[(pos + Cap - 1) % Cap]} ELSE m

\* A full ring gives up its oldest entry before the slot is reused.
Kept == IF n = Cap THEN m \ {buf[pos]} ELSE m

\* The bugs of never wrapping and of wrapping past the first slot.
NextSlotUnwrapped == pos + 1

NextSlotSkipsFirst == IF pos + 1 = Cap THEN 1 ELSE pos + 1

NextSlot == (pos + 1) % Cap

Add(sig) ==
    /\ m' = Kept \cup {sig}
    /\ n' = IF n = Cap THEN n ELSE n + 1
    /\ buf' = [buf EXCEPT ![pos] = sig]
    /\ pos' = NextSlot
    /\ log' = Append(log, sig)

\* Store.Reset replaces the ring by a new one.
RingReset ==
    /\ m' = {}
    /\ buf' = [i \in 0 .. Cap - 1 |-> NoSig]
    /\ pos' = 0
    /\ n' = 0
    /\ log' = <<>>

\* A signature offered and not seen is accepted; a seen one changes nothing.
Offer(sig) == ~Seen(sig) /\ Add(sig)

RingNext == RingReset \/ \E sig \in Sig : Offer(sig)

RingSpec == RingInit /\ [][RingNext]_ringVars

-----------------------------------------------------------------------------
(* What the ring must be, in terms of the log.                             *)

\* The slot holding the entry accepted `age` entries ago (0 = the newest).
Slot(age) == IF age < pos THEN pos - 1 - age ELSE pos - 1 - age + Cap

\* Types of the ring's fields, with the two facts about how it fills up:
\* until it is full the write slot is the number of entries.
RingTypeOK ==
    /\ m \subseteq Sig
    /\ buf \in [0 .. Cap - 1 -> Sig \cup {NoSig}]
    /\ pos \in 0 .. Cap - 1
    /\ n \in 0 .. Cap
    /\ n < Cap => pos = n
    /\ log \in Seq(Sig)
    /\ n <= Len(log)
    /\ n < Cap => Len(log) = n

\* The buffer holds the last n accepted signatures, newest just before pos.
BufIsLogSuffix == \A age \in 0 .. n - 1 : buf[Slot(age)] = log[Len(log) - age]

\* The ring answers `seen` for exactly the signatures among the last Cap
\* accepted ones (sigRing.seen/add: no accepted signature is forgotten early,
\* no evicted one lingers in the map, no fresh one is refused).
SeenIsRecent ==
    m = {log[i] : i \in {j \in DOMAIN log : Len(log) - j < Cap}}

\* The idempotency horizon store.go states: a signature is applied again only
\* after Cap other signatures were accepted in between; never one earlier.
DedupHorizon ==
    \A i, j \in DOMAIN log : i < j /\ log[i] = log[j] => j - i > Cap

\* The ring implements the deduplication contract of the store's package
\* comment: it accepts a signature only when the contract lets it, and refuses
\* one only when the contract does.
Contract == INSTANCE Dedup
ImplementsDedup == Contract!Spec /\ [](m = Contract!Recent)

=============================================================================
