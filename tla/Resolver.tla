------------------------------ MODULE Resolver ------------------------------
(***************************************************************************)
(* Clustering of buyer wallets: Cluster (internal/cluster/cluster.go)      *)
(* starts one goroutine per wallet under a deadline, each asks the shared  *)
(* HeliusResolver (internal/cluster/helius.go) for the wallet's funder.    *)
(* The resolver caches answers, lets one goroutine per wallet lead a fetch *)
(* that the others wait for, and bounds the fetches in flight.             *)
(*                                                                         *)
(* A lookup is a pair <<batch, wallet>>: a batch is one call of Cluster,   *)
(* made once.  A lookup that leads stands for its inflightEntry.           *)
(***************************************************************************)
EXTENDS Integers, FiniteSets

CONSTANTS
    Batch,      \* calls of Cluster
    Wallet,
    NoWallet,
    WalletsOf,  \* batch -> the wallets it is given
    Funder,     \* external: wallet -> what the provider knows, NoWallet if nothing
    Slots,      \* MaxConcurrency
    MaxConsecFail

Lookup == {l \in Batch \X Wallet : l[2] \in WalletsOf[l[1]]}
NoLookup == <<>>

ASSUME ResolverAssumption ==
    /\ WalletsOf \in [Batch -> SUBSET Wallet]
    /\ NoWallet \notin Wallet
    /\ Funder \in [Wallet -> Wallet \cup {NoWallet}]
    /\ \A w \in Wallet : Funder[w] # w
    /\ Slots \in Nat \ {0} /\ MaxConsecFail \in Nat \ {0}

VARIABLES
    pc,             \* lookup -> where its goroutine is
    expired,        \* batch -> its context is done
    cache,          \* wallet -> "none", "positive" or "negative"
    inflight,       \* wallet -> the lookup leading its fetch
    awaits,         \* lookup -> the entry it waits for
    entry,          \* lookup -> what its entry publishes: done, parent
    consecFail, timeoutFallbk, errorFallbk,
    root,           \* lookup -> the root it contributes to its batch
    err,            \* lookup -> the error ResolveParent returned
    unanswered      \* history: lookups that took their own wallet as root
                    \* without any answer of the provider about it

counters == <<consecFail, timeoutFallbk, errorFallbk>>
answers == <<root, err, unanswered>>
vars == <<pc, expired, cache, inflight, awaits, entry, counters, answers>>

WalletOf(l) == l[2]
Known(w) == IF Funder[w] = NoWallet THEN w ELSE Funder[w]

-----------------------------------------------------------------------------
(* Returning.                                                              *)

\* The lookup goes on at `next` with r as its root; `answered` says whether
\* the provider stands behind r.
Return(l, next, r, e, answered) ==
    /\ pc' = [pc EXCEPT ![l] = next]
    /\ root' = [root EXCEPT ![l] = r]
    /\ err' = [err EXCEPT ![l] = e]
    /\ unanswered' = IF answered THEN unanswered ELSE unanswered \cup {l}

IsHealthy == consecFail < MaxConsecFail

Goto(l, next) == pc' = [pc EXCEPT ![l] = next] /\ UNCHANGED answers

-----------------------------------------------------------------------------
(* Cluster.                                                                *)

Start(b) ==
    /\ \A l \in Lookup : l[1] = b => pc[l] = "idle"
    /\ pc' = [l \in Lookup |-> IF l[1] = b THEN "begin" ELSE pc[l]]
    /\ UNCHANGED <<expired, cache, inflight, awaits, entry, counters, answers>>

\* context.WithTimeout of clusterWindow.
Expire(b) ==
    /\ ~expired[b]
    /\ \E l \in Lookup : l[1] = b /\ pc[l] \notin {"idle", "returned"}
    /\ expired' = [expired EXCEPT ![b] = TRUE]
    /\ UNCHANGED <<pc, cache, inflight, awaits, entry, counters, answers>>

\* A goroutine that starts after the deadline does not ask.
Begin(l) ==
    /\ pc[l] = "begin"
    /\ IF expired[l[1]] THEN Return(l, "returned", WalletOf(l), "none", FALSE)
                        ELSE Goto(l, "lookup")
    /\ UNCHANGED <<expired, cache, inflight, awaits, entry, counters>>

-----------------------------------------------------------------------------
(* ResolveParent.                                                          *)

CacheLookup(l) ==
    /\ pc[l] = "lookup"
    /\ CASE cache[WalletOf(l)] = "none" -> Goto(l, "join")
         [] cache[WalletOf(l)] = "positive" ->
              Return(l, "returned", Funder[WalletOf(l)], "none", TRUE)
         [] cache[WalletOf(l)] = "negative" ->
              Return(l, "returned", WalletOf(l), "none", TRUE)
    /\ UNCHANGED <<expired, cache, inflight, awaits, entry, counters>>

\* The TTL of an entry runs out.
CacheExpire(w) ==
    /\ cache[w] # "none"
    /\ cache' = [cache EXCEPT ![w] = "none"]
    /\ UNCHANGED <<pc, expired, inflight, awaits, entry, counters, answers>>

\* The bug of looking at the cache only: every miss fetches.
LeaderOfForgetful(w) == NoLookup

LeaderOf(w) == inflight[w]

\* Under inflightMu: wait for the leader, or become it.
Join(l) ==
    LET w == WalletOf(l)
    IN  /\ pc[l] = "join"
        /\ IF LeaderOf(w) # NoLookup
           THEN /\ Goto(l, "wait")
                /\ awaits' = [awaits EXCEPT ![l] = LeaderOf(w)]
                /\ UNCHANGED inflight
           ELSE /\ Goto(l, "acquire")
                /\ inflight' = [inflight EXCEPT ![w] = l]
                /\ UNCHANGED awaits
        /\ UNCHANGED <<expired, cache, entry, counters>>

\* e.wg.Wait() looks at no context; a leader without a parent, for whatever
\* reason, makes the waiter its own root, with no error.
Wake(l) ==
    LET e == entry[awaits[l]]
    IN  /\ pc[l] = "wait" /\ e.done
        /\ IF e.parent # NoWallet THEN Return(l, "returned", e.parent, "none", TRUE)
           ELSE Return(l, "returned", WalletOf(l), "none", awaits[l] \notin unanswered)
        /\ UNCHANGED <<expired, cache, inflight, awaits, entry, counters>>

SlotFree == Cardinality({l \in Lookup : pc[l] = "fetch"}) < Slots

Acquire(l) ==
    /\ pc[l] = "acquire" /\ SlotFree
    /\ Goto(l, "fetch")
    /\ UNCHANGED <<expired, cache, inflight, awaits, entry, counters>>

\* The bug of returning before the deferred wg.Done is registered.
AfterGivingUpSilently == "returned"

AfterGivingUp == "announce"

\* The deadline passes first: own root, and no error.
GiveUp(l) ==
    /\ pc[l] = "acquire" /\ expired[l[1]]
    /\ Return(l, AfterGivingUp, WalletOf(l), "none", FALSE)
    /\ UNCHANGED <<expired, cache, inflight, awaits, entry, counters>>

\* The bug of paying one success off against one failure.
ConsecFailAfterSuccessPaidOff == consecFail - 1

ConsecFailAfterSuccess == 0

FetchSucceeds(l) ==
    LET w == WalletOf(l)
    IN  /\ pc[l] = "fetch"
        /\ Return(l, "announce", Known(w), "none", TRUE)
        /\ cache' = [cache EXCEPT ![w] = IF Funder[w] = NoWallet THEN "negative" ELSE "positive"]
        /\ entry' = [entry EXCEPT ![l].parent = Funder[w]]
        /\ consecFail' = ConsecFailAfterSuccess
        /\ UNCHANGED <<expired, inflight, awaits, timeoutFallbk, errorFallbk>>

\* The bug of remembering a failed fetch as "no parent".
CacheAfterFailureNegative(w) == [cache EXCEPT ![w] = "negative"]

CacheAfterFailure(w) == cache

\* The bug of taking a deadline for a failure of the provider.
ConsecFailAfterTimeoutCounted == consecFail + 1

ConsecFailAfterTimeout == consecFail

\* Any error once the deadline has passed.
FetchTimesOut(l) ==
    /\ pc[l] = "fetch" /\ expired[l[1]]
    /\ Return(l, "announce", WalletOf(l), "timeout", FALSE)
    /\ timeoutFallbk' = timeoutFallbk + 1
    /\ cache' = CacheAfterFailure(WalletOf(l))
    /\ consecFail' = ConsecFailAfterTimeout
    /\ UNCHANGED <<expired, inflight, awaits, entry, errorFallbk>>

FetchFails(l) ==
    /\ pc[l] = "fetch" /\ ~expired[l[1]]
    /\ Return(l, "announce", WalletOf(l), "error", FALSE)
    /\ errorFallbk' = errorFallbk + 1
    /\ consecFail' = consecFail + 1
    /\ cache' = CacheAfterFailure(WalletOf(l))
    /\ UNCHANGED <<expired, inflight, awaits, entry, timeoutFallbk>>

\* The deferred function: wake the waiters, then, under the lock, forget the
\* entry.  Between the two a newcomer still joins the finished entry.
Announce(l) ==
    /\ pc[l] = "announce"
    /\ entry' = [entry EXCEPT ![l].done = TRUE]
    /\ Goto(l, "remove")
    /\ UNCHANGED <<expired, cache, inflight, awaits, counters>>

\* The bug of leaving the entry behind.
WithoutEntryKept(w) == inflight

WithoutEntry(w) == [inflight EXCEPT ![w] = NoLookup]

Remove(l) ==
    /\ pc[l] = "remove"
    /\ inflight' = WithoutEntry(WalletOf(l))
    /\ Goto(l, "returned")
    /\ UNCHANGED <<expired, cache, awaits, entry, counters>>

-----------------------------------------------------------------------------
Init ==
    /\ pc = [l \in Lookup |-> "idle"]
    /\ expired = [b \in Batch |-> FALSE]
    /\ cache = [w \in Wallet |-> "none"]
    /\ inflight = [w \in Wallet |-> NoLookup]
    /\ awaits = [l \in Lookup |-> NoLookup]
    /\ entry = [l \in Lookup |-> [done |-> FALSE, parent |-> NoWallet]]
    /\ consecFail = 0 /\ timeoutFallbk = 0 /\ errorFallbk = 0
    /\ root = [l \in Lookup |-> NoWallet]
    /\ err = [l \in Lookup |-> "none"]
    /\ unanswered = {}

FetchEnds(l) == FetchSucceeds(l) \/ FetchTimesOut(l) \/ FetchFails(l)

\* Everything the goroutine of a lookup does.
Step(l) ==
    \/ Begin(l) \/ CacheLookup(l) \/ Join(l) \/ Wake(l) \/ Acquire(l) \/ GiveUp(l)
    \/ FetchEnds(l) \/ Announce(l) \/ Remove(l)

\* Every call of Cluster has been made and has returned.
Finished == (\A l \in Lookup : pc[l] = "returned") /\ UNCHANGED vars

Next ==
    \/ \E b \in Batch : Start(b) \/ Expire(b)
    \/ \E w \in Wallet : CacheExpire(w)
    \/ \E l \in Lookup : Step(l)
    \/ Finished

Spec == Init /\ [][Next]_vars

\* Goroutines run, deadlines pass, and a fetch ends at the latest with the
\* deadline of its context or the client's own timeout.
Fairness ==
    /\ \A l \in Lookup : WF_vars(Step(l))
    /\ \A b \in Batch : WF_vars(Expire(b))

FairSpec == Spec /\ Fairness

-----------------------------------------------------------------------------
(* What holds.                                                             *)

\* Each variable stays in its range.
TypeOK ==
    /\ pc \in [Lookup -> {"idle", "begin", "lookup", "join", "wait", "acquire", "fetch",
                          "announce", "remove", "returned"}]
    /\ expired \in [Batch -> BOOLEAN]
    /\ cache \in [Wallet -> {"none", "positive", "negative"}]
    /\ inflight \in [Wallet -> Lookup \cup {NoLookup}]
    /\ awaits \in [Lookup -> Lookup \cup {NoLookup}]
    /\ entry \in [Lookup -> [done : BOOLEAN, parent : Wallet \cup {NoWallet}]]
    /\ consecFail \in Nat
    /\ timeoutFallbk \in Nat /\ errorFallbk \in Nat
    /\ root \in [Lookup -> Wallet \cup {NoWallet}]
    /\ err \in [Lookup -> {"none", "timeout", "error"}]
    /\ unanswered \subseteq Lookup

\* "prevents request stampede for same wallet" and "concurrency cap" (helius.go,
\* inflight and sem): however many calls of Cluster run, no two lookups fetch one
\* wallet at a time, and no more than MaxConcurrency fetch at all.
OneFetchPerWallet ==
    \A l, k \in Lookup :
        pc[l] = "fetch" /\ pc[k] = "fetch" /\ WalletOf(l) = WalletOf(k) => l = k

SlotsRespected == Cardinality({l \in Lookup : pc[l] = "fetch"}) <= Slots

FetchesBounded == OneFetchPerWallet /\ SlotsRespected

\* An entry of the in-flight map belongs to a goroutine that will still remove
\* it, and whoever waits, waits for an entry that is done or still led: no path
\* through ResolveParent (timeout, error, no slot) leaves a dead entry behind.
EntriesAreLed ==
    LET Leading == {"acquire", "fetch", "announce", "remove"}
    IN  /\ \A w \in Wallet : inflight[w] # NoLookup =>
                WalletOf(inflight[w]) = w /\ pc[inflight[w]] \in Leading
        /\ \A l \in Lookup : pc[l] = "wait" =>
                entry[awaits[l]].done \/ pc[awaits[l]] \in Leading

\* A root the resolver stands behind is the wallet's true root, whether it was
\* fetched, cached, or taken from another goroutine's entry: a failed or timed
\* out fetch is never remembered or passed on as the answer "no parent".
AnswersAreTrue ==
    \A l \in Lookup : pc[l] = "returned" /\ l \notin unanswered => root[l] = Known(WalletOf(l))

\* "Consecutive API failures" (helius.go, IsHealthy) and the test that deadlines
\* of requests do not degrade global health: the resolver is unhealthy only
\* when that many lookups got an error from the provider before their deadline.
OnlyErrorsDegrade ==
    ~IsHealthy => Cardinality({l \in Lookup : err[l] = "error"}) >= MaxConsecFail

\* Cluster returns: every lookup that begins ends, whatever fails.
EveryLookupReturns == \A l \in Lookup : pc[l] = "begin" ~> pc[l] = "returned"

-----------------------------------------------------------------------------
(* What the code's comments say and the code does not do.                  *)

\* Cluster's fallback count.
ResolverFallbackCount(b) == Cardinality({l \in Lookup : l[1] = b /\ err[l] # "none"})

\* cluster.go:74: "ResolverFallbackCount is the number of wallets that fell back
\* to raw roots because the resolver errored or timed out."  Claimed here only of
\* calls that return before their own deadline.
FallbacksCounted ==
    \A b \in Batch :
        ~expired[b] /\ (\A l \in Lookup : l[1] = b => pc[l] = "returned")
            => ResolverFallbackCount(b) = Cardinality({l \in unanswered : l[1] = b})
=============================================================================
