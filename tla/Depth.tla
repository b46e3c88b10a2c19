-------------------------------- MODULE Depth --------------------------------
(***************************************************************************)
(* Real pool depths (internal/rpc/depth.go, and makeApplyFn in             *)
(* cmd/ingestor/main.go).  Every swap the store took, and that names a     *)
(* pool, starts a goroutine that asks for the pool's depth and writes the  *)
(* answer to the token's record.  Goroutines share the lookup of a pool's  *)
(* WSOL vault while it is under way, its result for ever, and the vault's  *)
(* balance for TTL; the balance itself is fetched by each that misses it.  *)
(*                                                                         *)
(* One token, in several pools.  Time is kept in ages and in what is left  *)
(* of deadlines, so it needs no bound: Tick lets a unit pass once every    *)
(* goroutine that can go on has, and every request at its deadline has     *)
(* failed.  A balance is known by its age, the time since the chain had    *)
(* it.                                                                     *)
(***************************************************************************)
EXTENDS Integers, FiniteSets

CONSTANTS
    Fetch,      \* goroutines of makeApplyFn
    NoFetch,
    Pool,
    WsolPool,   \* external: pools one of whose vaults holds WSOL
    TTL,        \* depthCacheTTL
    Timeout,    \* of the context of one goroutine
    MaxSwaps    \* bound: swaps applied

ASSUME DepthAssumption ==
    /\ WsolPool \subseteq Pool /\ NoFetch \notin Fetch
    /\ TTL \in Nat \ {0} /\ Timeout \in Nat \ {0} /\ MaxSwaps \in Nat

VARIABLES
    task,       \* goroutine -> [pc, pool, left, leader, age]
    entry,      \* goroutine -> the inflightEntry it leads: [done, found]
    poolCache,  \* pools whose WSOL vault is known
    inflight,   \* pool -> the goroutine looking for its vault
    depthCache, \* pool -> [sol, since, age] of its vault
    tracked,    \* the store has a record of the token
    depth,      \* its realPoolDepthSOL: [pool, age], age at the time of writing
    swaps,      \* swaps applied
    changes     \* history: how often the record has changed

lookups == <<entry, poolCache, inflight>>
record == <<tracked, depth, swaps, changes>>
depthVars == <<task, lookups, depthCache, record>>

Idle == [pc |-> "idle", pool |-> NoFetch, left |-> 0, leader |-> NoFetch, age |-> 0]
NoDepth == [pool |-> NoFetch, age |-> 0]
Unknown == [sol |-> "none", since |-> TTL, age |-> 0]

\* Ages past this one are not told apart.
Oldest == TTL + Timeout + 1

DepthTypeOK ==
    /\ task \in [Fetch -> [pc : {"idle", "resolve", "join", "wait", "lead", "announce", "remove",
                                 "look", "read", "answered", "update"},
                           pool : Pool \cup {NoFetch}, left : -1..Timeout,
                           leader : Fetch \cup {NoFetch}, age : 0..Oldest]]
    /\ entry \in [Fetch -> [done : BOOLEAN, found : BOOLEAN]]
    /\ poolCache \in SUBSET Pool
    /\ inflight \in [Pool -> Fetch \cup {NoFetch}]
    /\ depthCache \in [Pool -> [sol : {"none", "known", "failed"}, since : 0..TTL, age : 0..Oldest]]
    /\ tracked \in BOOLEAN
    /\ depth \in [pool : Pool \cup {NoFetch}, age : 0..Oldest]
    /\ swaps \in 0..MaxSwaps /\ changes \in 0..3*MaxSwaps

DepthInit ==
    /\ task = [f \in Fetch |-> Idle]
    /\ entry = [f \in Fetch |-> [done |-> FALSE, found |-> FALSE]]
    /\ poolCache = {} /\ inflight = [p \in Pool |-> NoFetch]
    /\ depthCache = [p \in Pool |-> Unknown]
    /\ tracked = FALSE /\ depth = NoDepth /\ swaps = 0 /\ changes = 0

At(f, pc) == task[f].pc = pc
PoolOf(f) == task[f].pool
Goto(f, pc) == task' = [task EXCEPT ![f].pc = pc]
End(f) == task' = [task EXCEPT ![f] = Idle]

-----------------------------------------------------------------------------
(* The store.                                                              *)

\* A swap that the store had not seen.  Goroutines are as many as needed: one
\* that has ended is used again once nobody looks at its entry any more.
Swap(f, p) ==
    /\ swaps < MaxSwaps /\ At(f, "idle")
    /\ \A g \in Fetch : task[g].leader # f
    /\ task' = [task EXCEPT ![f] = [Idle EXCEPT !.pc = "resolve", !.pool = p, !.left = Timeout]]
    /\ tracked' = TRUE
    /\ swaps' = swaps + 1 /\ changes' = changes + 1
    /\ UNCHANGED <<lookups, depthCache, depth>>

\* PruneStale: a swap delivered late makes no record recent.
Prune ==
    /\ tracked
    /\ tracked' = FALSE /\ depth' = NoDepth /\ changes' = changes + 1
    /\ UNCHANGED <<task, lookups, depthCache, swaps>>

\* A record that is gone is not brought back; one made anew meanwhile takes
\* the answer its predecessor was to have.
UpdateDepth(f) ==
    /\ At(f, "update")
    /\ IF tracked
       THEN depth' = [pool |-> PoolOf(f), age |-> task[f].age] /\ changes' = changes + 1
       ELSE UNCHANGED <<depth, changes>>
    /\ End(f)
    /\ UNCHANGED <<lookups, depthCache, tracked, swaps>>

-----------------------------------------------------------------------------
(* resolveWSOLVault.                                                       *)

Resolve(f) ==
    /\ At(f, "resolve")
    /\ Goto(f, IF PoolOf(f) \in poolCache THEN "look" ELSE "join")
    /\ UNCHANGED <<lookups, depthCache, record>>

\* Under inflightMu: wait for the one that leads, or lead.
Join(f) ==
    LET leader == inflight[PoolOf(f)]
    IN  /\ At(f, "join")
        /\ IF leader # NoFetch
           THEN /\ task' = [task EXCEPT ![f].pc = "wait", ![f].leader = leader]
                /\ UNCHANGED <<entry, inflight>>
           ELSE /\ Goto(f, "lead")
                /\ entry' = [entry EXCEPT ![f] = [done |-> FALSE, found |-> FALSE]]
                /\ inflight' = [inflight EXCEPT ![PoolOf(f)] = f]
        /\ UNCHANGED <<poolCache, depthCache, record>>

\* The pool's account, then its vaults, until one is found to hold WSOL.
VaultFound(f) ==
    /\ At(f, "lead") /\ PoolOf(f) \in WsolPool
    /\ poolCache' = poolCache \cup {PoolOf(f)}
    /\ entry' = [entry EXCEPT ![f].found = TRUE]
    /\ Goto(f, "announce")
    /\ UNCHANGED <<inflight, depthCache, record>>

\* An error, the deadline, or no vault that holds WSOL: none is remembered.
VaultFails(f) ==
    /\ At(f, "lead")
    /\ Goto(f, "announce")
    /\ UNCHANGED <<lookups, depthCache, record>>

\* The bug of ending the wait only where there is a vault.
AnnouncedWhenFound(f) == entry[f].found

Announced(f) == TRUE

\* The deferred wg.Done, then, under the lock, the delete.
Announce(f) ==
    /\ At(f, "announce")
    /\ entry' = [entry EXCEPT ![f].done = Announced(f)]
    /\ Goto(f, "remove")
    /\ UNCHANGED <<poolCache, inflight, depthCache, record>>

Remove(f) ==
    /\ At(f, "remove")
    /\ inflight' = [inflight EXCEPT ![PoolOf(f)] = NoFetch]
    /\ IF entry[f].found THEN Goto(f, "look") ELSE End(f)
    /\ UNCHANGED <<entry, poolCache, depthCache, record>>

\* e.wg.Wait() looks at no context; the leader's failure is the waiter's.
Wake(f) ==
    LET e == entry[task[f].leader]
    IN  /\ At(f, "wait") /\ e.done
        /\ IF e.found THEN task' = [task EXCEPT ![f].pc = "look", ![f].leader = NoFetch]
                      ELSE End(f)
        /\ UNCHANGED <<lookups, depthCache, record>>

-----------------------------------------------------------------------------
(* FetchDepth, once the vault is known.                                    *)

\* The bug of looking at what is cached and not at how long it has been.
CacheHitWhatever(p) == depthCache[p].sol # "none"

CacheHit(p) == depthCache[p].sol # "none" /\ depthCache[p].since < TTL

Look(f) ==
    LET cached == depthCache[PoolOf(f)]
    IN  /\ At(f, "look")
        /\ CASE ~CacheHit(PoolOf(f)) -> Goto(f, "read")
             [] CacheHit(PoolOf(f)) /\ cached.sol = "known" ->
                  task' = [task EXCEPT ![f].pc = "update", ![f].age = cached.age]
             [] CacheHit(PoolOf(f)) /\ cached.sol = "failed" -> End(f)
        /\ UNCHANGED <<lookups, depthCache, record>>

\* The provider reads the balance, and the answer is on its way.
Answer(f) ==
    /\ At(f, "read")
    /\ Goto(f, "answered")
    /\ UNCHANGED <<lookups, depthCache, record>>

Receive(f) ==
    /\ At(f, "answered")
    /\ depthCache' = [depthCache EXCEPT ![PoolOf(f)] =
                        [sol |-> "known", since |-> 0, age |-> task[f].age]]
    /\ Goto(f, "update")
    /\ UNCHANGED <<lookups, record>>

\* An error or the deadline, before the provider's answer or after.
ReadFails(f) ==
    /\ At(f, "read") \/ At(f, "answered")
    /\ depthCache' = [depthCache EXCEPT ![PoolOf(f)] = [sol |-> "failed", since |-> 0, age |-> 0]]
    /\ End(f)
    /\ UNCHANGED <<lookups, record>>

-----------------------------------------------------------------------------
(* Time.                                                                   *)

Older(age) == IF age < Oldest THEN age + 1 ELSE age

\* Nothing more happens to f until something arrives or time passes.
Blocked(f) ==
    \/ At(f, "idle")
    \/ At(f, "wait") /\ ~entry[task[f].leader].done
    \/ task[f].pc \in {"lead", "read", "answered"} /\ task[f].left > 0

Tick ==
    /\ \A f \in Fetch : Blocked(f)
    /\ task' = [f \in Fetch |->
                 IF At(f, "idle") THEN task[f]
                 ELSE [task[f] EXCEPT !.left = IF @ < 0 THEN @ ELSE @ - 1,
                                      !.age = IF At(f, "answered") THEN Older(@) ELSE @]]
    /\ depthCache' = [p \in Pool |->
                       IF depthCache[p].sol = "known"
                       THEN [depthCache[p] EXCEPT !.since = IF @ < TTL THEN @ + 1 ELSE @,
                                                  !.age = Older(@)]
                       ELSE [depthCache[p] EXCEPT !.since = IF @ < TTL THEN @ + 1 ELSE @]]
    /\ UNCHANGED <<lookups, record>>

DepthStep(f) ==
    \/ Resolve(f) \/ Join(f) \/ VaultFound(f) \/ VaultFails(f) \/ Announce(f) \/ Remove(f)
    \/ Wake(f) \/ Look(f) \/ Answer(f) \/ Receive(f) \/ ReadFails(f) \/ UpdateDepth(f)

-----------------------------------------------------------------------------
(* Properties.                                                             *)

\* Nobody is still at it after the deadline of its own context, not even
\* those that wait for another's lookup and look at no context
\* (depth.go:137): whoever leads began before them and, however its lookup
\* ends, ends their wait.
NoWaitPastDeadline == \A f \in Fetch : task[f].left >= 0

\* A depth that is written to a record is that of a pool with a verified
\* WSOL vault, and one the vault had at most the cache's life and one
\* request's ago, although answers overtake each other, failures are cached
\* too and a record may be dropped and made anew while an answer is under
\* way.
WrittenDepthIsRecent ==
    depth # NoDepth => depth.pool \in WsolPool /\ tracked /\ depth.age < TTL + Timeout
=============================================================================
