---------------------------- MODULE ServingProofs ----------------------------
(***************************************************************************)
(* Depths and served rows, for any number of goroutines, pools, swaps and  *)
(* requests: waits end with the deadline of whoever waits, written depths  *)
(* are recent and of WSOL vaults, and served rows never go back.           *)
(***************************************************************************)
EXTENDS Serving, FiniteSetTheorems, TLAPS

-----------------------------------------------------------------------------
(* The inductive invariant of the depth client.                            *)

Leading(f) == task[f].pc \in {"lead", "announce", "remove"}

\* The in-flight map holds exactly those that look for a pool's vault.
LeadersInFlight ==
    /\ \A p \in Pool : inflight[p] # NoFetch =>
            Leading(inflight[p]) /\ PoolOf(inflight[p]) = p
    /\ \A f \in Fetch : Leading(f) => inflight[PoolOf(f)] = f

\* An entry tells of a vault only where there is one.
VaultsAreTrue ==
    /\ poolCache \subseteq WsolPool
    /\ \A f \in Fetch : /\ At(f, "remove") => entry[f].done
                        /\ Leading(f) /\ entry[f].found => PoolOf(f) \in WsolPool
                        /\ task[f].pc \in {"look", "read", "answered", "update"} =>
                             PoolOf(f) \in WsolPool

\* Whoever waits, waits for one that looks for the same pool's vault and has no
\* more time left, or that has announced it and is not used again meanwhile.
Led(f) ==
    LET leader == task[f].leader
    IN  /\ leader # NoFetch <=> At(f, "wait")
        /\ At(f, "wait") =>
            /\ \/ /\ task[leader].pc \in {"lead", "announce"}
                  /\ PoolOf(leader) = PoolOf(f) /\ task[leader].left <= task[f].left
               \/ /\ task[leader].pc \in {"remove", "look", "read", "answered", "update", "idle"}
                  /\ entry[leader].done
            /\ entry[leader].found => PoolOf(f) \in WsolPool

WaitsAreLed == \A f \in Fetch : Led(f)

\* No time passes before a goroutine has joined or leads.
InTime ==
    /\ NoWaitPastDeadline
    /\ \A f \in Fetch : task[f].pc \in {"resolve", "join"} => task[f].left = Timeout

\* An answer under way is as old as the time it took, a cached one at most a
\* request older than its place in the cache.
AgesBounded ==
    /\ \A f \in Fetch :
        /\ task[f].pc \notin {"answered", "update"} => task[f].age = 0
        /\ At(f, "answered") => task[f].age + task[f].left <= Timeout
        /\ At(f, "update") => task[f].age < TTL + Timeout
    /\ \A p \in Pool : depthCache[p].sol = "known" /\ depthCache[p].since < TTL =>
                         depthCache[p].age <= depthCache[p].since + Timeout

Busy == {f \in Fetch : ~At(f, "idle")}

\* A swap changes the record at most three times: when it is applied, when
\* its depth is written, and when the record it made is dropped.
ChangesAccounted ==
    /\ IsFiniteSet(Busy)
    /\ changes + Cardinality(Busy) + (IF tracked THEN 1 ELSE 0) <= 3 * swaps

BusyHasPool == \A f \in Fetch : ~At(f, "idle") => PoolOf(f) \in Pool

DepthInv ==
    /\ DepthTypeOK /\ BusyHasPool /\ LeadersInFlight /\ VaultsAreTrue /\ WaitsAreLed
    /\ InTime /\ AgesBounded /\ WrittenDepthIsRecent /\ ChangesAccounted

\* One refresh at a time, under the flag, with what the store had when it
\* began, which is no less than what the rows show.
RefreshInv ==
    /\ TypeOK
    /\ \A g \in Refresher : refresher[g].pc \in {"build", "release"} => refreshing
    /\ \A g, h \in Refresher :
        /\ refresher[g].pc \in {"build", "release"}
        /\ refresher[h].pc \in {"build", "release"}
        => g = h
    /\ rows <= changes
    /\ \A g \in Refresher : refresher[g].pc = "build" =>
                              rows <= refresher[g].saw /\ refresher[g].saw <= changes

ServingInv == DepthInv /\ RefreshInv

\* No goroutine, empty caches.
LEMMA DepthInit_Inv == DepthInit => DepthInv
  <1> SUFFICES ASSUME DepthInit PROVE DepthInv
    OBVIOUS
  <1> USE DepthAssumption DEF DepthInit, Idle, NoDepth, Unknown
  <1>1. DepthTypeOK
    <2>1. task \in [Fetch -> [pc : {"idle", "resolve", "join", "wait", "lead", "announce", "remove",
                                 "look", "read", "answered", "update"},
                             pool : Pool \cup {NoFetch}, left : -1..Timeout,
                             leader : Fetch \cup {NoFetch}, age : 0..Oldest]]
      BY DEF Oldest
    <2>2. depthCache \in [Pool -> [sol : {"none", "known", "failed"}, since : 0..TTL, age : 0..Oldest]]
      BY DEF Oldest
    <2>3. /\ swaps \in 0..MaxSwaps /\ changes \in 0..3*MaxSwaps
          /\ depth \in [pool : Pool \cup {NoFetch}, age : 0..Oldest]
      BY DEF Oldest
    <2>4. /\ entry \in [Fetch -> [done : BOOLEAN, found : BOOLEAN]]
          /\ poolCache \in SUBSET Pool /\ inflight \in [Pool -> Fetch \cup {NoFetch}]
          /\ tracked \in BOOLEAN
      OBVIOUS
    <2> QED
      BY <2>1, <2>2, <2>3, <2>4 DEF DepthTypeOK
  <1>2. LeadersInFlight /\ VaultsAreTrue /\ WaitsAreLed
    BY DEF LeadersInFlight, VaultsAreTrue, WaitsAreLed, Led, Leading, At
  <1>3. InTime /\ AgesBounded /\ BusyHasPool
    BY DEF InTime, NoWaitPastDeadline, AgesBounded, BusyHasPool, At
  <1>4. WrittenDepthIsRecent
    BY DEF WrittenDepthIsRecent
  <1>5. ChangesAccounted
    <2>1. Busy = {}
      BY DEF Busy, At
    <2> QED
      BY <2>1, FS_EmptySet DEF ChangesAccounted
  <1> QED
    BY <1>1, <1>2, <1>3, <1>4, <1>5 DEF DepthInv

-----------------------------------------------------------------------------
(* What a step does to the accounting.                                     *)

\* Goroutines that end, and those that only move on, leave the record alone.
LEMMA NoMoreBusy ==
    ASSUME ChangesAccounted, swaps \in Nat, changes \in Nat,
           Busy' \in SUBSET Busy, UNCHANGED record
    PROVE  ChangesAccounted'
  <1>1. IsFiniteSet(Busy') /\ Cardinality(Busy') <= Cardinality(Busy)
    BY FS_Subset DEF ChangesAccounted
  <1>2. Cardinality(Busy') \in Nat /\ Cardinality(Busy) \in Nat
    BY <1>1, FS_CardinalityType DEF ChangesAccounted
  <1> QED
    BY <1>1, <1>2 DEF ChangesAccounted, record

\* An applied swap starts a goroutine.
LEMMA SwapStep ==
    ASSUME DepthInv, NEW f \in Fetch, NEW p \in Pool, Swap(f, p)
    PROVE  DepthInv'
  <1> USE DepthAssumption DEF DepthInv
  <1> DEFINE new == [Idle EXCEPT !.pc = "resolve", !.pool = p, !.left = Timeout]
  <1>1. /\ At(f, "idle") /\ swaps < MaxSwaps
        /\ \A g \in Fetch : task[g].leader # f
        /\ task' = [task EXCEPT ![f] = new]
        /\ tracked' = TRUE /\ swaps' = swaps + 1 /\ changes' = changes + 1
        /\ UNCHANGED <<entry, poolCache, inflight, depthCache, depth>>
    BY DEF Swap, lookups
  <1>2. /\ new \in [pc : {"resolve"}, pool : {p}, left : {Timeout}, leader : {NoFetch}, age : {0}]
        /\ new.pc = "resolve" /\ new.pool = p /\ new.left = Timeout
        /\ new.leader = NoFetch /\ new.age = 0
    BY DEF Idle
  <1>3. task'[f] = new /\ \A g \in Fetch : g # f => task'[g] = task[g]
    BY <1>1 DEF DepthTypeOK
  <1> HIDE DEF new
  <1>c. ChangesAccounted'
    <2>1. Busy' = Busy \cup {f} /\ f \notin Busy
      BY <1>1, <1>2, <1>3 DEF Busy, At
    <2>2. IsFiniteSet(Busy') /\ Cardinality(Busy') = Cardinality(Busy) + 1
      BY <2>1, FS_AddElement DEF ChangesAccounted
    <2>3. Cardinality(Busy) \in Nat
      BY FS_CardinalityType DEF ChangesAccounted
    <2> QED
      BY <1>1, <2>2, <2>3 DEF ChangesAccounted, DepthTypeOK
  <1>4. DepthTypeOK'
    <2>1. Cardinality(Busy') \in Nat
      BY <1>c, FS_CardinalityType DEF ChangesAccounted
    <2>2. changes' <= 3 * swaps' /\ swaps' \in 0..MaxSwaps
      BY <1>1, <1>c, <2>1 DEF ChangesAccounted, DepthTypeOK
    <2> QED
      BY <1>1, <1>2, <2>2 DEF DepthTypeOK, Oldest
  <1>5. LeadersInFlight'
    BY <1>1, <1>2, <1>3 DEF LeadersInFlight, Leading, At, PoolOf, DepthTypeOK
  <1>6. VaultsAreTrue' /\ BusyHasPool'
    BY <1>1, <1>2, <1>3 DEF VaultsAreTrue, BusyHasPool, Leading, At, PoolOf
  <1>7. WaitsAreLed'
    BY <1>1, <1>2, <1>3 DEF WaitsAreLed, Led, At, PoolOf, DepthTypeOK
  <1>8. InTime' /\ AgesBounded'
    BY <1>1, <1>2, <1>3 DEF InTime, NoWaitPastDeadline, AgesBounded, At
  <1>9. WrittenDepthIsRecent'
    BY <1>1 DEF WrittenDepthIsRecent
  <1> QED
    BY <1>4, <1>5, <1>6, <1>7, <1>8, <1>9, <1>c

-----------------------------------------------------------------------------
(* The steps of a goroutine.                                               *)

Stage == {"idle", "resolve", "join", "wait", "lead", "announce", "remove",
          "look", "read", "answered", "update"}

TaskOK ==
    task \in [Fetch -> [pc : Stage, pool : Pool \cup {NoFetch}, left : -1..Timeout,
                        leader : Fetch \cup {NoFetch}, age : 0..Oldest]]

\* The fields of a goroutine's task.
LEMMA TaskTypes ==
    ASSUME DepthTypeOK
    PROVE  /\ \A g \in Fetch : /\ task[g].pc \in Stage /\ task[g].pool \in Pool \cup {NoFetch}
                              /\ task[g].left \in Int /\ task[g].left <= Timeout
                              /\ task[g].leader \in Fetch \cup {NoFetch} /\ task[g].age \in Nat
           /\ \A p \in Pool : depthCache[p].since \in Nat /\ depthCache[p].age \in Nat
  BY DepthAssumption DEF DepthTypeOK, Stage, Oldest

\* What Goto leaves of a task.
LEMMA MovesOn ==
    ASSUME TaskOK, NEW f \in Fetch, NEW stage \in Stage, Goto(f, stage)
    PROVE  /\ TaskOK'
           /\ \A g \in Fetch : g # f => task'[g] = task[g]
           /\ task'[f].pc = stage /\ task'[f].pool = task[f].pool /\ task'[f].left = task[f].left
           /\ task'[f].leader = task[f].leader /\ task'[f].age = task[f].age
  BY DEF TaskOK, Goto

Following(f, stage, leader) == [task EXCEPT ![f].pc = stage, ![f].leader = leader]

\* A step that changes the stage and the leader of one goroutine.
LEMMA WaitsFor ==
    ASSUME TaskOK, NEW f \in Fetch, NEW stage \in Stage, NEW leader \in Fetch \cup {NoFetch},
           task' = Following(f, stage, leader)
    PROVE  /\ TaskOK'
           /\ \A g \in Fetch : g # f => task'[g] = task[g]
           /\ task'[f].pc = stage /\ task'[f].pool = task[f].pool /\ task'[f].left = task[f].left
           /\ task'[f].leader = leader /\ task'[f].age = task[f].age
  <1> DEFINE moved == [task EXCEPT ![f].pc = stage]
  <1>1. /\ moved \in [Fetch -> [pc : Stage, pool : Pool \cup {NoFetch}, left : -1..Timeout,
                               leader : Fetch \cup {NoFetch}, age : 0..Oldest]]
        /\ \A g \in Fetch : g # f => moved[g] = task[g]
        /\ moved[f].pc = stage /\ moved[f].pool = task[f].pool
        /\ moved[f].left = task[f].left /\ moved[f].age = task[f].age
    BY DEF TaskOK
  <1>2. task' = [moved EXCEPT ![f].leader = leader]
    BY DEF Following
  <1> HIDE DEF moved
  <1> QED
    BY <1>1, <1>2 DEF TaskOK

Aged(f, stage, age) == [task EXCEPT ![f].pc = stage, ![f].age = age]

\* A step that changes the stage and the answer's age of one goroutine.
LEMMA TakesAge ==
    ASSUME TaskOK, NEW f \in Fetch, NEW stage \in Stage, NEW age \in 0..Oldest,
           task' = Aged(f, stage, age)
    PROVE  /\ TaskOK'
           /\ \A g \in Fetch : g # f => task'[g] = task[g]
           /\ task'[f].pc = stage /\ task'[f].pool = task[f].pool /\ task'[f].left = task[f].left
           /\ task'[f].leader = task[f].leader /\ task'[f].age = age
  <1> DEFINE moved == [task EXCEPT ![f].pc = stage]
  <1>1. /\ moved \in [Fetch -> [pc : Stage, pool : Pool \cup {NoFetch}, left : -1..Timeout,
                               leader : Fetch \cup {NoFetch}, age : 0..Oldest]]
        /\ \A g \in Fetch : g # f => moved[g] = task[g]
        /\ moved[f].pc = stage /\ moved[f].pool = task[f].pool
        /\ moved[f].left = task[f].left /\ moved[f].leader = task[f].leader
    BY DEF TaskOK
  <1>2. task' = [moved EXCEPT ![f].age = age]
    BY DEF Aged
  <1> HIDE DEF moved
  <1> QED
    BY <1>1, <1>2 DEF TaskOK

\* A step that ends one goroutine.
LEMMA Ends ==
    ASSUME TaskOK, NEW f \in Fetch, End(f)
    PROVE  /\ TaskOK'
           /\ \A g \in Fetch : g # f => task'[g] = task[g]
           /\ task'[f].pc = "idle" /\ task'[f].pool = NoFetch /\ task'[f].left = 0
           /\ task'[f].leader = NoFetch /\ task'[f].age = 0
  BY DepthAssumption DEF TaskOK, End, Idle, Stage, Oldest

\* A goroutine that was at work changes its task alone.
LEMMA MoverBusy ==
    ASSUME NEW f \in Fetch, ~At(f, "idle"), \A g \in Fetch : g # f => task'[g] = task[g]
    PROVE  Busy' \in SUBSET Busy
  BY DEF Busy, At

\* A goroutine that neither led nor leads leaves the map to its leaders.
LEMMA OthersLead ==
    ASSUME DepthTypeOK, LeadersInFlight, UNCHANGED inflight,
           NEW f \in Fetch, \A g \in Fetch : g # f => task'[g] = task[g],
           task[f].pc \notin {"lead", "announce", "remove"},
           task'[f].pc \notin {"lead", "announce", "remove"}
    PROVE  LeadersInFlight'
  <1>1. \A p \in Pool : inflight[p] # NoFetch => inflight[p] \in Fetch /\ inflight[p] # f
    BY DEF DepthTypeOK, LeadersInFlight, Leading
  <1>2. \A g \in Fetch : Leading(g)' => g # f
    BY DEF Leading
  <1> QED
    BY <1>1, <1>2 DEF LeadersInFlight, Leading, PoolOf

\* A leader that goes on leading is still the one of its pool.
LEMMA StillLeads ==
    ASSUME DepthTypeOK, LeadersInFlight, UNCHANGED inflight,
           NEW f \in Fetch, \A g \in Fetch : g # f => task'[g] = task[g],
           task[f].pc \in {"lead", "announce", "remove"}, task'[f].pool = task[f].pool,
           task'[f].pc \in {"lead", "announce", "remove"}
    PROVE  LeadersInFlight'
  <1>1. \A p \in Pool : inflight[p] # NoFetch => inflight[p] \in Fetch
    BY DEF DepthTypeOK
  <1>2. \A g \in Fetch : (Leading(g)' <=> Leading(g)) /\ PoolOf(g)' = PoolOf(g)
    BY DEF Leading, PoolOf
  <1> QED
    BY <1>1, <1>2 DEF LeadersInFlight

\* A pool whose vault is cached is looked up at once.
LEMMA ResolveStep ==
    ASSUME DepthInv, NEW f \in Fetch, Resolve(f)
    PROVE  DepthInv'
  <1> USE DepthAssumption DEF DepthInv
  <1> DEFINE stage == IF PoolOf(f) \in poolCache THEN "look" ELSE "join"
  <1>1. /\ At(f, "resolve") /\ Goto(f, stage) /\ stage \in Stage
        /\ stage = "look" => PoolOf(f) \in poolCache
        /\ stage \in {"look", "join"}
        /\ UNCHANGED <<entry, poolCache, inflight, depthCache, tracked, depth, swaps, changes>>
    BY DEF Resolve, lookups, record, Stage
  <1> HIDE DEF stage
  <1>2. /\ TaskOK'
        /\ \A g \in Fetch : g # f => task'[g] = task[g]
        /\ task'[f].pc = stage /\ task'[f].pool = task[f].pool /\ task'[f].left = task[f].left
        /\ task'[f].leader = task[f].leader /\ task'[f].age = task[f].age
    BY <1>1, MovesOn DEF TaskOK, DepthTypeOK, Stage
  <1>3. DepthTypeOK'
    BY <1>1, <1>2 DEF DepthTypeOK, TaskOK, Stage, Oldest
  <1>4. LeadersInFlight'
    BY <1>1, <1>2, OthersLead DEF At
  <1>5. VaultsAreTrue' /\ BusyHasPool'
    BY <1>1, <1>2 DEF VaultsAreTrue, BusyHasPool, Leading, At, PoolOf
  <1>6. WaitsAreLed'
    <2> SUFFICES ASSUME NEW g \in Fetch PROVE Led(g)'
      BY DEF WaitsAreLed
    <2>1. Led(g) /\ task[g].leader \in Fetch \cup {NoFetch}
      BY TaskTypes DEF WaitsAreLed
    <2>2. \A h \in Fetch : task'[h].pool = task[h].pool /\ task'[h].left = task[h].left
      BY <1>2
    <2>3. \A h \in Fetch : task'[h].pc = task[h].pc \/ (task[h].pc = "resolve" /\ task'[h].pc \in {"look", "join"})
      BY <1>1, <1>2 DEF At
    <2>4. task'[g].leader = task[g].leader
      BY <1>2
    <2> QED
      BY <1>1, <2>1, <2>2, <2>3, <2>4 DEF Led, At, PoolOf
  <1>7. InTime' /\ AgesBounded' /\ WrittenDepthIsRecent'
    BY <1>1, <1>2 DEF InTime, NoWaitPastDeadline, AgesBounded, WrittenDepthIsRecent, At
  <1>8. ChangesAccounted'
    BY <1>1, <1>2, MoverBusy, NoMoreBusy DEF DepthTypeOK, At, record
  <1> QED
    BY <1>3, <1>4, <1>5, <1>6, <1>7, <1>8

\* Only a vault that holds WSOL is found.
LEMMA VaultFoundStep ==
    ASSUME DepthInv, NEW f \in Fetch, VaultFound(f)
    PROVE  DepthInv'
  <1> USE DepthAssumption DEF DepthInv
  <1>1. /\ At(f, "lead") /\ PoolOf(f) \in WsolPool /\ Goto(f, "announce")
        /\ poolCache' = poolCache \cup {PoolOf(f)}
        /\ UNCHANGED <<inflight, depthCache, tracked, depth, swaps, changes>>
    BY DEF VaultFound, record
  <1>e. /\ entry' \in [Fetch -> [done : BOOLEAN, found : BOOLEAN]]
        /\ \A g \in Fetch : entry'[g].done = entry[g].done /\ (g # f => entry'[g] = entry[g])
    <2>1. entry' = [entry EXCEPT ![f].found = TRUE]
      BY DEF VaultFound
    <2>2. entry \in [Fetch -> [done : BOOLEAN, found : BOOLEAN]]
      BY DEF DepthTypeOK
    <2> HIDE DEF DepthInv
    <2> QED
      BY <2>1, <2>2
  <1>2. /\ TaskOK'
        /\ \A g \in Fetch : g # f => task'[g] = task[g]
        /\ task'[f].pc = "announce" /\ task'[f].pool = task[f].pool /\ task'[f].left = task[f].left
        /\ task'[f].leader = task[f].leader /\ task'[f].age = task[f].age
    BY <1>1, MovesOn DEF TaskOK, DepthTypeOK, Stage
  <1>3. DepthTypeOK'
    BY <1>1, <1>2, <1>e DEF DepthTypeOK, TaskOK, Stage
  <1>4. LeadersInFlight'
    BY <1>1, <1>2, StillLeads DEF At
  <1>5. VaultsAreTrue'
    BY <1>1, <1>2, <1>e DEF VaultsAreTrue, Leading, At, PoolOf
  <1>p. BusyHasPool'
    BY <1>1, <1>2 DEF BusyHasPool, At, PoolOf
  <1>6. WaitsAreLed'
    BY <1>1, <1>2, <1>e, TaskTypes DEF WaitsAreLed, Led, At, PoolOf
  <1>7. InTime'
    BY <1>1, <1>2 DEF InTime, NoWaitPastDeadline, At
  <1>a. AgesBounded' /\ WrittenDepthIsRecent'
    BY <1>1, <1>2, TaskTypes DEF AgesBounded, WrittenDepthIsRecent, InTime, NoWaitPastDeadline, At
  <1>8. ChangesAccounted'
    BY <1>1, <1>2, MoverBusy, NoMoreBusy DEF DepthTypeOK, At, record
  <1> QED
    BY <1>3, <1>4, <1>5, <1>p, <1>6, <1>7, <1>a, <1>8

\* A leader finds no vault.
LEMMA VaultFailsStep ==
    ASSUME DepthInv, NEW f \in Fetch, VaultFails(f)
    PROVE  DepthInv'
  <1> USE DepthAssumption DEF DepthInv
  <1>1. /\ At(f, "lead") /\ Goto(f, "announce")
        /\ UNCHANGED <<entry, poolCache, inflight, depthCache, tracked, depth, swaps, changes>>
    BY DEF VaultFails, lookups, record
  <1>2. /\ TaskOK'
        /\ \A g \in Fetch : g # f => task'[g] = task[g]
        /\ task'[f].pc = "announce" /\ task'[f].pool = task[f].pool /\ task'[f].left = task[f].left
        /\ task'[f].leader = task[f].leader /\ task'[f].age = task[f].age
    BY <1>1, MovesOn DEF TaskOK, DepthTypeOK, Stage
  <1>3. DepthTypeOK'
    BY <1>1, <1>2 DEF DepthTypeOK, TaskOK, Stage
  <1>4. LeadersInFlight'
    BY <1>1, <1>2, StillLeads DEF At
  <1>5. VaultsAreTrue'
    BY <1>1, <1>2 DEF VaultsAreTrue, Leading, At, PoolOf
  <1>p. BusyHasPool'
    BY <1>1, <1>2 DEF BusyHasPool, At, PoolOf
  <1>6. WaitsAreLed'
    BY <1>1, <1>2, TaskTypes DEF WaitsAreLed, Led, At, PoolOf
  <1>7. InTime'
    BY <1>1, <1>2 DEF InTime, NoWaitPastDeadline, At
  <1>a. AgesBounded' /\ WrittenDepthIsRecent'
    BY <1>1, <1>2, TaskTypes DEF AgesBounded, WrittenDepthIsRecent, InTime, NoWaitPastDeadline, At
  <1>8. ChangesAccounted'
    BY <1>1, <1>2, MoverBusy, NoMoreBusy DEF DepthTypeOK, At, record
  <1> QED
    BY <1>3, <1>4, <1>5, <1>p, <1>6, <1>7, <1>a, <1>8

\* After the announcement the leader may go on: its waiters no longer need it.
LEMMA AnnounceStep ==
    ASSUME DepthInv, NEW f \in Fetch, Announce(f)
    PROVE  DepthInv'
  <1> USE DepthAssumption DEF DepthInv
  <1>1. /\ At(f, "announce") /\ Goto(f, "remove")
        /\ UNCHANGED <<poolCache, inflight, depthCache, tracked, depth, swaps, changes>>
    BY DEF Announce, record
  <1>e. /\ entry' \in [Fetch -> [done : BOOLEAN, found : BOOLEAN]]
        /\ \A g \in Fetch : entry'[g].found = entry[g].found /\ (g # f => entry'[g] = entry[g])
        /\ entry'[f].done
    <2>1. entry' = [entry EXCEPT ![f].done = TRUE]
      BY DEF Announce, Announced
    <2>2. entry \in [Fetch -> [done : BOOLEAN, found : BOOLEAN]]
      BY DEF DepthTypeOK
    <2> HIDE DEF DepthInv
    <2> QED
      BY <2>1, <2>2
  <1>2. /\ TaskOK'
        /\ \A g \in Fetch : g # f => task'[g] = task[g]
        /\ task'[f].pc = "remove" /\ task'[f].pool = task[f].pool /\ task'[f].left = task[f].left
        /\ task'[f].leader = task[f].leader /\ task'[f].age = task[f].age
    BY <1>1, MovesOn DEF TaskOK, DepthTypeOK, Stage
  <1>3. DepthTypeOK'
    BY <1>1, <1>2, <1>e DEF DepthTypeOK, TaskOK, Stage
  <1>4. LeadersInFlight'
    BY <1>1, <1>2, StillLeads DEF At
  <1>5. VaultsAreTrue'
    BY <1>1, <1>2, <1>e DEF VaultsAreTrue, Leading, At, PoolOf
  <1>p. BusyHasPool'
    BY <1>1, <1>2 DEF BusyHasPool, At, PoolOf
  <1>6. WaitsAreLed'
    BY <1>1, <1>2, <1>e, TaskTypes DEF WaitsAreLed, Led, At, PoolOf
  <1>7. InTime'
    BY <1>1, <1>2 DEF InTime, NoWaitPastDeadline, At
  <1>a. AgesBounded' /\ WrittenDepthIsRecent'
    BY <1>1, <1>2, TaskTypes DEF AgesBounded, WrittenDepthIsRecent, InTime, NoWaitPastDeadline, At
  <1>8. ChangesAccounted'
    BY <1>1, <1>2, MoverBusy, NoMoreBusy DEF DepthTypeOK, At, record
  <1> QED
    BY <1>3, <1>4, <1>5, <1>p, <1>6, <1>7, <1>a, <1>8

\* The provider reads a balance: its age begins.
LEMMA AnswerStep ==
    ASSUME DepthInv, NEW f \in Fetch, Answer(f)
    PROVE  DepthInv'
  <1> USE DepthAssumption DEF DepthInv
  <1>1. /\ At(f, "read") /\ Goto(f, "answered")
        /\ UNCHANGED <<entry, poolCache, inflight, depthCache, tracked, depth, swaps, changes>>
    BY DEF Answer, lookups, record
  <1>2. /\ TaskOK'
        /\ \A g \in Fetch : g # f => task'[g] = task[g]
        /\ task'[f].pc = "answered" /\ task'[f].pool = task[f].pool /\ task'[f].left = task[f].left
        /\ task'[f].leader = task[f].leader /\ task'[f].age = task[f].age
    BY <1>1, MovesOn DEF TaskOK, DepthTypeOK, Stage
  <1>3. DepthTypeOK'
    BY <1>1, <1>2 DEF DepthTypeOK, TaskOK, Stage
  <1>4. LeadersInFlight'
    BY <1>1, <1>2, OthersLead DEF At
  <1>5. VaultsAreTrue'
    BY <1>1, <1>2 DEF VaultsAreTrue, Leading, At, PoolOf
  <1>p. BusyHasPool'
    BY <1>1, <1>2 DEF BusyHasPool, At, PoolOf
  <1>6. WaitsAreLed'
    BY <1>1, <1>2, TaskTypes DEF WaitsAreLed, Led, At, PoolOf
  <1>7. InTime'
    BY <1>1, <1>2 DEF InTime, NoWaitPastDeadline, At
  <1>a. AgesBounded' /\ WrittenDepthIsRecent'
    BY <1>1, <1>2, TaskTypes DEF AgesBounded, WrittenDepthIsRecent, InTime, NoWaitPastDeadline, At
  <1>8. ChangesAccounted'
    BY <1>1, <1>2, MoverBusy, NoMoreBusy DEF DepthTypeOK, At, record
  <1> QED
    BY <1>3, <1>4, <1>5, <1>p, <1>6, <1>7, <1>a, <1>8

\* A balance arrives and is cached with the time of its arrival.
LEMMA ReceiveStep ==
    ASSUME DepthInv, NEW f \in Fetch, Receive(f)
    PROVE  DepthInv'
  <1> USE DepthAssumption DEF DepthInv
  <1>1. /\ At(f, "answered") /\ Goto(f, "update")
        /\ UNCHANGED <<entry, poolCache, inflight, tracked, depth, swaps, changes>>
    BY DEF Receive, lookups, record
  <1>d. /\ depthCache' \in [Pool -> [sol : {"none", "known", "failed"}, since : 0..TTL, age : 0..Oldest]]
        /\ \A p \in Pool : \/ depthCache'[p] = depthCache[p]
                           \/ p = PoolOf(f) /\ depthCache'[p].since = 0 /\ depthCache'[p].age = task[f].age
    <2> DEFINE cached == [sol |-> "known", since |-> 0, age |-> task[f].age]
    <2>1. /\ cached \in [sol : {"none", "known", "failed"}, since : 0..TTL, age : 0..Oldest]
          /\ cached.since = 0 /\ cached.age = task[f].age
      BY DEF DepthTypeOK
    <2>2. depthCache' = [depthCache EXCEPT ![PoolOf(f)] = cached]
      BY DEF Receive
    <2>3. PoolOf(f) \in Pool
      BY DEF Receive, BusyHasPool, At
    <2> HIDE DEF cached
    <2>4. depthCache \in [Pool -> [sol : {"none", "known", "failed"}, since : 0..TTL, age : 0..Oldest]]
      BY DEF DepthTypeOK
    <2>5. depthCache'[PoolOf(f)] = cached /\ \A p \in Pool : p # PoolOf(f) => depthCache'[p] = depthCache[p]
      BY <2>2, <2>3, <2>4
    <2>6. depthCache' \in [Pool -> [sol : {"none", "known", "failed"}, since : 0..TTL, age : 0..Oldest]]
      BY <2>1, <2>2, <2>4
    <2>7. ASSUME NEW p \in Pool
          PROVE  \/ depthCache'[p] = depthCache[p]
                 \/ p = PoolOf(f) /\ depthCache'[p].since = 0 /\ depthCache'[p].age = task[f].age
      <3>1. CASE p = PoolOf(f)
        BY <2>1, <2>5, <3>1
      <3> QED
        BY <2>5, <3>1
    <2> QED
      BY <2>6, <2>7
  <1>2. /\ TaskOK'
        /\ \A g \in Fetch : g # f => task'[g] = task[g]
        /\ task'[f].pc = "update" /\ task'[f].pool = task[f].pool /\ task'[f].left = task[f].left
        /\ task'[f].leader = task[f].leader /\ task'[f].age = task[f].age
    BY <1>1, MovesOn DEF TaskOK, DepthTypeOK, Stage
  <1>3. DepthTypeOK'
    BY <1>1, <1>2, <1>d DEF DepthTypeOK, TaskOK, Stage
  <1>4. LeadersInFlight'
    BY <1>1, <1>2, OthersLead DEF At
  <1>5. VaultsAreTrue'
    BY <1>1, <1>2 DEF VaultsAreTrue, Leading, At, PoolOf
  <1>p. BusyHasPool'
    BY <1>1, <1>2 DEF BusyHasPool, At, PoolOf
  <1>6. WaitsAreLed'
    BY <1>1, <1>2, TaskTypes DEF WaitsAreLed, Led, At, PoolOf
  <1>7. InTime'
    BY <1>1, <1>2 DEF InTime, NoWaitPastDeadline, At
  <1>a. AgesBounded' /\ WrittenDepthIsRecent'
    BY <1>1, <1>2, <1>d, TaskTypes DEF AgesBounded, WrittenDepthIsRecent, InTime, NoWaitPastDeadline, At
  <1>8. ChangesAccounted'
    BY <1>1, <1>2, MoverBusy, NoMoreBusy DEF DepthTypeOK, At, record
  <1> QED
    BY <1>3, <1>4, <1>5, <1>p, <1>6, <1>7, <1>a, <1>8

\* A failed request is cached as such.
LEMMA ReadFailsStep ==
    ASSUME DepthInv, NEW f \in Fetch, ReadFails(f)
    PROVE  DepthInv'
  <1> USE DepthAssumption DEF DepthInv
  <1>1. /\ At(f, "read") \/ At(f, "answered")
        /\ End(f)
        /\ UNCHANGED <<entry, poolCache, inflight, tracked, depth, swaps, changes>>
    BY DEF ReadFails, lookups, record
  <1>d. /\ depthCache' \in [Pool -> [sol : {"none", "known", "failed"}, since : 0..TTL, age : 0..Oldest]]
        /\ \A p \in Pool : depthCache'[p] = depthCache[p] \/ depthCache'[p].sol = "failed"
    <2> DEFINE cached == [sol |-> "failed", since |-> 0, age |-> 0]
    <2>1. /\ cached \in [sol : {"none", "known", "failed"}, since : 0..TTL, age : 0..Oldest]
          /\ cached.sol = "failed"
      BY DEF Oldest
    <2>2. depthCache' = [depthCache EXCEPT ![PoolOf(f)] = cached]
      BY DEF ReadFails
    <2>3. PoolOf(f) \in Pool
      BY DEF ReadFails, BusyHasPool, At
    <2> HIDE DEF cached
    <2> QED
      BY <2>1, <2>2, <2>3 DEF DepthTypeOK
  <1>2. /\ TaskOK'
        /\ \A g \in Fetch : g # f => task'[g] = task[g]
        /\ task'[f].pc = "idle" /\ task'[f].pool = NoFetch /\ task'[f].left = 0
        /\ task'[f].leader = NoFetch /\ task'[f].age = 0
    BY <1>1, Ends DEF TaskOK, DepthTypeOK, Stage
  <1>3. DepthTypeOK'
    BY <1>1, <1>2, <1>d DEF DepthTypeOK, TaskOK, Stage
  <1>4. LeadersInFlight'
    BY <1>1, <1>2, OthersLead DEF At
  <1>5. VaultsAreTrue'
    BY <1>1, <1>2 DEF VaultsAreTrue, Leading, At, PoolOf
  <1>p. BusyHasPool'
    BY <1>1, <1>2 DEF BusyHasPool, At, PoolOf
  <1>6. WaitsAreLed'
    BY <1>1, <1>2, TaskTypes DEF WaitsAreLed, Led, At, PoolOf
  <1>7. InTime'
    BY <1>1, <1>2 DEF InTime, NoWaitPastDeadline, At
  <1>a. AgesBounded' /\ WrittenDepthIsRecent'
    BY <1>1, <1>2, <1>d, TaskTypes DEF AgesBounded, WrittenDepthIsRecent, InTime, NoWaitPastDeadline, At
  <1>8. ChangesAccounted'
    BY <1>1, <1>2, MoverBusy, NoMoreBusy DEF DepthTypeOK, At, record
  <1> QED
    BY <1>3, <1>4, <1>5, <1>p, <1>6, <1>7, <1>a, <1>8

\* Whoever finds a leader has all its time left, the leader no more than that.
LEMMA JoinWaitStep ==
    ASSUME DepthInv, NEW f \in Fetch, Join(f), inflight[PoolOf(f)] # NoFetch
    PROVE  DepthInv'
  <1> USE DepthAssumption DEF DepthInv
  <1>1. /\ At(f, "join") /\ inflight[PoolOf(f)] # NoFetch
        /\ task' = Following(f, "wait", inflight[PoolOf(f)])
        /\ PoolOf(f) \in Pool
        /\ UNCHANGED <<entry, poolCache, inflight, depthCache, tracked, depth, swaps, changes>>
    BY DEF Join, record, BusyHasPool, At, Following
  <1>2. /\ TaskOK'
        /\ \A g \in Fetch : g # f => task'[g] = task[g]
        /\ task'[f].pc = "wait" /\ task'[f].pool = task[f].pool /\ task'[f].left = task[f].left
        /\ task'[f].leader = inflight[PoolOf(f)] /\ task'[f].age = task[f].age
    <2>1. inflight[PoolOf(f)] \in Fetch \cup {NoFetch} /\ "wait" \in Stage /\ TaskOK
      BY <1>1 DEF TaskOK, DepthTypeOK, Stage
    <2> QED
      BY <1>1, <2>1, WaitsFor
  <1>h. LET leader == inflight[PoolOf(f)]
        IN  /\ leader \in Fetch /\ leader # f /\ leader # NoFetch
            /\ Leading(leader) /\ PoolOf(leader) = PoolOf(f)
            /\ At(leader, "remove") => entry[leader].done
            /\ entry[leader].found => PoolOf(f) \in WsolPool
            /\ task[leader].left <= task[f].left
    BY <1>1, TaskTypes DEF LeadersInFlight, VaultsAreTrue, InTime, Leading, At, DepthTypeOK
  <1>3. DepthTypeOK'
    BY <1>1, <1>2 DEF DepthTypeOK, TaskOK, Stage
  <1>4. LeadersInFlight'
    BY <1>1, <1>2, OthersLead DEF At
  <1>5. VaultsAreTrue'
    BY <1>1, <1>2 DEF VaultsAreTrue, Leading, At, PoolOf
  <1>p. BusyHasPool'
    BY <1>1, <1>2 DEF BusyHasPool, At, PoolOf
  <1>6. WaitsAreLed'
    <2>1. PICK to \in Fetch : to = inflight[PoolOf(f)]
      BY <1>h
    <2>2. /\ to # f /\ to # NoFetch /\ task'[to] = task[to] /\ task[to].pool = task[f].pool
          /\ task[to].left <= task[f].left
          /\ entry[to].found => task[f].pool \in WsolPool
          /\ \/ task[to].pc \in {"lead", "announce"}
             \/ task[to].pc = "remove" /\ entry[to].done
      BY <1>2, <1>h, <2>1 DEF Leading, At, PoolOf
    <2>3. \A g \in Fetch : At(g, "wait") => task[g].leader # f
      BY <1>1 DEF WaitsAreLed, Led, At
    <2>4. ASSUME NEW g \in Fetch, g # f, At(g, "wait")
          PROVE  task[g].leader \in Fetch /\ task'[task[g].leader] = task[task[g].leader]
      BY <1>2, <2>3, <2>4, TaskTypes DEF WaitsAreLed, Led, At
    <2>5. ASSUME NEW g \in Fetch, g # f
          PROVE  Led(g)'
      <3>1. task'[g] = task[g] /\ entry' = entry /\ Led(g)
        BY <1>1, <1>2, <2>5 DEF WaitsAreLed
      <3>2. CASE At(g, "wait")
        <4>1. task'[task[g].leader] = task[task[g].leader]
          BY <2>4, <2>5, <3>2
        <4> QED
          BY <3>1, <3>2, <4>1 DEF Led, At, PoolOf
      <3>3. CASE ~At(g, "wait")
        BY <3>1, <3>3 DEF Led, At
      <3> QED
        BY <3>2, <3>3
    <2>6. Led(f)'
      <3>1. task'[f].pc = "wait" /\ task'[f].leader = to
        BY <1>2, <2>1
      <3>2. task'[f].pool = task[f].pool /\ task'[f].left = task[f].left /\ entry' = entry
        BY <1>1, <1>2
      <3> QED
        BY <2>2, <3>1, <3>2 DEF Led, At, PoolOf
    <2> QED
      BY <2>5, <2>6 DEF WaitsAreLed
  <1>7. InTime'
    BY <1>1, <1>2 DEF InTime, NoWaitPastDeadline, At
  <1>a. AgesBounded' /\ WrittenDepthIsRecent'
    BY <1>1, <1>2, TaskTypes DEF AgesBounded, WrittenDepthIsRecent, InTime, NoWaitPastDeadline, At
  <1>8. ChangesAccounted'
    BY <1>1, <1>2, MoverBusy, NoMoreBusy DEF DepthTypeOK, At, record
  <1> QED
    BY <1>3, <1>4, <1>5, <1>p, <1>6, <1>7, <1>a, <1>8

\* A goroutine that finds no entry leads the lookup of its pool.
LEMMA JoinLeadStep ==
    ASSUME DepthInv, NEW f \in Fetch, Join(f), inflight[PoolOf(f)] = NoFetch
    PROVE  DepthInv'
  <1> USE DepthAssumption DEF DepthInv
  <1>1. /\ At(f, "join") /\ inflight[PoolOf(f)] = NoFetch /\ Goto(f, "lead")
        /\ PoolOf(f) \in Pool
        /\ UNCHANGED <<poolCache, depthCache, tracked, depth, swaps, changes>>
    BY DEF Join, record, BusyHasPool, At
  <1>e. /\ entry' \in [Fetch -> [done : BOOLEAN, found : BOOLEAN]]
        /\ ~entry'[f].found
        /\ \A g \in Fetch : g # f => entry'[g] = entry[g]
    <2> DEFINE fresh == [done |-> FALSE, found |-> FALSE]
    <2>1. fresh \in [done : BOOLEAN, found : BOOLEAN] /\ ~fresh.found
      OBVIOUS
    <2>2. entry' = [entry EXCEPT ![f] = fresh]
      BY <1>1 DEF Join
    <2> HIDE DEF fresh
    <2> QED
      BY <2>1, <2>2 DEF DepthTypeOK
  <1>i. /\ inflight' \in [Pool -> Fetch \cup {NoFetch}]
        /\ inflight'[PoolOf(f)] = f
        /\ \A p \in Pool : p # PoolOf(f) => inflight'[p] = inflight[p]
    BY <1>1 DEF Join, DepthTypeOK
  <1>2. /\ TaskOK'
        /\ \A g \in Fetch : g # f => task'[g] = task[g]
        /\ task'[f].pc = "lead" /\ task'[f].pool = task[f].pool /\ task'[f].left = task[f].left
        /\ task'[f].leader = task[f].leader /\ task'[f].age = task[f].age
    BY <1>1, MovesOn DEF TaskOK, DepthTypeOK, Stage
  <1>3. DepthTypeOK'
    BY <1>1, <1>2, <1>e, <1>i DEF DepthTypeOK, TaskOK, Stage
  <1>4. LeadersInFlight'
    BY <1>1, <1>2, <1>i, TaskTypes DEF LeadersInFlight, BusyHasPool, Leading, At, PoolOf
  <1>5. VaultsAreTrue'
    BY <1>1, <1>2, <1>e DEF VaultsAreTrue, Leading, At, PoolOf
  <1>p. BusyHasPool'
    BY <1>1, <1>2 DEF BusyHasPool, At, PoolOf
  <1>6. WaitsAreLed'
    BY <1>1, <1>2, <1>e, TaskTypes DEF WaitsAreLed, Led, At, PoolOf
  <1>7. InTime'
    BY <1>1, <1>2 DEF InTime, NoWaitPastDeadline, At
  <1>a. AgesBounded' /\ WrittenDepthIsRecent'
    BY <1>1, <1>2, TaskTypes DEF AgesBounded, WrittenDepthIsRecent, InTime, NoWaitPastDeadline, At
  <1>8. ChangesAccounted'
    BY <1>1, <1>2, MoverBusy, NoMoreBusy DEF DepthTypeOK, At, record
  <1> QED
    BY <1>3, <1>4, <1>5, <1>p, <1>6, <1>7, <1>a, <1>8

\* A leader removes its entry, which it has announced.
LEMMA RemoveStep ==
    ASSUME DepthInv, NEW f \in Fetch, Remove(f)
    PROVE  DepthInv'
  <1> USE DepthAssumption DEF DepthInv
  <1>1. /\ At(f, "remove") /\ PoolOf(f) \in Pool
        /\ IF entry[f].found THEN Goto(f, "look") ELSE End(f)
        /\ UNCHANGED <<entry, poolCache, depthCache, tracked, depth, swaps, changes>>
    BY DEF Remove, record, BusyHasPool, At
  <1>i. /\ inflight' \in [Pool -> Fetch \cup {NoFetch}]
        /\ inflight'[PoolOf(f)] = NoFetch
        /\ \A p \in Pool : p # PoolOf(f) => inflight'[p] = inflight[p]
    BY <1>1 DEF Remove, DepthTypeOK
  <1>2. /\ TaskOK'
        /\ \A g \in Fetch : g # f => task'[g] = task[g]
        /\ task'[f].leader = NoFetch /\ task'[f].age = 0
        /\ \/ /\ task'[f].pc = "look" /\ entry[f].found
              /\ task'[f].pool = task[f].pool /\ task'[f].left = task[f].left
           \/ task'[f].pc = "idle" /\ task'[f].left = 0
    <2>1. task[f].leader = NoFetch /\ task[f].age = 0
      BY <1>1 DEF WaitsAreLed, Led, AgesBounded, At
    <2>2. CASE entry[f].found
      BY <1>1, <2>1, <2>2, MovesOn DEF TaskOK, DepthTypeOK, Stage
    <2>3. CASE ~entry[f].found
      BY <1>1, <2>3, Ends DEF TaskOK, DepthTypeOK, Stage
    <2> QED
      BY <2>2, <2>3
  <1>3. DepthTypeOK'
    BY <1>1, <1>2, <1>i DEF DepthTypeOK, TaskOK, Stage
  <1>4. LeadersInFlight'
    BY <1>1, <1>2, <1>i, TaskTypes DEF LeadersInFlight, BusyHasPool, Leading, At, PoolOf
  <1>5. VaultsAreTrue'
    BY <1>1, <1>2 DEF VaultsAreTrue, Leading, At, PoolOf
  <1>p. BusyHasPool'
    BY <1>1, <1>2 DEF BusyHasPool, At, PoolOf
  <1>6. WaitsAreLed'
    BY <1>1, <1>2, TaskTypes DEF WaitsAreLed, Led, At, PoolOf
  <1>7. InTime'
    BY <1>1, <1>2 DEF InTime, NoWaitPastDeadline, At
  <1>a. AgesBounded' /\ WrittenDepthIsRecent'
    BY <1>1, <1>2, TaskTypes DEF AgesBounded, WrittenDepthIsRecent, InTime, NoWaitPastDeadline, At
  <1>8. ChangesAccounted'
    BY <1>1, <1>2, MoverBusy, NoMoreBusy DEF DepthTypeOK, At, record
  <1> QED
    BY <1>3, <1>4, <1>5, <1>p, <1>6, <1>7, <1>a, <1>8

\* A waiter goes on once the entry it waits for is done.
LEMMA WakeStep ==
    ASSUME DepthInv, NEW f \in Fetch, Wake(f)
    PROVE  DepthInv'
  <1> USE DepthAssumption DEF DepthInv
  <1>1. /\ At(f, "wait") /\ entry[task[f].leader].done
        /\ UNCHANGED <<entry, poolCache, inflight, depthCache, tracked, depth, swaps, changes>>
    BY DEF Wake, lookups, record
  <1>2. /\ TaskOK'
        /\ \A g \in Fetch : g # f => task'[g] = task[g]
        /\ task'[f].leader = NoFetch /\ task'[f].age = 0
        /\ \/ /\ task'[f].pc = "look" /\ PoolOf(f) \in WsolPool
              /\ task'[f].pool = task[f].pool /\ task'[f].left = task[f].left
           \/ task'[f].pc = "idle" /\ task'[f].left = 0
    <2>1. task[f].age = 0 /\ (entry[task[f].leader].found => PoolOf(f) \in WsolPool)
      BY <1>1 DEF WaitsAreLed, Led, AgesBounded, At
    <2>2. CASE entry[task[f].leader].found
      <3>1. task' = Following(f, "look", NoFetch)
        BY <2>2 DEF Wake, Following
      <3>2. "look" \in Stage /\ TaskOK
        BY DEF TaskOK, DepthTypeOK, Stage
      <3> QED
        BY <3>1, <3>2, <2>1, <2>2, WaitsFor
    <2>3. CASE ~entry[task[f].leader].found
      BY <1>1, <2>3, Ends DEF Wake, TaskOK, DepthTypeOK, Stage
    <2> QED
      BY <2>2, <2>3
  <1>3. DepthTypeOK'
    BY <1>1, <1>2 DEF DepthTypeOK, TaskOK, Stage
  <1>4. LeadersInFlight'
    BY <1>1, <1>2, OthersLead DEF At
  <1>5. VaultsAreTrue'
    BY <1>1, <1>2 DEF VaultsAreTrue, Leading, At, PoolOf
  <1>p. BusyHasPool'
    BY <1>1, <1>2 DEF BusyHasPool, At, PoolOf
  <1>6. WaitsAreLed'
    BY <1>1, <1>2, TaskTypes DEF WaitsAreLed, Led, At, PoolOf
  <1>7. InTime'
    BY <1>1, <1>2 DEF InTime, NoWaitPastDeadline, At
  <1>a. AgesBounded' /\ WrittenDepthIsRecent'
    BY <1>1, <1>2, TaskTypes DEF AgesBounded, WrittenDepthIsRecent, InTime, NoWaitPastDeadline, At
  <1>8. ChangesAccounted'
    BY <1>1, <1>2, MoverBusy, NoMoreBusy DEF DepthTypeOK, At, record
  <1> QED
    BY <1>3, <1>4, <1>5, <1>p, <1>6, <1>7, <1>a, <1>8

\* A cached balance is used while it is fresh.
LEMMA LookStep ==
    ASSUME DepthInv, NEW f \in Fetch, Look(f)
    PROVE  DepthInv'
  <1> USE DepthAssumption DEF DepthInv
  <1>1. /\ At(f, "look") /\ PoolOf(f) \in Pool
        /\ UNCHANGED <<entry, poolCache, inflight, depthCache, tracked, depth, swaps, changes>>
    BY DEF Look, lookups, record, BusyHasPool, At
  <1>2. /\ TaskOK'
        /\ \A g \in Fetch : g # f => task'[g] = task[g]
        /\ task'[f].leader = NoFetch
        /\ \/ /\ task'[f].pc = "read" /\ task'[f].age = 0
              /\ task'[f].pool = task[f].pool /\ task'[f].left = task[f].left
           \/ /\ task'[f].pc = "update" /\ task'[f].age < TTL + Timeout
              /\ task'[f].pool = task[f].pool /\ task'[f].left = task[f].left
           \/ task'[f].pc = "idle" /\ task'[f].left = 0 /\ task'[f].age = 0
    <2>1. task[f].age = 0 /\ task[f].leader = NoFetch
      BY <1>1 DEF WaitsAreLed, Led, AgesBounded, At
    <2> DEFINE cached == depthCache[PoolOf(f)]
    <2>t. cached.age \in 0..Oldest /\ cached.since \in 0..TTL
      BY <1>1 DEF DepthTypeOK
    <2>2. CASE ~CacheHit(PoolOf(f))
      <3>1. Goto(f, "read")
        BY <2>2 DEF Look
      <3> QED
        BY <3>1, <2>1, MovesOn DEF TaskOK, DepthTypeOK, Stage
    <2>3. CASE CacheHit(PoolOf(f)) /\ cached.sol = "known"
      <3>1. task' = Aged(f, "update", cached.age)
        BY <2>3 DEF Look, Aged
      <3>2. cached.age < TTL + Timeout
        BY <1>1, <2>3, <2>t DEF AgesBounded, CacheHit
      <3> HIDE DEF cached
      <3>3. "update" \in Stage /\ TaskOK
        BY DEF TaskOK, DepthTypeOK, Stage
      <3> QED
        BY <3>1, <3>2, <3>3, <2>1, <2>t, TakesAge
    <2>4. CASE CacheHit(PoolOf(f)) /\ cached.sol = "failed"
      <3>1. End(f)
        BY <2>4 DEF Look
      <3> QED
        BY <3>1, Ends DEF TaskOK, DepthTypeOK, Stage
    <2> QED
      BY <1>1, <2>2, <2>3, <2>4 DEF CacheHit, DepthTypeOK
  <1>3. DepthTypeOK'
    BY <1>1, <1>2 DEF DepthTypeOK, TaskOK, Stage
  <1>4. LeadersInFlight'
    BY <1>1, <1>2, OthersLead DEF At
  <1>5. VaultsAreTrue'
    BY <1>1, <1>2 DEF VaultsAreTrue, Leading, At, PoolOf
  <1>p. BusyHasPool'
    BY <1>1, <1>2 DEF BusyHasPool, At, PoolOf
  <1>6. WaitsAreLed'
    BY <1>1, <1>2, TaskTypes DEF WaitsAreLed, Led, At, PoolOf
  <1>7. InTime'
    BY <1>1, <1>2 DEF InTime, NoWaitPastDeadline, At
  <1>a. AgesBounded' /\ WrittenDepthIsRecent'
    BY <1>1, <1>2, TaskTypes DEF AgesBounded, WrittenDepthIsRecent, InTime, NoWaitPastDeadline, At
  <1>8. ChangesAccounted'
    BY <1>1, <1>2, MoverBusy, NoMoreBusy DEF DepthTypeOK, At, record
  <1> QED
    BY <1>3, <1>4, <1>5, <1>p, <1>6, <1>7, <1>a, <1>8

\* A depth is written by a goroutine that counted for one change, and ends.
LEMMA UpdateDepthStep ==
    ASSUME DepthInv, NEW f \in Fetch, UpdateDepth(f)
    PROVE  DepthInv'
  <1> USE DepthAssumption DEF DepthInv
  <1>1. /\ At(f, "update") /\ End(f) /\ PoolOf(f) \in WsolPool
        /\ task[f].age < TTL + Timeout
        /\ UNCHANGED <<entry, poolCache, inflight, depthCache, tracked, swaps>>
    BY DEF UpdateDepth, lookups, VaultsAreTrue, AgesBounded, At
  <1>2. /\ TaskOK'
        /\ \A g \in Fetch : g # f => task'[g] = task[g]
        /\ task'[f].pc = "idle" /\ task'[f].pool = NoFetch /\ task'[f].left = 0
        /\ task'[f].leader = NoFetch /\ task'[f].age = 0
    BY <1>1, Ends DEF TaskOK, DepthTypeOK, Stage
  <1>d. /\ depth' \in [pool : Pool \cup {NoFetch}, age : 0..Oldest]
        /\ changes' = (IF tracked THEN changes + 1 ELSE changes)
        /\ depth' # NoDepth => depth'.pool \in WsolPool /\ tracked /\ depth'.age < TTL + Timeout
    <2>1. CASE tracked
      <3> DEFINE new == [pool |-> PoolOf(f), age |-> task[f].age]
      <3>1. new \in [pool : Pool \cup {NoFetch}, age : 0..Oldest]
        BY DEF DepthTypeOK, PoolOf
      <3>2. new.pool = PoolOf(f) /\ new.age = task[f].age
        OBVIOUS
      <3>3. depth' = new /\ changes' = changes + 1
        BY <2>1 DEF UpdateDepth
      <3> HIDE DEF new
      <3> QED
        BY <1>1, <2>1, <3>1, <3>2, <3>3
    <2>2. CASE ~tracked
      <3>1. depth' = depth /\ changes' = changes
        BY <2>2 DEF UpdateDepth
      <3> QED
        BY <2>2, <3>1 DEF DepthTypeOK, WrittenDepthIsRecent
    <2> QED
      BY <2>1, <2>2
  <1>8. ChangesAccounted'
    <2>1. Busy' = Busy \ {f} /\ f \in Busy
      BY <1>1, <1>2 DEF Busy, At
    <2>2. IsFiniteSet(Busy') /\ Cardinality(Busy') = Cardinality(Busy) - 1
      BY <2>1, FS_RemoveElement DEF ChangesAccounted
    <2>3. Cardinality(Busy) \in Nat
      BY FS_CardinalityType DEF ChangesAccounted
    <2> QED
      BY <1>1, <1>d, <2>2, <2>3 DEF ChangesAccounted, DepthTypeOK
  <1>3. DepthTypeOK'
    <2>1. Cardinality(Busy') \in Nat
      BY <1>8, FS_CardinalityType DEF ChangesAccounted
    <2>2. changes' <= 3 * swaps' /\ swaps' \in 0..MaxSwaps /\ changes' \in Nat
      BY <1>1, <1>8, <1>d, <2>1 DEF ChangesAccounted, DepthTypeOK
    <2> QED
      BY <1>1, <1>2, <1>d, <2>2 DEF DepthTypeOK, TaskOK, Stage
  <1>4. LeadersInFlight'
    BY <1>1, <1>2, OthersLead DEF At
  <1>5. VaultsAreTrue'
    BY <1>1, <1>2 DEF VaultsAreTrue, Leading, At, PoolOf
  <1>p. BusyHasPool'
    BY <1>1, <1>2 DEF BusyHasPool, At, PoolOf
  <1>6. WaitsAreLed'
    BY <1>1, <1>2, TaskTypes DEF WaitsAreLed, Led, At, PoolOf
  <1>7. InTime'
    BY <1>1, <1>2 DEF InTime, NoWaitPastDeadline, At
  <1>a. AgesBounded' /\ WrittenDepthIsRecent'
    <2>1. WrittenDepthIsRecent'
      BY <1>1, <1>d DEF WrittenDepthIsRecent, NoDepth
    <2>2. AgesBounded'
      BY <1>1, <1>2, TaskTypes DEF AgesBounded, InTime, NoWaitPastDeadline, At
    <2> QED
      BY <2>1, <2>2
  <1> QED
    BY <1>3, <1>4, <1>5, <1>p, <1>6, <1>7, <1>a, <1>8

\* Three times a larger count is larger still.
LEMMA Thrice ==
    ASSUME NEW a \in Int, NEW b \in Int, NEW c \in Int, a <= 3 * b, b <= c
    PROVE  a <= 3 * c
  OBVIOUS

\* A record is dropped at the cost of the change its making allowed for.
LEMMA PruneStep ==
    ASSUME DepthInv, Prune
    PROVE  DepthInv'
  <1> USE DepthAssumption DEF DepthInv
  <1>1. /\ tracked /\ tracked' = FALSE /\ depth' = NoDepth /\ changes' = changes + 1
        /\ UNCHANGED <<task, entry, poolCache, inflight, depthCache, swaps>>
    BY DEF Prune, lookups
  <1>2. ChangesAccounted'
    <2>1. Busy' = Busy
      BY <1>1 DEF Busy, At
    <2>2. Cardinality(Busy) \in Nat
      BY FS_CardinalityType DEF ChangesAccounted
    <2> QED
      BY <1>1, <2>1, <2>2 DEF ChangesAccounted, DepthTypeOK
  <1>3. DepthTypeOK'
    <2>1. Cardinality(Busy') \in Nat
      BY <1>2, FS_CardinalityType DEF ChangesAccounted
    <2>2. changes' <= 3 * swaps' /\ swaps' \in 0..MaxSwaps /\ changes' \in Nat
      BY <1>1, <1>2, <2>1 DEF ChangesAccounted, DepthTypeOK
    <2>3. depth' \in [pool : Pool \cup {NoFetch}, age : 0..Oldest]
      BY <1>1 DEF NoDepth, Oldest
    <2>4. changes' \in 0..3*MaxSwaps
      <3>1. /\ swaps' \in Int /\ MaxSwaps \in Int /\ swaps' <= MaxSwaps
            /\ changes' \in Int /\ 0 <= changes'
        BY <2>2
      <3>2. changes' <= 3 * MaxSwaps
        BY <2>2, <3>1, Thrice
      <3> QED
        BY <3>1, <3>2
    <2> QED
      BY <1>1, <2>3, <2>4 DEF DepthTypeOK
  <1>4. LeadersInFlight' /\ VaultsAreTrue' /\ BusyHasPool' /\ InTime'
    BY <1>1 DEF LeadersInFlight, VaultsAreTrue, BusyHasPool, InTime, NoWaitPastDeadline,
                Leading, At, PoolOf
  <1>5. WaitsAreLed' /\ AgesBounded'
    BY <1>1 DEF WaitsAreLed, Led, AgesBounded, At, PoolOf
  <1>6. WrittenDepthIsRecent'
    BY <1>1 DEF WrittenDepthIsRecent, NoDepth
  <1> QED
    BY <1>2, <1>3, <1>4, <1>5, <1>6

\* What a unit of time does to a task and to a cached depth.
Waited(f) == [task[f] EXCEPT !.left = IF @ < 0 THEN @ ELSE @ - 1,
                             !.age = IF At(f, "answered") THEN Older(@) ELSE @]

\* A goroutine's state after a unit of time.
LEMMA TaskAges ==
    ASSUME TaskOK, InTime, NEW f \in Fetch
    PROVE  /\ Waited(f) \in [pc : Stage, pool : Pool \cup {NoFetch}, left : -1..Timeout,
                             leader : Fetch \cup {NoFetch}, age : 0..Oldest]
           /\ Waited(f).pc = task[f].pc /\ Waited(f).pool = task[f].pool
           /\ Waited(f).leader = task[f].leader
           /\ Waited(f).left = task[f].left - 1
           /\ Waited(f).age = IF At(f, "answered") THEN Older(task[f].age) ELSE task[f].age
  <1> USE DepthAssumption
  <1> DEFINE left == IF task[f].left < 0 THEN task[f].left ELSE task[f].left - 1
             age == IF At(f, "answered") THEN Older(task[f].age) ELSE task[f].age
             first == [task[f] EXCEPT !.left = left]
  <1>1. /\ task[f] \in [pc : Stage, pool : Pool \cup {NoFetch}, left : -1..Timeout,
                        leader : Fetch \cup {NoFetch}, age : 0..Oldest]
        /\ task[f].left \in 0..Timeout /\ task[f].age \in 0..Oldest
    BY DEF TaskOK, InTime, NoWaitPastDeadline
  <1>2. left \in -1..Timeout /\ left = task[f].left - 1 /\ age \in 0..Oldest
    BY <1>1 DEF Older, Oldest
  <1>3. Waited(f) = [first EXCEPT !.age = age]
    BY DEF Waited
  <1> HIDE DEF left, age
  <1>4. /\ first \in [pc : Stage, pool : Pool \cup {NoFetch}, left : -1..Timeout,
                      leader : Fetch \cup {NoFetch}, age : 0..Oldest]
        /\ first.pc = task[f].pc /\ first.pool = task[f].pool
        /\ first.leader = task[f].leader /\ first.left = left
    BY <1>1, <1>2
  <1> HIDE DEF first
  <1>5. /\ Waited(f) \in [pc : Stage, pool : Pool \cup {NoFetch}, left : -1..Timeout,
                          leader : Fetch \cup {NoFetch}, age : 0..Oldest]
        /\ Waited(f).pc = task[f].pc /\ Waited(f).pool = task[f].pool
        /\ Waited(f).leader = task[f].leader /\ Waited(f).left = left
        /\ Waited(f).age = age
    BY <1>2, <1>3, <1>4
  <1> QED
    BY <1>2, <1>5 DEF age

WaitedCache(p) ==
    IF depthCache[p].sol = "known"
    THEN [depthCache[p] EXCEPT !.since = IF @ < TTL THEN @ + 1 ELSE @, !.age = Older(@)]
    ELSE [depthCache[p] EXCEPT !.since = IF @ < TTL THEN @ + 1 ELSE @]

\* A cached balance after a unit of time.
LEMMA CacheAges ==
    ASSUME DepthTypeOK, NEW p \in Pool
    PROVE  /\ WaitedCache(p) \in [sol : {"none", "known", "failed"}, since : 0..TTL, age : 0..Oldest]
           /\ WaitedCache(p).sol = depthCache[p].sol
           /\ WaitedCache(p).since =
                IF depthCache[p].since < TTL THEN depthCache[p].since + 1 ELSE depthCache[p].since
           /\ WaitedCache(p).age <= depthCache[p].age + 1
  <1> USE DepthAssumption
  <1> DEFINE since == IF depthCache[p].since < TTL THEN depthCache[p].since + 1
                                                   ELSE depthCache[p].since
             age == Older(depthCache[p].age)
             first == [depthCache[p] EXCEPT !.since = since]
  <1>1. /\ depthCache[p] \in [sol : {"none", "known", "failed"}, since : 0..TTL, age : 0..Oldest]
        /\ depthCache[p].since \in 0..TTL /\ depthCache[p].age \in 0..Oldest
    BY DEF DepthTypeOK
  <1>2. since \in 0..TTL /\ age \in 0..Oldest /\ age <= depthCache[p].age + 1
    BY <1>1 DEF Older, Oldest
  <1>3. WaitedCache(p) = IF depthCache[p].sol = "known" THEN [first EXCEPT !.age = age] ELSE first
    BY DEF WaitedCache
  <1>s. since = IF depthCache[p].since < TTL THEN depthCache[p].since + 1 ELSE depthCache[p].since
    OBVIOUS
  <1> HIDE DEF since, age
  <1>4. /\ first \in [sol : {"none", "known", "failed"}, since : 0..TTL, age : 0..Oldest]
        /\ first.sol = depthCache[p].sol /\ first.since = since /\ first.age = depthCache[p].age
    BY <1>1, <1>2
  <1> HIDE DEF first
  <1>5. /\ WaitedCache(p) \in [sol : {"none", "known", "failed"}, since : 0..TTL, age : 0..Oldest]
        /\ WaitedCache(p).sol = depthCache[p].sol /\ WaitedCache(p).since = since
        /\ WaitedCache(p).age = age \/ WaitedCache(p).age = depthCache[p].age
    BY <1>2, <1>3, <1>4
  <1>6. WaitedCache(p).age <= depthCache[p].age + 1
    BY <1>1, <1>2, <1>5
  <1> QED
    BY <1>5, <1>6, <1>s

\* Time passes only when whoever waits is led by one that has time left.
LEMMA TickStep ==
    ASSUME DepthInv, Tick
    PROVE  DepthInv'
  <1> USE DepthAssumption DEF DepthInv
  <1>1. /\ \A f \in Fetch : Blocked(f)
        /\ task' = [f \in Fetch |-> IF At(f, "idle") THEN task[f] ELSE Waited(f)]
        /\ depthCache' = [p \in Pool |-> WaitedCache(p)]
        /\ UNCHANGED <<entry, poolCache, inflight, tracked, depth, swaps, changes>>
    BY DEF Tick, Waited, WaitedCache, lookups, record
  <1>2. TaskOK
    BY DEF DepthTypeOK, TaskOK, Stage
  <1>3. ASSUME NEW f \in Fetch
        PROVE  /\ task'[f].pc = task[f].pc /\ task'[f].pool = task[f].pool
               /\ task'[f].leader = task[f].leader
               /\ task'[f] \in [pc : Stage, pool : Pool \cup {NoFetch}, left : -1..Timeout,
                                leader : Fetch \cup {NoFetch}, age : 0..Oldest]
               /\ ~At(f, "idle") => task'[f].left = task[f].left - 1
               /\ At(f, "idle") => task'[f] = task[f]
               /\ ~At(f, "answered") => task'[f].age = task[f].age
               /\ task'[f].age <= task[f].age + 1
    <2>1. CASE At(f, "idle")
      <3>1. task'[f] = task[f]
        BY <1>1, <2>1
      <3> QED
        BY <1>2, <2>1, <3>1, TaskTypes DEF TaskOK
    <2>2. CASE ~At(f, "idle")
      <3>1. task'[f] = Waited(f)
        BY <1>1, <2>2
      <3>2. Waited(f).age = IF At(f, "answered") THEN Older(task[f].age) ELSE task[f].age
        BY <1>2, TaskAges
      <3>3. Waited(f).age <= task[f].age + 1
        BY <3>2, TaskTypes DEF Older
      <3> QED
        BY <1>2, <2>2, <3>1, <3>2, <3>3, TaskAges
    <2> QED
      BY <2>1, <2>2
  <1>4. ASSUME NEW f \in Fetch, ~At(f, "idle")
        PROVE  /\ task[f].left > 0
               /\ task[f].pc \in {"wait", "lead", "read", "answered"}
               /\ At(f, "wait") => /\ task[f].leader \in Fetch
                                   /\ At(task[f].leader, "lead")
                                   /\ task[task[f].leader].left <= task[f].left
                                   /\ PoolOf(task[f].leader) = PoolOf(f)
    <2>1. CASE At(f, "wait")
      <3>1. ~entry[task[f].leader].done
        BY <1>1, <2>1 DEF Blocked, At
      <3>2. /\ task[f].leader \in Fetch
            /\ task[task[f].leader].pc \in {"lead", "announce"}
            /\ task[task[f].leader].left <= task[f].left
            /\ PoolOf(task[f].leader) = PoolOf(f)
        BY <2>1, <3>1, TaskTypes DEF WaitsAreLed, Led
      <3>3. At(task[f].leader, "lead") /\ task[task[f].leader].left > 0
        BY <1>1, <3>2 DEF Blocked, At
      <3>4. task[f].left > 0
        BY <3>2, <3>3, TaskTypes
      <3> QED
        BY <2>1, <3>2, <3>3, <3>4 DEF At
    <2>2. CASE ~At(f, "wait")
      BY <1>1, <1>4, <2>2 DEF Blocked, At
    <2> QED
      BY <2>1, <2>2
  <1>5. DepthTypeOK'
    <2>1. task' \in [Fetch -> [pc : Stage, pool : Pool \cup {NoFetch}, left : -1..Timeout,
                               leader : Fetch \cup {NoFetch}, age : 0..Oldest]]
      BY <1>1, <1>3
    <2>2. depthCache' \in [Pool -> [sol : {"none", "known", "failed"}, since : 0..TTL, age : 0..Oldest]]
      BY <1>1, CacheAges
    <2> QED
      BY <1>1, <2>1, <2>2 DEF DepthTypeOK, Stage
  <1>6. LeadersInFlight' /\ VaultsAreTrue'
    <2>1. LeadersInFlight'
      BY <1>1, <1>3 DEF LeadersInFlight, Leading, PoolOf, DepthTypeOK
    <2>2. VaultsAreTrue'
      BY <1>1, <1>3 DEF VaultsAreTrue, Leading, At, PoolOf
    <2> QED
      BY <2>1, <2>2
  <1>7. BusyHasPool' /\ InTime'
    <2>1. BusyHasPool'
      BY <1>3 DEF BusyHasPool, At, PoolOf
    <2>2. NoWaitPastDeadline'
      <3> SUFFICES ASSUME NEW f \in Fetch PROVE task'[f].left >= 0
        BY DEF NoWaitPastDeadline
      <3>1. CASE At(f, "idle")
        BY <1>3, <3>1 DEF InTime, NoWaitPastDeadline
      <3>2. CASE ~At(f, "idle")
        BY <1>3, <1>4, <3>2, TaskTypes
      <3> QED
        BY <3>1, <3>2
    <2>3. \A f \in Fetch : task'[f].pc \notin {"resolve", "join"}
      BY <1>3, <1>4 DEF At
    <2> QED
      BY <2>1, <2>2, <2>3 DEF InTime
  <1>8. WaitsAreLed'
    <2> SUFFICES ASSUME NEW f \in Fetch PROVE Led(f)'
      BY DEF WaitsAreLed
    <2>1. CASE At(f, "wait")
      <3>1. PICK to \in Fetch : to = task[f].leader
        BY <1>4, <2>1 DEF At
      <3>2. /\ task[f].pc = "wait" /\ task[to].pc = "lead" /\ task[to].pool = task[f].pool
            /\ task[to].left <= task[f].left
        BY <1>4, <2>1, <3>1 DEF At, PoolOf
      <3>3. task'[f].left = task[f].left - 1 /\ task'[to].left = task[to].left - 1
        BY <1>3, <3>2 DEF At
      <3>4. /\ task'[to].pc = "lead" /\ task'[to].pool = task'[f].pool
            /\ task'[to].left <= task'[f].left
        BY <1>3, <3>2, <3>3, TaskTypes
      <3>5. to # NoFetch /\ (entry[to].found => task[f].pool \in WsolPool)
        BY <2>1, <3>1 DEF WaitsAreLed, Led, PoolOf
      <3>6. task'[f].pc = "wait" /\ task'[f].leader = to /\ task'[f].pool = task[f].pool /\ entry' = entry
        BY <1>1, <1>3, <3>1, <3>2
      <3> QED
        BY <3>4, <3>5, <3>6 DEF Led, At, PoolOf
    <2>2. CASE ~At(f, "wait")
      <3>1. task[f].leader = NoFetch
        BY <2>2 DEF WaitsAreLed, Led
      <3> QED
        BY <1>3, <2>2, <3>1 DEF Led, At
    <2> QED
      BY <2>1, <2>2
  <1>9. AgesBounded'
    <2>1. ASSUME NEW f \in Fetch, task'[f].pc \notin {"answered", "update"}
          PROVE  task'[f].age = 0
      BY <1>3, <2>1 DEF AgesBounded, At
    <2>2. ASSUME NEW f \in Fetch, task'[f].pc = "answered"
          PROVE  task'[f].age + task'[f].left <= Timeout
      <3>1. /\ task'[f].left = task[f].left - 1 /\ task'[f].age <= task[f].age + 1
            /\ task[f].age + task[f].left <= Timeout /\ task'[f].age \in Nat
        BY <1>3, <2>2 DEF AgesBounded, At, Oldest
      <3> QED
        BY <3>1, TaskTypes
    <2>3. \A f \in Fetch : task'[f].pc # "update"
      BY <1>3, <1>4 DEF At
    <2>4. ASSUME NEW p \in Pool, depthCache'[p].sol = "known", depthCache'[p].since < TTL
          PROVE  depthCache'[p].age <= depthCache'[p].since + Timeout
      <3>1. depthCache'[p] = WaitedCache(p)
        BY <1>1
      <3>2. /\ depthCache[p].sol = "known"
            /\ depthCache'[p].since =
                IF depthCache[p].since < TTL THEN depthCache[p].since + 1 ELSE depthCache[p].since
            /\ depthCache'[p].age <= depthCache[p].age + 1
            /\ depthCache'[p].age \in Nat
        BY <2>4, <3>1, CacheAges DEF Oldest
      <3>3. depthCache[p].since < TTL /\ depthCache'[p].since = depthCache[p].since + 1
        BY <2>4, <3>2, TaskTypes
      <3>4. depthCache[p].age <= depthCache[p].since + Timeout
        BY <3>2, <3>3 DEF AgesBounded
      <3> QED
        BY <3>2, <3>3, <3>4, TaskTypes
    <2> QED
      BY <2>1, <2>2, <2>3, <2>4 DEF AgesBounded, At
  <1>a. WrittenDepthIsRecent'
    BY <1>1 DEF WrittenDepthIsRecent
  <1>b. ChangesAccounted'
    <2>1. Busy' = Busy
      BY <1>3 DEF Busy, At
    <2> QED
      BY <1>1, <2>1 DEF ChangesAccounted
  <1> QED
    BY <1>5, <1>6, <1>7, <1>8, <1>9, <1>a, <1>b

\* A step that leaves the depth client and the record alone.
LEMMA DepthRests ==
    ASSUME DepthInv, UNCHANGED depthVars
    PROVE  DepthInv'
  <1>1. UNCHANGED <<task, entry, poolCache, inflight, depthCache, tracked, depth, swaps, changes>>
    BY DEF depthVars, lookups, record
  <1>2. DepthTypeOK' /\ BusyHasPool' /\ LeadersInFlight' /\ VaultsAreTrue'
    BY <1>1 DEF DepthInv, DepthTypeOK, BusyHasPool, LeadersInFlight, VaultsAreTrue, Leading, At, PoolOf
  <1>3. WaitsAreLed' /\ InTime' /\ AgesBounded' /\ WrittenDepthIsRecent'
    BY <1>1 DEF DepthInv, WaitsAreLed, Led, InTime, NoWaitPastDeadline, AgesBounded,
                WrittenDepthIsRecent, At, PoolOf
  <1>4. ChangesAccounted'
    BY <1>1 DEF DepthInv, ChangesAccounted, Busy, At
  <1> QED
    BY <1>2, <1>3, <1>4 DEF DepthInv

\* Every step of a goroutine keeps the invariant.
LEMMA FetchStep ==
    ASSUME DepthInv, NEW f \in Fetch, DepthStep(f)
    PROVE  DepthInv'
  <1>1. CASE Join(f)
    BY <1>1, JoinWaitStep, JoinLeadStep
  <1>2. CASE Resolve(f) \/ VaultFound(f) \/ VaultFails(f) \/ Announce(f) \/ Remove(f) \/ Wake(f)
    BY <1>2, ResolveStep, VaultFoundStep, VaultFailsStep, AnnounceStep, RemoveStep, WakeStep
  <1>3. CASE Look(f) \/ Answer(f) \/ Receive(f) \/ ReadFails(f) \/ UpdateDepth(f)
    BY <1>3, LookStep, AnswerStep, ReceiveStep, ReadFailsStep, UpdateDepthStep
  <1> QED
    BY <1>1, <1>2, <1>3 DEF DepthStep

-----------------------------------------------------------------------------
(* The served rows.                                                        *)

\* The store's changes are only counted up.
LEMMA ChangesGrow ==
    ASSUME DepthTypeOK, StoreChanges
    PROVE  changes' >= changes /\ UNCHANGED servingVars
  <1>1. changes \in Int
    BY DEF DepthTypeOK
  <1>2. CASE Prune
    BY <1>1, <1>2 DEF Prune, StoreChanges
  <1>3. ASSUME NEW f \in Fetch, DepthStep(f)
        PROVE  changes' = changes \/ changes' = changes + 1
    <2>1. CASE UpdateDepth(f)
      BY <2>1 DEF UpdateDepth
    <2>2. CASE ~UpdateDepth(f)
      BY <1>3, <2>2 DEF DepthStep, Resolve, Join, VaultFound, VaultFails, Announce, Remove, Wake,
                        Look, Answer, Receive, ReadFails, record
    <2> QED
      BY <2>1, <2>2
  <1>4. ASSUME NEW f \in Fetch, NEW p \in Pool, Swap(f, p)
        PROVE  changes' = changes + 1
    BY <1>4 DEF Swap
  <1> QED
    BY <1>1, <1>2, <1>3, <1>4 DEF StoreChanges

\* Nobody refreshes.
LEMMA RefresherInit ==
    ASSUME Init
    PROVE  ServingInv
  <1>1. DepthInv
    BY DepthInit_Inv DEF Init
  <1>2. TypeOK
    <2>1. refresher \in [Refresher -> [pc : {"idle", "refresh", "build", "release"}, saw : 0..3*MaxSwaps]]
      BY DepthAssumption DEF Init, Resting
    <2>2. refreshing \in BOOLEAN /\ rows = 0 /\ rowsAge = RefreshAge
      BY DEF Init
    <2>3. 0 \in 0..3*MaxSwaps /\ RefreshAge \in 0..RefreshAge
      BY DepthAssumption, ServingAssumption
    <2> QED
      BY <1>1, <2>1, <2>2, <2>3 DEF TypeOK, DepthInv
  <1>3. \A g \in Refresher : refresher[g].pc = "idle"
    BY DEF Init, Resting
  <1>4. rows <= changes
    BY DEF Init, DepthInit
  <1> QED
    BY <1>1, <1>2, <1>3, <1>4 DEF ServingInv, RefreshInv

RefresherOK ==
    refresher \in [Refresher -> [pc : {"idle", "refresh", "build", "release"}, saw : 0..3*MaxSwaps]]

\* A step of one refresher.
LEMMA Moves ==
    ASSUME RefresherOK, NEW g \in Refresher,
           NEW pc \in {"idle", "refresh", "build", "release"}, Move(g, pc)
    PROVE  /\ RefresherOK'
           /\ \A h \in Refresher : h # g => refresher'[h] = refresher[h]
           /\ refresher'[g].pc = pc /\ refresher'[g].saw = refresher[g].saw
  BY DEF RefresherOK, Move

\* The fields of a refresher's state.
LEMMA RefreshTypes ==
    ASSUME ServingInv
    PROVE  /\ changes \in Nat /\ rows \in Nat /\ RefresherOK /\ DepthTypeOK
           /\ \A g \in Refresher : refresher[g].saw \in Nat
  BY DEF ServingInv, RefreshInv, TypeOK, RefresherOK, DepthTypeOK

\* The store changes, or time passes: rows show no more than there is.
LEMMA StoreOrTime ==
    ASSUME ServingInv, StoreChanges \/ TimePasses \/ UNCHANGED vars
    PROVE  ServingInv'
  <1> USE DEF ServingInv
  <1>1. DepthInv'
    <2>1. CASE StoreChanges
      BY <2>1, PruneStep, FetchStep, SwapStep DEF StoreChanges
    <2>2. CASE TimePasses
      BY <2>2, TickStep DEF TimePasses
    <2>3. CASE UNCHANGED vars
      BY <2>3, DepthRests DEF vars
    <2> QED
      BY <2>1, <2>2, <2>3
  <1>2. changes' >= changes /\ UNCHANGED <<refresher, refreshing, rows>>
    <2>1. CASE StoreChanges
      BY <2>1, ChangesGrow DEF RefreshInv, TypeOK, servingVars
    <2>2. CASE TimePasses
      <3>1. UNCHANGED record
        BY <2>2 DEF TimePasses, Tick
      <3>2. UNCHANGED <<changes, refresher, refreshing, rows>>
        BY <2>2, <3>1 DEF TimePasses, record
      <3> QED
        BY <3>2, RefreshTypes
    <2>3. CASE UNCHANGED vars
      BY <2>3, RefreshTypes DEF vars, depthVars, record, servingVars
    <2> QED
      BY <2>1, <2>2, <2>3
  <1>3. rowsAge' \in 0..RefreshAge
    <2>1. CASE TimePasses
      BY <2>1, ServingAssumption DEF TimePasses, RefreshInv, TypeOK
    <2>2. CASE StoreChanges \/ UNCHANGED vars
      BY <2>2 DEF StoreChanges, vars, servingVars, RefreshInv, TypeOK
    <2> QED
      BY <2>1, <2>2
  <1>4. TypeOK'
    BY <1>1, <1>2, <1>3 DEF RefreshInv, TypeOK, DepthInv
  <1>5. changes' \in Nat
    BY <1>1 DEF DepthInv, DepthTypeOK
  <1>6. rows' <= changes'
    BY <1>2, <1>5, RefreshTypes DEF RefreshInv
  <1>7. ASSUME NEW g \in Refresher, refresher'[g].pc = "build"
        PROVE  rows' <= refresher'[g].saw /\ refresher'[g].saw <= changes'
    BY <1>2, <1>5, <1>7, RefreshTypes DEF RefreshInv
  <1> QED
    BY <1>1, <1>2, <1>4, <1>6, <1>7 DEF RefreshInv

\* A request asks for a refresh.
LEMMA AskStep ==
    ASSUME ServingInv, NEW g \in Refresher, refresher[g].pc = "idle", Move(g, "refresh"),
           UNCHANGED <<depthVars, refreshing, rows, rowsAge>>
    PROVE  ServingInv'
  <1> USE DEF ServingInv
  <1>1. DepthInv' /\ changes' = changes
    BY DepthRests DEF depthVars, record
  <1>2. /\ RefresherOK'
        /\ \A h \in Refresher : h # g => refresher'[h] = refresher[h]
        /\ refresher'[g].pc = "refresh"
    BY Moves, RefreshTypes
  <1>3. TypeOK'
    BY <1>1, <1>2 DEF RefreshInv, TypeOK, DepthInv, RefresherOK
  <1> QED
    BY <1>1, <1>2, <1>3 DEF RefreshInv

\* Whoever takes the flag is alone with it, and reads the store as it is.
LEMMA RefreshStep ==
    ASSUME ServingInv, NEW g \in Refresher, Refresh(g)
    PROVE  ServingInv'
  <1> USE DEF ServingInv
  <1>1. DepthInv' /\ changes' = changes /\ UNCHANGED <<rows, rowsAge>>
    BY DepthRests DEF Refresh, depthVars, record
  <1>2. CASE refreshing
    <2>1. Move(g, "idle") /\ UNCHANGED refreshing /\ refresher[g].pc = "refresh"
      BY <1>2 DEF Refresh, MayRefresh
    <2>2. /\ RefresherOK'
          /\ \A h \in Refresher : h # g => refresher'[h] = refresher[h]
          /\ refresher'[g].pc = "idle"
      BY <2>1, Moves, RefreshTypes
    <2>3. TypeOK'
      BY <1>1, <2>1, <2>2 DEF RefreshInv, TypeOK, DepthInv, RefresherOK
    <2> QED
      BY <1>1, <2>1, <2>2, <2>3 DEF RefreshInv
  <1>3. CASE ~refreshing
    <2> DEFINE new == [pc |-> "build", saw |-> changes]
    <2>1. new \in [pc : {"idle", "refresh", "build", "release"}, saw : 0..3*MaxSwaps]
      BY DEF RefreshInv, TypeOK, DepthTypeOK
    <2>2. new.pc = "build" /\ new.saw = changes
      OBVIOUS
    <2>3. refreshing' = TRUE /\ refresher' = [refresher EXCEPT ![g] = new]
      BY <1>3 DEF Refresh, MayRefresh
    <2> HIDE DEF new
    <2>4. /\ RefresherOK' /\ refresher'[g] = new
          /\ \A h \in Refresher : h # g => refresher'[h] = refresher[h]
      BY <2>1, <2>3, RefreshTypes DEF RefresherOK
    <2>5. TypeOK'
      BY <1>1, <2>3, <2>4 DEF RefreshInv, TypeOK, DepthInv, RefresherOK
    <2>6. \A h \in Refresher : h # g => refresher'[h].pc \notin {"build", "release"}
      BY <1>3, <2>4 DEF RefreshInv
    <2>7. rows' <= refresher'[g].saw /\ refresher'[g].saw <= changes' /\ rows' <= changes'
      BY <1>1, <2>2, <2>4, RefreshTypes DEF RefreshInv
    <2> QED
      BY <1>1, <2>3, <2>5, <2>6, <2>7 DEF RefreshInv
  <1> QED
    BY <1>2, <1>3

\* The rows stored are those of the only build.
LEMMA StoreRowsStep ==
    ASSUME ServingInv, NEW g \in Refresher, Store(g)
    PROVE  ServingInv' /\ rows' >= rows
  <1> USE DEF ServingInv
  <1>1. DepthInv' /\ changes' = changes /\ UNCHANGED refreshing
    BY DepthRests DEF Store, depthVars, record
  <1>2. /\ refresher[g].pc = "build" /\ rows' = refresher[g].saw /\ rowsAge' = 0
        /\ refreshing /\ rows <= refresher[g].saw /\ refresher[g].saw <= changes
    BY DEF Store, RefreshInv
  <1> DEFINE new == [pc |-> "release", saw |-> 0]
  <1>3. new \in [pc : {"idle", "refresh", "build", "release"}, saw : 0..3*MaxSwaps]
    BY DepthAssumption
  <1>4. new.pc = "release" /\ refresher' = [refresher EXCEPT ![g] = new]
    BY DEF Store
  <1> HIDE DEF new
  <1>5. /\ RefresherOK' /\ refresher'[g].pc = "release"
        /\ \A h \in Refresher : h # g => refresher'[h] = refresher[h]
    BY <1>3, <1>4, RefreshTypes DEF RefresherOK
  <1>6. TypeOK'
    <2>1. rows' \in 0..3*MaxSwaps /\ rowsAge' \in 0..RefreshAge
      BY <1>2, RefreshTypes, ServingAssumption DEF RefresherOK
    <2> QED
      BY <1>1, <1>5, <2>1 DEF RefreshInv, TypeOK, DepthInv, RefresherOK
  <1>7. \A h \in Refresher : h # g => refresher'[h].pc \notin {"build", "release"}
    BY <1>2, <1>5 DEF RefreshInv
  <1>8. rows' <= changes'
    BY <1>1, <1>2
  <1> QED
    BY <1>1, <1>2, <1>5, <1>6, <1>7, <1>8 DEF RefreshInv

\* The flag is released by its holder.
LEMMA ReleaseStep ==
    ASSUME ServingInv, NEW g \in Refresher, Release(g)
    PROVE  ServingInv'
  <1> USE DEF ServingInv
  <1>1. /\ DepthInv' /\ changes' = changes /\ UNCHANGED <<rows, rowsAge>>
        /\ refreshing' = FALSE /\ Move(g, "idle") /\ refresher[g].pc = "release"
    BY DepthRests DEF Release, FlagReleased, depthVars, record
  <1>2. /\ RefresherOK'
        /\ \A h \in Refresher : h # g => refresher'[h] = refresher[h]
        /\ refresher'[g].pc = "idle"
    BY <1>1, Moves, RefreshTypes
  <1>3. TypeOK'
    BY <1>1, <1>2 DEF RefreshInv, TypeOK, DepthInv, RefresherOK
  <1>4. \A h \in Refresher : refresher'[h].pc \notin {"build", "release"}
    BY <1>1, <1>2 DEF RefreshInv
  <1> QED
    BY <1>1, <1>3, <1>4 DEF RefreshInv

\* Every step keeps the invariant.
LEMMA ServingStep ==
    ASSUME ServingInv, [Next]_vars
    PROVE  ServingInv' /\ rows' >= rows
  <1>t. rows \in Int
    BY RefreshTypes
  <1>1. CASE StoreChanges \/ TimePasses \/ UNCHANGED vars
    <2>1. rows' = rows
      BY <1>1 DEF StoreChanges, TimePasses, vars, servingVars
    <2> QED
      BY <1>1, <1>t, <2>1, StoreOrTime
  <1>2. CASE TickerFires
    BY <1>2, <1>t, AskStep DEF TickerFires, Refresher
  <1>3. ASSUME NEW g \in Asked, Request(g)
        PROVE  ServingInv' /\ rows' = rows
    BY <1>3, AskStep DEF Request, Refresher
  <1>4. ASSUME NEW g \in Refresher, RefresherStep(g)
        PROVE  ServingInv' /\ rows' >= rows
    <2>1. CASE Refresh(g)
      <3>1. rows' = rows
        BY <2>1 DEF Refresh
      <3> QED
        BY <1>t, <2>1, <3>1, RefreshStep
    <2>2. CASE Store(g)
      BY <2>2, StoreRowsStep
    <2>3. CASE Release(g)
      BY <1>t, <2>3, ReleaseStep DEF Release
    <2> QED
      BY <1>4, <2>1, <2>2, <2>3 DEF RefresherStep
  <1> QED
    BY <1>t, <1>1, <1>2, <1>3, <1>4 DEF Next

\* The inductive invariant of depths and served rows.
THEOREM ServingInvariant == Spec => []ServingInv
  <1>1. Init => ServingInv
    BY RefresherInit
  <1>2. ServingInv /\ [Next]_vars => ServingInv'
    BY ServingStep
  <1> QED
    BY <1>1, <1>2, PTL DEF Spec

\* Tasks, caches, the record and the refreshers keep their types, the ages
\* and the number of changes their bounds.
THEOREM ServingTypes == Spec => []TypeOK
  <1>1. ServingInv => TypeOK
    BY DEF ServingInv, RefreshInv
  <1> QED
    BY <1>1, ServingInvariant, PTL

\* However many goroutines wait for one lookup of a vault, none of them is
\* still at it after its own deadline, although the wait looks at no context.
THEOREM DeadlinesKept == Spec => []NoWaitPastDeadline
  <1>1. ServingInv => NoWaitPastDeadline
    BY DEF ServingInv, DepthInv, InTime
  <1> QED
    BY <1>1, ServingInvariant, PTL

\* A written depth is of a pool with a WSOL vault and less old than the cache's
\* life and a request's together, whatever the number of pools and answers
\* under way.
THEOREM DepthsRecent == Spec => []WrittenDepthIsRecent
  <1>1. ServingInv => WrittenDepthIsRecent
    BY DEF ServingInv, DepthInv
  <1> QED
    BY <1>1, ServingInvariant, PTL

\* No build's rows replace those of a build that read the store later, for
\* any number of goroutines that refresh.
THEOREM RowsOnlyForward == Spec => RowsNeverGoBack
  <1>1. ServingInv /\ [Next]_vars => [rows' >= rows]_vars
    BY ServingStep
  <1> QED
    BY <1>1, ServingInvariant, PTL DEF Spec, RowsNeverGoBack
=============================================================================
