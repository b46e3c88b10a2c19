------------------------------- MODULE Serving -------------------------------
(***************************************************************************)
(* Serving snapshots from a cache (snapshotCache in cmd/ingestor/main.go). *)
(* With the Helius resolver a build may take long, so requests are         *)
(* answered from the rows of the last finished build.  A loop rebuilds on  *)
(* a ticker, a request that finds the rows old starts a rebuild in a       *)
(* goroutine, and a flag lets one rebuild run at a time; the others give   *)
(* up.                                                                     *)
(*                                                                         *)
(* The store is Depth's record: swaps, depths and pruning change it while  *)
(* a build runs.  What a row says is Pipeline's subject; here the rows are *)
(* known by how many changes the build had seen when it read the store.    *)
(***************************************************************************)
EXTENDS Depth

CONSTANTS
    Loop,       \* the goroutine of refreshLoop
    Asked,      \* the goroutines of triggerRefresh
    RefreshAge  \* rows older than this make a request ask for a rebuild

ASSUME ServingAssumption == Loop \notin Asked /\ RefreshAge \in Nat \ {0}

VARIABLES
    refresher,  \* goroutine -> [pc, saw]
    refreshing, \* the flag
    rows,       \* how many changes the cached rows show
    rowsAge     \* how long since they were stored

servingVars == <<refresher, refreshing, rows, rowsAge>>
vars == <<depthVars, servingVars>>

Refresher == {Loop} \cup Asked
Resting == [pc |-> "idle", saw |-> 0]

TypeOK ==
    /\ DepthTypeOK
    /\ refresher \in [Refresher -> [pc : {"idle", "refresh", "build", "release"}, saw : 0..3*MaxSwaps]]
    /\ refreshing \in BOOLEAN
    /\ rows \in 0..3*MaxSwaps /\ rowsAge \in 0..RefreshAge

\* The cache begins empty and as old as can be.
Init ==
    /\ DepthInit
    /\ refresher = [g \in Refresher |-> Resting]
    /\ refreshing = FALSE /\ rows = 0 /\ rowsAge = RefreshAge

Move(g, pc) == refresher' = [refresher EXCEPT ![g].pc = pc]

-----------------------------------------------------------------------------

\* refreshLoop: the first refresh, then one per tick.
TickerFires ==
    /\ refresher[Loop].pc = "idle"
    /\ Move(Loop, "refresh")
    /\ UNCHANGED <<depthVars, refreshing, rows, rowsAge>>

\* triggerRefresh, for a request.  Its answer is read from the rows there
\* are; it does not wait.
Request(g) ==
    /\ refresher[g].pc = "idle" /\ rowsAge >= RefreshAge
    /\ Move(g, "refresh")
    /\ UNCHANGED <<depthVars, refreshing, rows, rowsAge>>

\* The bug of a refresh that does not look whether another one is running.
MayRefreshAlways == TRUE

MayRefresh == ~refreshing

\* refresh: the compare-and-swap, and the build's reading of the store.
Refresh(g) ==
    /\ refresher[g].pc = "refresh"
    /\ IF MayRefresh
       THEN /\ refreshing' = TRUE
            /\ refresher' = [refresher EXCEPT ![g] = [pc |-> "build", saw |-> changes]]
       ELSE Move(g, "idle") /\ UNCHANGED refreshing
    /\ UNCHANGED <<depthVars, rows, rowsAge>>

\* The build ends, however long it took, and its rows are stored.
Store(g) ==
    /\ refresher[g].pc = "build"
    /\ rows' = refresher[g].saw /\ rowsAge' = 0
    /\ refresher' = [refresher EXCEPT ![g] = [pc |-> "release", saw |-> 0]]
    /\ UNCHANGED <<depthVars, refreshing>>

\* The bug of a flag that stays set.
FlagKept == refreshing

FlagReleased == FALSE

Release(g) ==
    /\ refresher[g].pc = "release"
    /\ refreshing' = FlagReleased
    /\ Move(g, "idle")
    /\ UNCHANGED <<depthVars, rows, rowsAge>>

-----------------------------------------------------------------------------

\* Time passes for depths and rows; a build takes as long as it likes.
TimePasses ==
    /\ Tick
    /\ rowsAge' = IF rowsAge < RefreshAge THEN rowsAge + 1 ELSE rowsAge
    /\ UNCHANGED <<refresher, refreshing, rows>>

StoreChanges ==
    /\ \/ Prune
       \/ \E f \in Fetch : DepthStep(f) \/ \E p \in Pool : Swap(f, p)
    /\ UNCHANGED servingVars

RefresherStep(g) == Refresh(g) \/ Store(g) \/ Release(g)

Next ==
    \/ StoreChanges
    \/ TimePasses
    \/ TickerFires
    \/ \E g \in Asked : Request(g)
    \/ \E g \in Refresher : RefresherStep(g)

\* The ticker goes on, and the goroutines run: the lookups of a build end by
\* the deadlines of its windows.  No request need ever come, no depth
\* answer, and no time need pass.
Fairness ==
    /\ WF_vars(TickerFires)
    /\ \A g \in Refresher : WF_vars(RefresherStep(g))

Spec == Init /\ [][Next]_vars /\ Fairness

-----------------------------------------------------------------------------
(* Properties.                                                             *)

\* A build that read the store earlier never replaces the rows of one that
\* read it later, although the loop and requests start builds at any time
\* and a build may take longer than the ticker's period (main.go:622).
RowsNeverGoBack == [][rows' >= rows]_vars

\* Whatever changed in the store, a swap, a depth or a dropped token, shows
\* in the served rows at last: when changes pause for long enough, the rows
\* catch up with them, however the loop and the requests get in each other's
\* way.
ChangesAreServed == []<>(rows = changes)
=============================================================================
