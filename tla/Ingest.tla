-------------------------------- MODULE Ingest --------------------------------
(***************************************************************************)
(* How swaps reach the store: the poller goroutine                         *)
(* (internal/ingestor/poller.go) walks its programs in order and fetches   *)
(* each one's newest transactions, webhook handlers (cmd/ingestor/main.go) *)
(* apply pushed transactions at any time and persist what they applied,    *)
(* and the store (Dedup, the contract SigRing implements) drops            *)
(* signatures it still remembers.  The process may restart at any moment.  *)
(*                                                                         *)
(* Transactions are numbered in chain order and stand for their            *)
(* signatures.  A program's history is the confirmed transactions that     *)
(* touch it; one transaction may touch several programs.                   *)
(***************************************************************************)
EXTENDS Integers, Sequences, FiniteSets, SequencesExt, FiniteSetsExt

CONSTANTS
    Programs,     \* the sequence of watched programs, in polling order
    MaxTx,        \* bound: transactions ever confirmed
    Touches,      \* transaction -> programs it touches
    Swaps,        \* transactions NormalizeHelius turns into an event
    Limit,        \* PollConfig.Limit, transactions per response
    Cap,          \* SigCacheCap
    MaxBehind,    \* bound: how far behind the chain a response may be
    MaxRestarts,  \* bound: restarts of the process
    Reliable      \* the programs whose fetches keep succeeding (fairness only)

Tx == 1 .. MaxTx
Program == {Programs[i] : i \in DOMAIN Programs}

ASSUME IngestAssumption ==
    /\ Programs \in Seq(Program) /\ Programs # <<>>
    /\ MaxTx \in Nat /\ MaxBehind \in Nat /\ MaxRestarts \in Nat
    /\ Reliable \subseteq Program
    /\ Limit \in Nat \ {0} /\ Cap \in Nat \ {0}
    /\ Swaps \subseteq Tx /\ Touches \in [Tx -> SUBSET Program]

VARIABLES
    top,          \* external: transactions confirmed so far
    cursors,      \* Poller.cursors; 0 is no cursor
    turn,         \* 0 between cycles, else the index of the program polled
    queue,        \* its events still to apply; meaningful while applying
    applying,     \* fetchSince has returned and the loop applies the events
    connected,    \* IngressHealth.connected
    eventsTotal,  \* IngressHealth.eventsTotal
    log,          \* the store's accepted signatures
    rows,         \* external: rows of swap_events, those about to be written included
    restarts,     \* counts Restart, for its bound
    skipped,      \* history: per program, what its fetches jumped over
    everFetched   \* history: some fetch of this process has succeeded

pollerVars == <<cursors, turn, queue, applying, connected, eventsTotal>>
historyVars == <<skipped, everFetched>>
vars == <<top, pollerVars, log, rows, restarts, historyVars>>

Store == INSTANCE Dedup WITH Sig <- Tx

Counted(tx) == \E i \in DOMAIN log : log[i] = tx

-----------------------------------------------------------------------------
(* The poller.                                                             *)

\* What a response shows: the newest Limit transactions of the program among
\* the first `view` of the chain.
Response(p, view) ==
    {t \in 1 .. view : /\ p \in Touches[t]
                       /\ Cardinality({u \in t + 1 .. view : p \in Touches[u]}) < Limit}

\* The bug of taking the newest transaction as the cursor and not as new.
NewSinceButNewest(p, response) ==
    {t \in response : t < Max(response) /\ (cursors[p] \in response => t > cursors[p])}

\* Reading newest first, everything up to the cursor is new; all of it when
\* there is no cursor or it is not in the response.
NewSince(p, response) ==
    IF cursors[p] \in response THEN {t \in response : t > cursors[p]} ELSE response

Enumerations(S) == {q \in [1 .. Cardinality(S) -> S] : IsInjective(q)}

\* The bug of leaving the response's order alone.
NewestFirst(S) == {q \in Enumerations(S) : \A i, j \in DOMAIN q : i < j => q[i] > q[j]}

\* The only enumeration of S in chain order, as a set.
OldestFirst(S) == {q \in Enumerations(S) : \A i, j \in DOMAIN q : i < j => q[i] < q[j]}

\* What no later fetch will offer: older than the response and not behind the
\* old cursor (a gap larger than Limit, or history before the first poll).
JumpedOver(p, response) ==
    {t \in 1 .. top : /\ p \in Touches[t] /\ t > cursors[p]
                      /\ response # {} /\ t < Min(response)}

StartCycle ==
    /\ turn = 0
    /\ turn' = 1
    /\ UNCHANGED <<top, cursors, queue, applying, connected, eventsTotal, log, rows,
                   restarts, historyVars>>

\* The bug of running past the last program.
AfterProgramUnbounded == turn + 1

\* The program after this one, 0 after the last.
AfterProgram == IF turn = Len(Programs) THEN 0 ELSE turn + 1

\* The bug of a return where the loop has a continue.
AbortCycle == 0

\* The cursor advances to the newest raw signature, swap or not.
Fetch(p, view) ==
    LET response == Response(p, view)
    IN  /\ turn # 0 /\ Programs[turn] = p /\ ~applying
        /\ queue' \in OldestFirst(NewSince(p, response) \cap Swaps)
        /\ cursors' = IF response = {} THEN cursors
                      ELSE [cursors EXCEPT ![p] = Max(response)]
        /\ connected' = TRUE
        /\ applying' = TRUE
        /\ skipped' = [skipped EXCEPT ![p] = @ \cup JumpedOver(p, response)]
        /\ everFetched' = TRUE
        /\ UNCHANGED <<top, turn, eventsTotal, log, rows, restarts>>

NextAfterError == AfterProgram

\* A transport, status or parse error: the cursor stays, the next program's
\* turn comes.
FetchFails(p) ==
    /\ turn # 0 /\ Programs[turn] = p /\ ~applying
    /\ connected' = FALSE
    /\ turn' = NextAfterError
    /\ UNCHANGED <<top, cursors, queue, applying, eventsTotal, log, rows, restarts,
                   historyVars>>

\* The bug of not asking the ring.
ApplyTxUnchecked(tx) == log' = Append(log, tx)

\* Store.Apply as the loop sees it: TRUE and counted, or FALSE and nothing.
ApplyTx(tx) ==
    IF tx \in Store!Recent THEN log' = log ELSE Store!Accept(tx)

\* The poller's applyFn persists nothing.
ApplyPolled ==
    /\ applying /\ queue # <<>>
    /\ ApplyTx(Head(queue))
    /\ eventsTotal' = IF log' = log THEN eventsTotal ELSE eventsTotal + 1
    /\ queue' = Tail(queue)
    /\ UNCHANGED <<top, cursors, turn, applying, connected, rows, restarts,
                   historyVars>>

FinishProgram ==
    /\ applying /\ queue = <<>>
    /\ applying' = FALSE
    /\ turn' = AfterProgram
    /\ UNCHANGED <<top, cursors, queue, connected, eventsTotal, log, rows, restarts,
                   historyVars>>

-----------------------------------------------------------------------------
(* Webhook handlers, the database, and the world outside.                  *)

\* One event of one delivery; deliveries may repeat, and come in any order.
\* What was applied is persisted by a goroutine of its own: ON CONFLICT
\* (signature) DO NOTHING, and a failed insert is logged and forgotten.
Webhook(tx, persisted) ==
    /\ tx <= top /\ tx \in Swaps
    /\ ApplyTx(tx)
    /\ rows' = IF persisted /\ log' # log THEN rows \cup {tx} ELSE rows
    /\ UNCHANGED <<top, pollerVars, restarts, historyVars>>

Confirm ==
    /\ top < MaxTx
    /\ top' = top + 1
    /\ UNCHANGED <<pollerVars, log, rows, restarts,
                   historyVars>>

\* The store, the cursors and the health counters live in memory only.
Restart ==
    /\ log' = <<>>
    /\ cursors' = [p \in Program |-> 0]
    /\ turn' = 0 /\ queue' = <<>> /\ applying' = FALSE
    /\ connected' = FALSE /\ eventsTotal' = 0
    /\ restarts < MaxRestarts /\ restarts' = restarts + 1
    /\ skipped' = [p \in Program |-> {}] /\ everFetched' = FALSE
    /\ UNCHANGED <<top, rows>>

Init ==
    /\ top \in Tx \cup {0}
    /\ log = <<>>
    /\ cursors = [p \in Program |-> 0]
    /\ turn = 0 /\ queue = <<>> /\ applying = FALSE
    /\ connected = FALSE /\ eventsTotal = 0
    /\ rows = {} /\ restarts = 0
    /\ skipped = [p \in Program |-> {}] /\ everFetched = FALSE

Views == {v \in 0 .. top : v >= top - MaxBehind}

Poll ==
    \/ StartCycle
    \/ \E p \in Program, view \in Views : Fetch(p, view)
    \/ \E p \in Program : FetchFails(p)
    \/ ApplyPolled
    \/ FinishProgram

Next ==
    \/ Poll
    \/ \E tx \in Tx, persisted \in BOOLEAN : Webhook(tx, persisted)
    \/ Confirm
    \/ Restart

Spec == Init /\ [][Next]_vars

\* A fetch ends, well or badly.
FetchReturns ==
    \/ \E p \in Program, view \in Views : Fetch(p, view)
    \/ \E p \in Program : FetchFails(p)

\* The ticker and the loop keep the goroutine running; what the code does not
\* guarantee (http.Get has no timeout) is assumed of the provider: a request
\* ends, and a reliable program's succeeds, up to date, again and again.
Fairness ==
    /\ WF_vars(StartCycle) /\ WF_vars(FetchReturns)
    /\ WF_vars(ApplyPolled) /\ WF_vars(FinishProgram)
    /\ \A p \in Reliable : SF_vars(Fetch(p, top))

FairSpec == Spec /\ Fairness

-----------------------------------------------------------------------------
(* What holds.                                                             *)

\* Every variable stays in its range; the loop's index never leaves Programs.
TypeOK ==
    /\ top \in 0 .. MaxTx /\ restarts \in 0 .. MaxRestarts
    /\ cursors \in [Program -> 0 .. MaxTx]
    /\ turn \in 0 .. Len(Programs)
    /\ queue \in Seq(Swaps)
    /\ applying \in BOOLEAN /\ connected \in BOOLEAN /\ everFetched \in BOOLEAN
    /\ eventsTotal \in 0 .. Len(log)
    /\ log \in Seq(Swaps) /\ rows \subseteq Swaps
    /\ skipped \in [Program -> SUBSET Tx]

\* poller.go moves a cursor before it applies what lies behind it.  Still, every
\* swap behind a cursor has been counted, or waits in the queue, or was jumped
\* over by a gap larger than one response: whatever the webhook, stale
\* responses, failures and restarts do in between.
NothingBehindCursorLost ==
    \A p \in Program, tx \in Swaps :
        p \in Touches[tx] /\ tx <= cursors[p]
            => Counted(tx) \/ tx \in Range(queue) \/ tx \in skipped[p]

\* "The store's signature ring handles duplicates" (poller.go, fetchSince):
\* while the ring remembers every transaction, none is counted twice in the
\* life of a process, though a transaction may come from two programs, two
\* webhook deliveries, and again after a cursor moved back.
CountedOnce == Cap >= MaxTx => IsInjective(log)

\* "Reverse to oldest-first so the store sees them in chronological order": when
\* the poller counts a swap, every older swap of the same program has been
\* counted or jumped over.
PolledInChainOrder ==
    [][ApplyPolled /\ log' # log =>
         \A tx \in Swaps :
             tx < Head(queue) /\ Programs[turn] \in Touches[tx]
                 => Counted(tx) \/ tx \in skipped[Programs[turn]]]_vars

\* A program whose fetches fail for ever does not keep another program's swaps
\* out: each confirmed swap of a reliable program ends up counted for good, or
\* jumped over.
EverySwapCounted ==
    \A p \in Reliable : \A tx \in {t \in Swaps : p \in Touches[t]} :
        tx <= top ~> [](Counted(tx) \/ tx \in skipped[p])

\* docs/operator_runbook.md:235 says of the health endpoint: "connected -- true
\* after at least one successful Helius API call".
ConnectedAfterFirstSuccess == everFetched => connected
=============================================================================
