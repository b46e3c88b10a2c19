----------------------------- MODULE IngestProofs -----------------------------
(***************************************************************************)
(* For any programs, transactions, limits and numbers of restarts: no swap *)
(* behind a cursor is lost, a ring that is large enough lets none count    *)
(* twice, and the poller counts each program's swaps in chain order.       *)
(***************************************************************************)
EXTENDS Ingest, SumsAndExtrema

-----------------------------------------------------------------------------
(* Minima and maxima of finite sets of transactions.                       *)

\* A set of transactions that is not empty has a least.
LEMMA MinIsLeast ==
    ASSUME NEW S \in SUBSET Nat, S # {}
    PROVE  Min(S) \in S /\ \A y \in S : Min(S) <= y
  BY LeastExists DEF Min

\* The newest transaction of a response exists: parseRawSigs' first entry.
LEMMA MaxIsGreatest ==
    ASSUME NEW k \in Nat, NEW S \in SUBSET (0 .. k), S # {}
    PROVE  Max(S) \in S /\ \A y \in S : y <= Max(S)
  <1>1. IsFiniteSet(S) /\ S \in SUBSET Nat
    <2>1. IsFiniteSet(0 .. k)
      BY FS_Interval
    <2>2. IsFiniteSet(S)
      BY <2>1, FS_Subset
    <2>3. S \in SUBSET Nat
      OBVIOUS
    <2> QED
      BY <2>2, <2>3
  <1>2. \E x \in S : \A y \in S : y <= x
    BY <1>1, GreatestExists
  <1> QED
    BY <1>2 DEF Max

-----------------------------------------------------------------------------
(* What a fetch yields.                                                    *)

\* A response shows transactions that the provider sees.
LEMMA ResponseType ==
    ASSUME NEW p \in Program, NEW view \in Nat
    PROVE  Response(p, view) \in SUBSET (1 .. view)
  BY DEF Response

\* What touches the program and is not shown is older than all that is shown.
LEMMA ResponseIsNewest ==
    ASSUME NEW p \in Program, NEW view \in Nat,
           NEW t \in 1 .. view, p \in Touches[t], t \notin Response(p, view),
           NEW u \in Response(p, view)
    PROVE  t < u
  <1> DEFINE Newer(x) == {y \in x + 1 .. view : p \in Touches[y]}
  <1>1. u \in 1 .. view /\ Cardinality(Newer(u)) < Limit
    BY DEF Response
  <1>2. ~ (Cardinality(Newer(t)) < Limit)
    BY DEF Response
  <1>3. ASSUME u < t PROVE FALSE
    <2>1. Newer(t) \in SUBSET Newer(u)
      BY <1>1, <1>3
    <2>2. IsFiniteSet(u + 1 .. view) /\ Newer(u) \in SUBSET (u + 1 .. view)
      BY <1>1, FS_Interval
    <2> HIDE DEF Newer
    <2>3. IsFiniteSet(Newer(u))
      BY <2>2, FS_Subset
    <2>4. IsFiniteSet(Newer(t)) /\ Cardinality(Newer(t)) <= Cardinality(Newer(u))
      BY <2>1, <2>3, FS_Subset
    <2>5. Cardinality(Newer(t)) \in Nat /\ Cardinality(Newer(u)) \in Nat
      BY <2>3, <2>4, FS_CardinalityType
    <2> QED
      BY <1>1, <1>2, <2>4, <2>5, IngestAssumption
  <1>4. u # t
    OBVIOUS
  <1> QED
    BY <1>1, <1>3, <1>4

\* The loop gets every new swap of the response, in chain order.
LEMMA OldestFirstIsAll ==
    ASSUME NEW k \in Nat, NEW S \in SUBSET (1 .. k), NEW q \in OldestFirst(S)
    PROVE  /\ q \in Seq(S)
           /\ Range(q) = S
           /\ \A i, j \in DOMAIN q : i < j => q[i] < q[j]
  <1> DEFINE n == Cardinality(S)
  <1>0. IsFiniteSet(1 .. k)
    BY FS_Interval
  <1>1. IsFiniteSet(S)
    BY <1>0, FS_Subset
  <1>2. n \in Nat
    BY <1>1, FS_CardinalityType
  <1>3. IsFiniteSet(1 .. n) /\ Cardinality(1 .. n) = n
    BY <1>2, FS_Interval
  <1> HIDE DEF n
  <1>4. q \in [1 .. n -> S] /\ q \in Injection(1 .. n, S)
    BY DEF OldestFirst, Enumerations, Injection, n
  <1>5. q \in Surjection(1 .. n, S)
    BY <1>1, <1>3, <1>4, FS_Injection DEF n
  <1>6. Range(q) = S
    BY <1>4, <1>5 DEF Surjection, Range
  <1>7. q \in Seq(S)
    BY <1>2, <1>4
  <1>8. \A i, j \in DOMAIN q : i < j => q[i] < q[j]
    BY DEF OldestFirst
  <1> QED
    BY <1>6, <1>7, <1>8

-----------------------------------------------------------------------------
(* The inductive invariant.                                                *)

\* The events the loop still has to apply are in chain order and behind the
\* cursor that fetchSince has just moved; between programs there are none.
QueueInOrder ==
    /\ ~applying => queue = <<>>
    /\ applying => /\ turn # 0
                   /\ \A i, j \in DOMAIN queue : i < j => queue[i] < queue[j]
                   /\ \A i \in DOMAIN queue : queue[i] <= cursors[Programs[turn]]

IInv == TypeOK /\ QueueInOrder /\ NothingBehindCursorLost /\ CountedOnce

\* The poller's current program.
LEMMA TurnIsProgram ==
    ASSUME TypeOK, turn # 0
    PROVE  Programs[turn] \in Program /\ turn \in DOMAIN Programs
  BY IngestAssumption DEF TypeOK, Program

\* Which program's turn comes next, if any.
LEMMA AfterProgramType ==
    ASSUME TypeOK, turn # 0
    PROVE  AfterProgram \in 0 .. Len(Programs)
  BY IngestAssumption DEF TypeOK, AfterProgram

\* Store.Apply counts what it is given, once, and forgets nothing.
LEMMA ApplyTxCounts ==
    ASSUME TypeOK, CountedOnce, NEW tx \in Swaps, ApplyTx(tx)
    PROVE  /\ log' \in Seq(Swaps)
           /\ Counted(tx)' /\ \A t : Counted(t) => Counted(t)'
           /\ log' = log \/ Len(log') = Len(log) + 1
           /\ CountedOnce'
  <1>1. log \in Seq(Swaps)
    BY DEF TypeOK
  <1>2. CASE tx \in Store!Recent
    <2>1. log' = log
      BY <1>2 DEF ApplyTx
    <2>2. Counted(tx)
      BY <1>2 DEF Store!Recent, Counted
    <2> QED
      BY <1>1, <2>1, <2>2 DEF Counted, CountedOnce, IsInjective
  <1>3. CASE tx \notin Store!Recent
    <2>1. log' = Append(log, tx)
      BY <1>3 DEF ApplyTx, Store!Accept
    <2>2. /\ log' \in Seq(Swaps) /\ Len(log') = Len(log) + 1
          /\ log'[Len(log) + 1] = tx
          /\ \A i \in 1 .. Len(log) : log'[i] = log[i]
      BY <1>1, <2>1
    <2>3. Counted(tx)' /\ \A t : Counted(t) => Counted(t)'
      BY <1>1, <2>2 DEF Counted
    <2>4. ASSUME Cap >= MaxTx PROVE IsInjective(log')
      <3>1. IsInjective(log)
        BY <2>4 DEF CountedOnce
      <3>2. log \in Injection(1 .. Len(log), 1 .. MaxTx)
        <4>1. log \in [1 .. Len(log) -> 1 .. MaxTx]
          <5>1. log \in [1 .. Len(log) -> Swaps]
            BY <1>1
          <5> QED
            BY <5>1, IngestAssumption DEF Tx
        <4> QED
          BY <3>1, <4>1 DEF Injection
      <3>3. IsFiniteSet(1 .. MaxTx) /\ Cardinality(1 .. MaxTx) = MaxTx
        BY FS_Interval, IngestAssumption
      <3>4. Cardinality(1 .. Len(log)) = Len(log) /\ Len(log) \in Nat
        BY FS_Interval, <1>1
      <3>5. Cardinality(1 .. Len(log)) <= Cardinality(1 .. MaxTx)
        BY <3>2, <3>3, FS_Injection
      <3>6. \A i \in DOMAIN log : log[i] # tx
        BY <1>1, <1>3, <2>4, <3>3, <3>4, <3>5, IngestAssumption DEF Store!Recent
      <3> QED
        BY <1>1, <2>2, <3>1, <3>6 DEF IsInjective
    <2> QED
      BY <2>2, <2>3, <2>4 DEF CountedOnce
  <1> QED
    BY <1>2, <1>3

\* A process that has just started.
LEMMA InitIInv == Init => IInv
  <1> SUFFICES ASSUME Init PROVE IInv
    OBVIOUS
  <1>1. TypeOK
    <2>1. top \in 0 .. MaxTx /\ restarts \in 0 .. MaxRestarts
      BY IngestAssumption DEF Init, Tx
    <2>2. cursors \in [Program -> 0 .. MaxTx] /\ skipped \in [Program -> SUBSET Tx]
      BY IngestAssumption DEF Init
    <2>3. turn \in 0 .. Len(Programs) /\ queue \in Seq(Swaps) /\ rows \subseteq Swaps
      BY IngestAssumption DEF Init
    <2>4. log \in Seq(Swaps) /\ eventsTotal \in 0 .. Len(log)
      BY DEF Init
    <2>5. applying \in BOOLEAN /\ connected \in BOOLEAN /\ everFetched \in BOOLEAN
      BY DEF Init
    <2> QED
      BY <2>1, <2>2, <2>3, <2>4, <2>5 DEF TypeOK
  <1>2. QueueInOrder
    BY DEF Init, QueueInOrder
  <1>3. NothingBehindCursorLost
    <2>1. \A p \in Program, tx \in Swaps : ~ (tx <= cursors[p])
      BY IngestAssumption DEF Init, Tx
    <2> QED
      BY <2>1 DEF NothingBehindCursorLost
  <1>4. CountedOnce
    BY DEF Init, CountedOnce, IsInjective
  <1> QED
    BY <1>1, <1>2, <1>3, <1>4 DEF IInv

-----------------------------------------------------------------------------
(* The poller's steps keep the invariant.                                  *)

\* Starting a cycle applies nothing and moves no cursor.
LEMMA StartCycleIInv == ASSUME IInv, StartCycle PROVE IInv'
  <1>1. TypeOK'
    BY IngestAssumption DEF IInv, TypeOK, StartCycle, historyVars
  <1>2. QueueInOrder'
    <2>1. ~applying
      BY DEF IInv, QueueInOrder, StartCycle
    <2> QED
      BY <2>1 DEF IInv, QueueInOrder, StartCycle
  <1>3. NothingBehindCursorLost' /\ CountedOnce'
    BY DEF IInv, NothingBehindCursorLost, CountedOnce, Counted, StartCycle, historyVars
  <1> QED
    BY <1>1, <1>2, <1>3 DEF IInv

\* A failed fetch leaves the cursor where it was.
LEMMA FetchFailsIInv ==
    ASSUME IInv, NEW p \in Program, FetchFails(p)
    PROVE  IInv'
  <1>1. TypeOK'
    <2>1. turn' \in 0 .. Len(Programs)
      BY AfterProgramType DEF IInv, FetchFails, NextAfterError
    <2> QED
      BY <2>1 DEF IInv, TypeOK, FetchFails, historyVars
  <1>2. QueueInOrder'
    BY DEF IInv, QueueInOrder, FetchFails
  <1>3. NothingBehindCursorLost' /\ CountedOnce'
    BY DEF IInv, NothingBehindCursorLost, CountedOnce, Counted, FetchFails, historyVars
  <1> QED
    BY <1>1, <1>2, <1>3 DEF IInv

\* A program is finished once its queue is empty.
LEMMA FinishProgramIInv == ASSUME IInv, FinishProgram PROVE IInv'
  <1>1. turn # 0 /\ queue = <<>>
    BY DEF IInv, QueueInOrder, FinishProgram
  <1>2. TypeOK'
    <2>1. turn' \in 0 .. Len(Programs)
      BY <1>1, AfterProgramType DEF IInv, FinishProgram
    <2> QED
      BY <2>1 DEF IInv, TypeOK, FinishProgram, historyVars
  <1>3. QueueInOrder'
    BY <1>1 DEF QueueInOrder, FinishProgram
  <1>4. NothingBehindCursorLost' /\ CountedOnce'
    BY DEF IInv, NothingBehindCursorLost, CountedOnce, Counted, FinishProgram, historyVars
  <1> QED
    BY <1>2, <1>3, <1>4 DEF IInv

\* What is behind the cursor of a program that a fetch moves: shown and new, or
\* behind the old cursor, or jumped over.
LEMMA BehindNewCursor ==
    ASSUME NEW p \in Program, NEW view \in Nat, view <= top, top \in Nat,
           cursors \in [Program -> Nat],
           Response(p, view) # {},
           NEW tx \in Nat \ {0}, p \in Touches[tx], tx <= Max(Response(p, view))
    PROVE  \/ tx \in NewSince(p, Response(p, view))
           \/ tx <= cursors[p]
           \/ tx \in JumpedOver(p, Response(p, view))
  <1> DEFINE R == Response(p, view)
  <1>1. R \in SUBSET (1 .. view)
    BY ResponseType
  <1>2. Max(R) \in R /\ Min(R) \in R
    <2>1. R \in SUBSET Nat /\ R \in SUBSET (0 .. view)
      BY <1>1
    <2> HIDE DEF R
    <2> QED
      BY <2>1, MinIsLeast, MaxIsGreatest DEF R
  <1>3. tx \in 1 .. view /\ tx \in 1 .. top
    BY <1>1, <1>2
  <1>4. CASE tx \in R
    BY <1>1, <1>3, <1>4 DEF NewSince
  <1>5. CASE tx \notin R
    <2>1. tx < Min(R)
      BY <1>2, <1>3, <1>5, ResponseIsNewest
    <2> QED
      BY <1>3, <2>1 DEF JumpedOver
  <1> QED
    BY <1>4, <1>5

\* The move of the cursor: what it passes is counted, queued or jumped over.
LEMMA FetchIInv ==
    ASSUME IInv, NEW p \in Program, NEW view \in Views, Fetch(p, view)
    PROVE  IInv'
  <1> DEFINE R == Response(p, view)
             New == NewSince(p, R) \cap Swaps
  <1> USE DEF IInv
  <1>1. /\ view \in Nat /\ view <= top /\ top \in 0 .. MaxTx /\ MaxTx \in Nat
        /\ cursors \in [Program -> 0 .. MaxTx] /\ cursors \in [Program -> Nat]
    BY IngestAssumption DEF Views, TypeOK
  <1>2. R \in SUBSET (1 .. view) /\ R \in SUBSET (0 .. view)
    <2>1. R \in SUBSET (1 .. view)
      BY <1>1, ResponseType
    <2> QED
      BY <2>1
  <1>3. New \in SUBSET (1 .. view) /\ New \subseteq R /\ New \subseteq Swaps
    BY <1>2 DEF NewSince
  <1>4. /\ queue' \in Seq(New) /\ Range(queue') = New
        /\ \A i, j \in DOMAIN queue' : i < j => queue'[i] < queue'[j]
    <2>1. queue' \in OldestFirst(New)
      BY DEF Fetch
    <2> QED
      BY <1>1, <1>3, <2>1, OldestFirstIsAll
  <1>5. ~applying /\ queue = <<>> /\ turn # 0 /\ Programs[turn] = p
    BY DEF Fetch, QueueInOrder
  <1>6. R # {} => Max(R) \in R /\ (\A t \in R : t <= Max(R)) /\ Max(R) \in 0 .. MaxTx
    <2> HIDE DEF R
    <2>1. R # {} => Max(R) \in R /\ \A t \in R : t <= Max(R)
      BY <1>1, <1>2, MaxIsGreatest
    <2>2. \A t \in R : t \in 0 .. MaxTx
      BY <1>1, <1>2
    <2> QED
      BY <2>1, <2>2
  <1>7. cursors' = IF R = {} THEN cursors ELSE [cursors EXCEPT ![p] = Max(R)]
    BY DEF Fetch
  <1>8. skipped' = [skipped EXCEPT ![p] = @ \cup JumpedOver(p, R)]
    BY DEF Fetch
  <1>9. UNCHANGED <<top, turn, eventsTotal, log, rows, restarts>>
        /\ connected' = TRUE /\ applying' = TRUE /\ everFetched' = TRUE
    BY DEF Fetch
  <1> HIDE DEF R, New
  <1>10. TypeOK'
    <2>1. cursors' \in [Program -> 0 .. MaxTx]
      BY <1>1, <1>6, <1>7
    <2>2. queue' \in Seq(Swaps)
      <3>1. Len(queue') \in Nat /\ queue' \in [1 .. Len(queue') -> New]
        BY <1>4
      <3>2. queue' \in [1 .. Len(queue') -> Swaps]
        BY <1>3, <3>1
      <3> QED
        BY <3>1, <3>2
    <2>3. JumpedOver(p, R) \subseteq Tx
      BY <1>1 DEF JumpedOver, Tx
    <2>4. skipped' \in [Program -> SUBSET Tx]
      BY <1>8, <2>3 DEF TypeOK
    <2> QED
      BY <1>9, <2>1, <2>2, <2>4 DEF TypeOK
  <1>11. QueueInOrder'
    <2>1. ASSUME NEW i \in DOMAIN queue' PROVE queue'[i] <= cursors'[Programs[turn]]
      <3>1. queue'[i] \in R
        <4>1. queue'[i] \in Range(queue')
          BY DEF Range
        <4> QED
          BY <1>3, <1>4, <4>1
      <3>2. cursors'[p] = Max(R)
        BY <1>1, <1>7, <3>1
      <3> QED
        BY <1>5, <1>6, <3>1, <3>2
    <2> QED
      BY <1>4, <1>5, <1>9, <2>1 DEF QueueInOrder
  <1>12. NothingBehindCursorLost'
    <2> SUFFICES ASSUME NEW x \in Program, NEW tx \in Swaps,
                        x \in Touches[tx], tx <= cursors'[x]
                 PROVE  Counted(tx)' \/ tx \in Range(queue') \/ tx \in skipped'[x]
      BY DEF NothingBehindCursorLost
    <2>1. skipped[x] \subseteq skipped'[x]
      BY <1>8 DEF TypeOK
    <2>2. tx <= cursors[x] => Counted(tx)' \/ tx \in skipped'[x]
      BY <1>5, <1>9, <2>1 DEF NothingBehindCursorLost, Counted, Range
    <2>3. CASE x = p /\ R # {}
      <3>1. tx \in Nat \ {0} /\ tx <= Max(R)
        BY <1>1, <1>7, <2>3, IngestAssumption DEF Tx
      <3>2. \/ tx \in NewSince(p, R)
            \/ tx <= cursors[p]
            \/ tx \in JumpedOver(p, R)
        BY <1>1, <2>3, <3>1, BehindNewCursor DEF R
      <3>3. JumpedOver(p, R) \subseteq skipped'[p]
        BY <1>8 DEF TypeOK
      <3> QED
        BY <1>4, <2>2, <2>3, <3>2, <3>3 DEF New
    <2>4. CASE x # p \/ R = {}
      BY <1>1, <1>7, <2>2, <2>4
    <2> QED
      BY <2>3, <2>4
  <1>13. CountedOnce'
    BY <1>9 DEF CountedOnce
  <1> QED
    BY <1>10, <1>11, <1>12, <1>13

\* The head of the queue is counted, now or before.
LEMMA ApplyPolledIInv == ASSUME IInv, ApplyPolled PROVE IInv'
  <1> USE DEF IInv
  <1>1. /\ queue \in Seq(Swaps) /\ queue # <<>> /\ Head(queue) \in Swaps
        /\ queue' = Tail(queue) /\ queue' \in Seq(Swaps)
    BY DEF ApplyPolled, TypeOK
  <1>2. PICK h \in Swaps : h = Head(queue)
    BY <1>1
  <1>3. /\ log' \in Seq(Swaps) /\ Counted(h)'
        /\ \A t : Counted(t) => Counted(t)'
        /\ log' = log \/ Len(log') = Len(log) + 1
        /\ CountedOnce'
    BY <1>2, ApplyTxCounts DEF ApplyPolled
  <1>4. TypeOK'
    <2>1. eventsTotal' \in 0 .. Len(log')
      BY <1>3 DEF ApplyPolled, TypeOK
    <2> QED
      BY <1>1, <1>3, <2>1 DEF ApplyPolled, TypeOK, historyVars
  <1>5. DOMAIN queue' = 1 .. Len(queue) - 1
        /\ \A i \in DOMAIN queue' : i + 1 \in DOMAIN queue /\ queue'[i] = queue[i + 1]
    BY <1>1
  <1>6. QueueInOrder'
    BY <1>1, <1>5 DEF ApplyPolled, QueueInOrder
  <1>7. NothingBehindCursorLost'
    <2> SUFFICES ASSUME NEW x \in Program, NEW tx \in Swaps,
                        x \in Touches[tx], tx <= cursors[x]
                 PROVE  Counted(tx)' \/ tx \in Range(queue') \/ tx \in skipped[x]
      BY DEF NothingBehindCursorLost, ApplyPolled, historyVars
    <2>1. CASE tx \in Range(queue)
      <3>1. PICK i \in DOMAIN queue : queue[i] = tx
        BY <2>1 DEF Range
      <3>2. CASE i = 1
        BY <1>1, <1>2, <1>3, <3>1, <3>2
      <3>3. CASE i # 1
        <4>1. i - 1 \in DOMAIN queue' /\ queue'[i - 1] = tx
          BY <1>1, <1>5, <3>1, <3>3
        <4> QED
          BY <4>1 DEF Range
      <3> QED
        BY <3>2, <3>3
    <2>2. CASE tx \notin Range(queue)
      BY <1>3, <2>2 DEF NothingBehindCursorLost
    <2> QED
      BY <2>1, <2>2
  <1> QED
    BY <1>3, <1>4, <1>6, <1>7

-----------------------------------------------------------------------------
(* So do webhooks, the chain, and restarts.                                *)

\* A webhook counts a swap unless it was counted.
LEMMA WebhookIInv ==
    ASSUME IInv, NEW tx \in Tx, NEW persisted \in BOOLEAN, Webhook(tx, persisted)
    PROVE  IInv'
  <1> USE DEF IInv
  <1>1. tx \in Swaps /\ ApplyTx(tx)
    BY DEF Webhook
  <1>2. /\ log' \in Seq(Swaps) /\ \A t : Counted(t) => Counted(t)'
        /\ log' = log \/ Len(log') = Len(log) + 1
        /\ CountedOnce'
    BY <1>1, ApplyTxCounts
  <1>3. TypeOK'
    <2>1. eventsTotal' \in 0 .. Len(log')
      BY <1>2 DEF Webhook, pollerVars, TypeOK
    <2>2. rows' \subseteq Swaps
      BY <1>1 DEF Webhook, TypeOK
    <2> QED
      BY <1>2, <2>1, <2>2 DEF Webhook, TypeOK, pollerVars, historyVars
  <1>4. QueueInOrder'
    BY DEF QueueInOrder, Webhook, pollerVars
  <1>5. NothingBehindCursorLost'
    BY <1>2 DEF NothingBehindCursorLost, Webhook, pollerVars, historyVars
  <1> QED
    BY <1>2, <1>3, <1>4, <1>5

\* New transactions are ahead of every cursor.
LEMMA ConfirmIInv == ASSUME IInv, Confirm PROVE IInv'
  <1> USE DEF IInv
  <1>1. top' \in 0 .. MaxTx
    BY IngestAssumption DEF Confirm, TypeOK
  <1>2. TypeOK'
    BY <1>1 DEF Confirm, TypeOK, pollerVars, historyVars
  <1>3. QueueInOrder'
    BY DEF Confirm, QueueInOrder, pollerVars
  <1>4. NothingBehindCursorLost' /\ CountedOnce'
    BY DEF Confirm, NothingBehindCursorLost, CountedOnce, Counted, pollerVars, historyVars
  <1> QED
    BY <1>2, <1>3, <1>4

\* With the log and the queue, a restart forgets the cursors as well.
LEMMA RestartIInv == ASSUME IInv, Restart PROVE IInv'
  <1> USE DEF IInv
  <1>1. TypeOK'
    <2>1. top' \in 0 .. MaxTx /\ rows' \subseteq Swaps /\ restarts' \in 0 .. MaxRestarts
      BY IngestAssumption DEF Restart, TypeOK
    <2>2. /\ cursors' \in [Program -> 0 .. MaxTx]
          /\ skipped' \in [Program -> SUBSET Tx]
      BY IngestAssumption DEF Restart
    <2>3. /\ turn' \in 0 .. Len(Programs) /\ queue' \in Seq(Swaps)
          /\ log' \in Seq(Swaps) /\ eventsTotal' \in 0 .. Len(log')
      BY IngestAssumption DEF Restart
    <2>4. applying' \in BOOLEAN /\ connected' \in BOOLEAN /\ everFetched' \in BOOLEAN
      BY DEF Restart
    <2> QED
      BY <2>1, <2>2, <2>3, <2>4 DEF TypeOK
  <1>2. QueueInOrder'
    BY DEF Restart, QueueInOrder
  <1>3. NothingBehindCursorLost'
    <2>1. \A p \in Program, tx \in Swaps : ~ (tx <= cursors'[p])
      BY IngestAssumption DEF Restart, Tx
    <2> QED
      BY <2>1 DEF NothingBehindCursorLost
  <1>4. CountedOnce'
    BY DEF Restart, CountedOnce, IsInjective
  <1> QED
    BY <1>1, <1>2, <1>3, <1>4

\* Every step keeps the invariant.
LEMMA NextIInv == IInv /\ [Next]_vars => IInv'
  <1> SUFFICES ASSUME IInv, [Next]_vars PROVE IInv'
    OBVIOUS
  <1>1. CASE Poll
    <2>1. CASE StartCycle
      BY <2>1, StartCycleIInv
    <2>2. ASSUME NEW p \in Program, NEW view \in Views, Fetch(p, view) PROVE IInv'
      BY <2>2, FetchIInv
    <2>3. ASSUME NEW p \in Program, FetchFails(p) PROVE IInv'
      BY <2>3, FetchFailsIInv
    <2>4. CASE ApplyPolled
      BY <2>4, ApplyPolledIInv
    <2>5. CASE FinishProgram
      BY <2>5, FinishProgramIInv
    <2> QED
      BY <1>1, <2>1, <2>2, <2>3, <2>4, <2>5 DEF Poll
  <1>2. ASSUME NEW tx \in Tx, NEW persisted \in BOOLEAN, Webhook(tx, persisted) PROVE IInv'
    BY <1>2, WebhookIInv
  <1>3. CASE Confirm
    BY <1>3, ConfirmIInv
  <1>4. CASE Restart
    BY <1>4, RestartIInv
  <1>5. CASE UNCHANGED vars
    BY <1>5 DEF vars, pollerVars, historyVars, IInv, TypeOK, QueueInOrder,
                NothingBehindCursorLost, CountedOnce, Counted
  <1> QED
    BY <1>1, <1>2, <1>3, <1>4, <1>5 DEF Next

-----------------------------------------------------------------------------
(* The theorems.                                                           *)

\* The ingress keeps its invariant: types, a queue in chain order bounded by the
\* cursor, nothing lost behind the cursor, nothing counted twice.
THEOREM IngestInvariant == Spec => []IInv
  BY InitIInv, NextIInv, PTL DEF Spec

\* Type correctness: the loop's index stays among the programs, and nothing but
\* swaps is queued, counted or persisted.
THEOREM IngestTypes == Spec => []TypeOK
  <1>1. IInv => TypeOK
    BY DEF IInv
  <1> QED
    BY <1>1, IngestInvariant, PTL

\* The poller's cursor never silently passes a swap (poller.go, poll and
\* fetchSince).
THEOREM NothingLost == Spec => []NothingBehindCursorLost
  <1>1. IInv => NothingBehindCursorLost
    BY DEF IInv
  <1> QED
    BY <1>1, IngestInvariant, PTL

\* Whatever the poller and the webhooks deliver, and however often, a ring of at
\* least as many signatures as there are transactions counts each at most once.
THEOREM NothingCountedTwice == Spec => []CountedOnce
  <1>1. IInv => CountedOnce
    BY DEF IInv
  <1> QED
    BY <1>1, IngestInvariant, PTL

\* fetchSince's reversal: the poller counts no swap before an older one of its
\* program that it has not jumped over.
THEOREM ChainOrder == Spec => PolledInChainOrder
  <1>1. IInv /\ [Next]_vars =>
          [ApplyPolled /\ log' # log =>
             \A tx \in Swaps :
                 tx < Head(queue) /\ Programs[turn] \in Touches[tx]
                     => Counted(tx) \/ tx \in skipped[Programs[turn]]]_vars
    <2> SUFFICES ASSUME IInv, ApplyPolled,
                        NEW tx \in Swaps, tx < Head(queue), Programs[turn] \in Touches[tx]
                 PROVE  Counted(tx) \/ tx \in skipped[Programs[turn]]
      OBVIOUS
    <2> USE DEF IInv
    <2>1. applying /\ queue # <<>> /\ queue \in Seq(Swaps) /\ turn # 0
      BY DEF ApplyPolled, QueueInOrder, TypeOK
    <2>2. Programs[turn] \in Program
      BY <2>1, TurnIsProgram
    <2>3. /\ 1 \in DOMAIN queue /\ Head(queue) = queue[1]
          /\ \A i \in DOMAIN queue : i \in Nat /\ 1 <= i /\ queue[i] \in Nat
      <3>1. \A t \in Swaps : t \in Nat
        BY IngestAssumption DEF Tx
      <3>2. 1 \in DOMAIN queue /\ Head(queue) = queue[1]
        BY <2>1
      <3>3. \A i \in DOMAIN queue : i \in Nat /\ 1 <= i /\ queue[i] \in Swaps
        BY <2>1
      <3> QED
        BY <3>1, <3>2, <3>3
    <2>4. tx <= cursors[Programs[turn]]
      <3>1. queue[1] <= cursors[Programs[turn]]
        BY <2>1, <2>3 DEF QueueInOrder
      <3>2. tx \in Nat /\ cursors[Programs[turn]] \in Nat
        BY <2>2, IngestAssumption DEF TypeOK, Tx
      <3> QED
        BY <2>3, <3>1, <3>2
    <2>5. \A i \in DOMAIN queue : queue[1] <= queue[i]
      BY <2>1, <2>3 DEF QueueInOrder
    <2>6. tx \notin Range(queue)
      BY <2>3, <2>5, IngestAssumption DEF Range, Tx
    <2> QED
      BY <2>2, <2>4, <2>6 DEF NothingBehindCursorLost
  <1> QED
    BY <1>1, IngestInvariant, PTL DEF Spec, PolledInChainOrder
=============================================================================
