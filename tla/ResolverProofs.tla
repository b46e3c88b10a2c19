---------------------------- MODULE ResolverProofs ----------------------------
(***************************************************************************)
(* For any number of calls, wallets and slots: entries of the in-flight    *)
(* map are led, one fetch runs per wallet and no more than Slots in all,   *)
(* answers are true, and only errors of the provider degrade its health.   *)
(***************************************************************************)
EXTENDS Resolver, FiniteSetTheorems, TLAPS

\* The parts of a lookup.
LEMMA LookupFacts ==
    /\ \A l \in Lookup : l[1] \in Batch /\ WalletOf(l) \in Wallet
    /\ NoLookup \notin Lookup
  <1>1. \A l \in Lookup : l \in Batch \X Wallet
    BY DEF Lookup
  <1>2. \A l \in Lookup : l[1] \in Batch /\ WalletOf(l) \in Wallet
    BY <1>1 DEF WalletOf
  <1>3. NoLookup \notin Batch \X Wallet
    BY DEF NoLookup
  <1> QED
    BY <1>1, <1>2, <1>3

\* A wallet's root is its funder, or the wallet itself.
LEMMA KnownFacts ==
    \A w \in Wallet : /\ Known(w) \in Wallet /\ w # NoWallet
                      /\ Funder[w] \in Wallet \cup {NoWallet}
                      /\ Funder[w] = NoWallet => Known(w) = w
                      /\ Funder[w] # NoWallet => Known(w) = Funder[w]
  BY ResolverAssumption DEF Known

-----------------------------------------------------------------------------
(* The inductive invariant.                                                *)

\* The in-flight map holds exactly the lookups on their way from Join to Remove.
Leads(l) == pc[l] \in {"acquire", "fetch", "announce", "remove"}

MapIsLeaders ==
    /\ \A w \in Wallet : inflight[w] # NoLookup =>
            WalletOf(inflight[w]) = w /\ Leads(inflight[w])
    /\ \A l \in Lookup : Leads(l) => inflight[WalletOf(l)] = l

\* Whoever waits, waits for an entry of its wallet that is done or will be.
WaitsEnd ==
    /\ \A l \in Lookup : pc[l] = "wait" =>
            /\ awaits[l] \in Lookup /\ WalletOf(awaits[l]) = WalletOf(l)
            /\ entry[awaits[l]].done \/ pc[awaits[l]] \in {"acquire", "fetch", "announce"}
    /\ \A l \in Lookup : /\ pc[l] = "remove" => entry[l].done
                         /\ entry[l].done => pc[l] \in {"remove", "returned"}

\* Nothing false is cached, published or returned.
NothingFalse ==
    /\ \A w \in Wallet : /\ cache[w] = "positive" => Funder[w] # NoWallet
                         /\ cache[w] = "negative" => Funder[w] = NoWallet
    /\ \A l \in Lookup :
        LET w == WalletOf(l)
        IN  /\ entry[l].parent # NoWallet => entry[l].parent = Funder[w]
            /\ (pc[l] \in {"announce", "remove"} \/ entry[l].done) /\ l \notin unanswered
                 => entry[l].parent = Funder[w]
            /\ pc[l] \in {"announce", "remove", "returned"} /\ l \notin unanswered
                 => root[l] = Known(w)

Failed == {l \in Lookup : err[l] = "error"}
Fetching == {l \in Lookup : pc[l] = "fetch"}

\* Each consecutive failure is one lookup's; a lookup fails once.
FailuresAccounted ==
    /\ IsFiniteSet(Failed) /\ consecFail <= Cardinality(Failed)
    /\ \A l \in Lookup : pc[l] \notin {"announce", "remove", "returned"} => err[l] = "none"

SlotsCounted == IsFiniteSet(Fetching) /\ Cardinality(Fetching) <= Slots

RInv ==
    TypeOK /\ MapIsLeaders /\ WaitsEnd /\ NothingFalse /\ FailuresAccounted /\ SlotsCounted

\* A resolver nobody has called.
LEMMA InitRInv == Init => RInv
  <1> SUFFICES ASSUME Init PROVE RInv
    OBVIOUS
  <1> USE DEF Init
  <1>1. TypeOK
    BY DEF TypeOK
  <1>2. MapIsLeaders
    BY LookupFacts DEF MapIsLeaders, Leads
  <1>3. WaitsEnd
    BY DEF WaitsEnd
  <1>4. NothingFalse
    BY DEF NothingFalse
  <1>5. FailuresAccounted
    <2>1. Failed = {}
      BY DEF Failed
    <2>2. \A l \in Lookup : err[l] = "none"
      OBVIOUS
    <2> QED
      BY <2>1, <2>2, FS_EmptySet DEF FailuresAccounted
  <1>6. SlotsCounted
    <2>1. Fetching = {}
      BY DEF Fetching
    <2> QED
      BY <2>1, FS_EmptySet, ResolverAssumption DEF SlotsCounted
  <1> QED
    BY <1>1, <1>2, <1>3, <1>4, <1>5, <1>6 DEF RInv

-----------------------------------------------------------------------------
(* What several steps share.                                               *)

\* A step after which no lookup fetches that did not before.
LEMMA NoNewFetch ==
    ASSUME SlotsCounted, Fetching' \in SUBSET Fetching
    PROVE  SlotsCounted'
  <1>1. IsFiniteSet(Fetching') /\ Cardinality(Fetching') <= Cardinality(Fetching)
    BY FS_Subset DEF SlotsCounted
  <1>2. Cardinality(Fetching') \in Nat /\ Cardinality(Fetching) \in Nat
    BY <1>1, FS_CardinalityType DEF SlotsCounted
  <1> QED
    BY <1>1, <1>2, ResolverAssumption DEF SlotsCounted

\* A step that moves one lookup without it returning.
LEMMA MoveOn ==
    ASSUME RInv, NEW l \in Lookup, NEW next,
           \/ /\ next \in {"lookup", "join", "wait", "acquire", "fetch"}
              /\ pc[l] \notin {"announce", "remove", "returned"}
           \/ next \in {"remove", "returned"} /\ pc[l] \in {"announce", "remove"},
           next = "fetch" => SlotFree,
           Goto(l, next), UNCHANGED counters
    PROVE  /\ pc' \in [Lookup -> {"idle", "begin", "lookup", "join", "wait", "acquire",
                                   "fetch", "announce", "remove", "returned"}]
           /\ FailuresAccounted'
           /\ SlotsCounted'
  <1> USE DEF RInv
  <1>1. /\ pc' = [pc EXCEPT ![l] = next] /\ UNCHANGED <<root, err, unanswered, consecFail>>
    BY DEF Goto, answers, counters
  <1>2. pc' \in [Lookup -> {"idle", "begin", "lookup", "join", "wait", "acquire",
                            "fetch", "announce", "remove", "returned"}]
    BY <1>1 DEF TypeOK
  <1>3. FailuresAccounted'
    <2>1. Failed' = Failed
      BY <1>1 DEF Failed
    <2>2. \A k \in Lookup : pc'[k] \notin {"announce", "remove", "returned"} => err[k] = "none"
      BY <1>1 DEF FailuresAccounted, TypeOK
    <2> QED
      BY <1>1, <2>1, <2>2 DEF FailuresAccounted
  <1>4. CASE next # "fetch"
    <2>1. Fetching' \in SUBSET Fetching
      BY <1>1, <1>4 DEF Fetching, TypeOK
    <2> QED
      BY <1>2, <1>3, <2>1, NoNewFetch
  <1>5. CASE next = "fetch"
    <2>1. Fetching' = Fetching \cup {l}
      BY <1>1, <1>5 DEF Fetching, TypeOK
    <2>2. Cardinality(Fetching) < Slots
      BY <1>5 DEF SlotFree, Fetching
    <2>3. IsFiniteSet(Fetching) /\ Cardinality(Fetching) \in Nat
      BY FS_CardinalityType DEF SlotsCounted
    <2>4. IsFiniteSet(Fetching') /\ Cardinality(Fetching') <= Cardinality(Fetching) + 1
      <3>1. /\ IsFiniteSet(Fetching \cup {l})
            /\ Cardinality(Fetching \cup {l}) =
                 IF l \in Fetching THEN Cardinality(Fetching) ELSE Cardinality(Fetching) + 1
        BY <2>3, FS_AddElement
      <3> HIDE DEF Fetching
      <3> QED
        BY <2>1, <2>3, <3>1
    <2>5. Cardinality(Fetching') \in Nat
      BY <2>4, FS_CardinalityType
    <2> QED
      BY <1>2, <1>3, <2>2, <2>3, <2>4, <2>5, ResolverAssumption DEF SlotsCounted
  <1> QED
    BY <1>4, <1>5

\* A step in which one lookup gets its root and no error of the provider.
LEMMA ReturnTypes ==
    ASSUME RInv, NEW l \in Lookup, NEW next \in {"announce", "returned"},
           NEW r \in Wallet, NEW e \in {"none", "timeout", "error"}, NEW a \in BOOLEAN,
           pc[l] \notin {"announce", "remove", "returned"},
           Return(l, next, r, e, a)
    PROVE  /\ pc' \in [Lookup -> {"idle", "begin", "lookup", "join", "wait", "acquire",
                                   "fetch", "announce", "remove", "returned"}]
           /\ root' \in [Lookup -> Wallet \cup {NoWallet}]
           /\ err' \in [Lookup -> {"none", "timeout", "error"}]
           /\ unanswered' \subseteq Lookup
           /\ SlotsCounted'
           /\ e # "error" /\ consecFail' \in {0, consecFail} => FailuresAccounted'
  <1> USE DEF RInv
  <1>1. /\ pc' = [pc EXCEPT ![l] = next] /\ root' = [root EXCEPT ![l] = r]
        /\ err' = [err EXCEPT ![l] = e]
        /\ unanswered' = IF a THEN unanswered ELSE unanswered \cup {l}
    BY DEF Return
  <1>2. SlotsCounted'
    <2>1. Fetching' \in SUBSET Fetching
      BY <1>1 DEF Fetching, TypeOK
    <2> QED
      BY <2>1, NoNewFetch
  <1>3. ASSUME e # "error", consecFail' \in {0, consecFail} PROVE FailuresAccounted'
    <2>1. err[l] = "none"
      BY DEF FailuresAccounted
    <2>2. Failed' = Failed
      BY <1>1, <1>3, <2>1 DEF Failed, TypeOK
    <2>3. \A k \in Lookup : pc'[k] \notin {"announce", "remove", "returned"} => err'[k] = "none"
      BY <1>1 DEF FailuresAccounted, TypeOK
    <2>4. consecFail' <= Cardinality(Failed)
      <3>1. Cardinality(Failed) \in Nat
        BY FS_CardinalityType DEF FailuresAccounted
      <3> QED
        BY <1>3, <3>1 DEF FailuresAccounted, TypeOK
    <2> QED
      BY <2>2, <2>3, <2>4 DEF FailuresAccounted
  <1>4. pc' \in [Lookup -> {"idle", "begin", "lookup", "join", "wait", "acquire",
                            "fetch", "announce", "remove", "returned"}]
    BY <1>1 DEF TypeOK
  <1>5. root' \in [Lookup -> Wallet \cup {NoWallet}] /\ unanswered' \subseteq Lookup
    BY <1>1 DEF TypeOK
  <1>6. err' \in [Lookup -> {"none", "timeout", "error"}]
    BY <1>1 DEF TypeOK
  <1> QED
    BY <1>2, <1>3, <1>4, <1>5, <1>6

-----------------------------------------------------------------------------
(* Each step keeps the invariant.                                          *)

\* A call of Cluster begins its lookups.
LEMMA StartRInv == ASSUME RInv, NEW b \in Batch, Start(b) PROVE RInv'
  <1> USE DEF RInv
  <1>1. /\ \A l \in Lookup : IF l[1] = b THEN pc[l] = "idle" /\ pc'[l] = "begin"
                             ELSE pc'[l] = pc[l]
        /\ pc' = [l \in Lookup |-> IF l[1] = b THEN "begin" ELSE pc[l]]
        /\ UNCHANGED <<expired, cache, inflight, awaits, entry, consecFail, timeoutFallbk,
                       errorFallbk, root, err, unanswered>>
    BY DEF Start, counters, answers
  <1>2. TypeOK'
    BY <1>1 DEF TypeOK
  <1>3. MapIsLeaders'
    BY <1>1, LookupFacts DEF MapIsLeaders, Leads, TypeOK
  <1>4. WaitsEnd'
    BY <1>1 DEF WaitsEnd
  <1>5. NothingFalse'
    BY <1>1 DEF NothingFalse
  <1>6. FailuresAccounted'
    <2>1. Failed' = Failed
      BY <1>1 DEF Failed
    <2> QED
      BY <1>1, <2>1 DEF FailuresAccounted
  <1>7. SlotsCounted'
    <2>1. Fetching' \in SUBSET Fetching
      BY <1>1 DEF Fetching
    <2> QED
      BY <2>1, NoNewFetch
  <1> QED
    BY <1>2, <1>3, <1>4, <1>5, <1>6, <1>7

\* A deadline passes.
LEMMA ExpireRInv == ASSUME RInv, NEW b \in Batch, Expire(b) PROVE RInv'
  BY DEF RInv, TypeOK, MapIsLeaders, Leads, WaitsEnd, NothingFalse, FailuresAccounted, Failed,
         SlotsCounted, Fetching, Expire, counters, answers

\* Forgetting an answer makes none false.
LEMMA CacheExpireRInv == ASSUME RInv, NEW w \in Wallet, CacheExpire(w) PROVE RInv'
  <1> USE DEF RInv
  <1>1. /\ cache' = [cache EXCEPT ![w] = "none"]
        /\ UNCHANGED <<pc, expired, inflight, awaits, entry, consecFail, timeoutFallbk,
                       errorFallbk, root, err, unanswered>>
    BY DEF CacheExpire, counters, answers
  <1>2. TypeOK'
    BY <1>1 DEF TypeOK
  <1>3. NothingFalse'
    <2>1. \A v \in Wallet : cache'[v] \in {"none", cache[v]}
      BY <1>1 DEF TypeOK
    <2> QED
      BY <1>1, <2>1 DEF NothingFalse
  <1>4. MapIsLeaders' /\ WaitsEnd' /\ FailuresAccounted' /\ SlotsCounted'
    BY <1>1 DEF MapIsLeaders, Leads, WaitsEnd, FailuresAccounted, Failed, SlotsCounted, Fetching
  <1> QED
    BY <1>2, <1>3, <1>4

\* A lookup that neither leads nor waits returns with an answer that is true or
\* no answer at all.
LEMMA ReturnsFree ==
    ASSUME RInv, NEW l \in Lookup, NEW r \in Wallet, NEW a \in BOOLEAN,
           pc[l] \in {"begin", "lookup", "wait"},
           Return(l, "returned", r, "none", a),
           a => r = Known(WalletOf(l)),
           UNCHANGED <<expired, cache, inflight, awaits, entry, counters>>
    PROVE  RInv'
  <1> USE DEF RInv
  <1>1. /\ pc' = [pc EXCEPT ![l] = "returned"] /\ root' = [root EXCEPT ![l] = r]
        /\ unanswered' = IF a THEN unanswered ELSE unanswered \cup {l}
        /\ UNCHANGED <<expired, cache, inflight, awaits, entry, consecFail, timeoutFallbk,
                       errorFallbk>>
    BY DEF Return, counters
  <1>2. TypeOK' /\ SlotsCounted' /\ FailuresAccounted'
    <2>1. /\ pc' \in [Lookup -> {"idle", "begin", "lookup", "join", "wait", "acquire",
                                  "fetch", "announce", "remove", "returned"}]
          /\ root' \in [Lookup -> Wallet \cup {NoWallet}]
          /\ err' \in [Lookup -> {"none", "timeout", "error"}]
          /\ unanswered' \subseteq Lookup
          /\ SlotsCounted' /\ FailuresAccounted'
      BY <1>1, ReturnTypes
    <2> QED
      BY <1>1, <2>1 DEF TypeOK
  <1>3. MapIsLeaders'
    BY <1>1, LookupFacts DEF MapIsLeaders, Leads, TypeOK
  <1>4. WaitsEnd'
    BY <1>1 DEF WaitsEnd, TypeOK
  <1>5. NothingFalse'
    <2> SUFFICES ASSUME NEW k \in Lookup
                 PROVE  LET w == WalletOf(k)
                        IN  /\ entry[k].parent # NoWallet => entry[k].parent = Funder[w]
                            /\ (pc'[k] \in {"announce", "remove"} \/ entry[k].done)
                                 /\ k \notin unanswered' => entry[k].parent = Funder[w]
                            /\ pc'[k] \in {"announce", "remove", "returned"}
                                 /\ k \notin unanswered' => root'[k] = Known(w)
      BY <1>1 DEF NothingFalse
    <2>1. CASE k = l
      BY <1>1, <2>1 DEF NothingFalse, WaitsEnd, TypeOK
    <2>2. CASE k # l
      BY <1>1, <2>2 DEF NothingFalse, TypeOK
    <2> QED
      BY <2>1, <2>2
  <1> QED
    BY <1>2, <1>3, <1>4, <1>5

\* A leader returns: what it publishes, if anything, is the truth.
LEMMA ReturnsLeading ==
    ASSUME RInv, NEW l \in Lookup, NEW r \in Wallet,
           NEW e \in {"none", "timeout", "error"}, NEW a \in BOOLEAN,
           pc[l] \in {"acquire", "fetch"},
           Return(l, "announce", r, e, a),
           \/ entry' = entry /\ ~a
           \/ entry' = [entry EXCEPT ![l].parent = Funder[WalletOf(l)]]
              /\ r = Known(WalletOf(l)),
           \/ cache' = cache
           \/ cache' = [cache EXCEPT ![WalletOf(l)] =
                          IF Funder[WalletOf(l)] = NoWallet THEN "negative" ELSE "positive"],
           UNCHANGED <<expired, inflight, awaits>>,
           consecFail' \in Nat /\ timeoutFallbk' \in Nat /\ errorFallbk' \in Nat
    PROVE  /\ TypeOK' /\ MapIsLeaders' /\ WaitsEnd' /\ NothingFalse' /\ SlotsCounted'
           /\ e # "error" /\ consecFail' \in {0, consecFail} => FailuresAccounted'
  <1> USE DEF RInv
  <1> DEFINE w == WalletOf(l)
  <1>1. /\ pc' = [pc EXCEPT ![l] = "announce"] /\ root' = [root EXCEPT ![l] = r]
        /\ unanswered' = IF a THEN unanswered ELSE unanswered \cup {l}
    BY DEF Return
  <1>2. w \in Wallet
    BY LookupFacts
  <1>3. /\ pc' \in [Lookup -> {"idle", "begin", "lookup", "join", "wait", "acquire",
                               "fetch", "announce", "remove", "returned"}]
        /\ root' \in [Lookup -> Wallet \cup {NoWallet}]
        /\ err' \in [Lookup -> {"none", "timeout", "error"}]
        /\ unanswered' \subseteq Lookup
        /\ SlotsCounted'
        /\ e # "error" /\ consecFail' \in {0, consecFail} => FailuresAccounted'
    <2>1. pc[l] \notin {"announce", "remove", "returned"}
      OBVIOUS
    <2> QED
      BY <2>1, ReturnTypes
  <1>4. /\ entry' \in [Lookup -> [done : BOOLEAN, parent : Wallet \cup {NoWallet}]]
        /\ \A k \in Lookup : entry'[k].done = entry[k].done
        /\ \A k \in Lookup : k # l => entry'[k] = entry[k]
        /\ entry'[l].parent \in {entry[l].parent, Funder[w]}
        /\ a => entry'[l].parent = Funder[w]
    <2>1. Funder[w] \in Wallet \cup {NoWallet}
      BY <1>2, KnownFacts
    <2>2. entry \in [Lookup -> [done : BOOLEAN, parent : Wallet \cup {NoWallet}]]
      BY DEF TypeOK
    <2>3. CASE entry' = entry /\ ~a
      BY <2>2, <2>3
    <2>4. CASE entry' = [entry EXCEPT ![l].parent = Funder[w]]
      <3> DEFINE old == entry[l]
                 new == [old EXCEPT !.parent = Funder[w]]
      <3>1. old \in [done : BOOLEAN, parent : Wallet \cup {NoWallet}]
        BY <2>2
      <3>2. /\ new \in [done : BOOLEAN, parent : Wallet \cup {NoWallet}]
            /\ new.done = old.done /\ new.parent = Funder[w]
        BY <2>1, <3>1
      <3>3. entry' = [entry EXCEPT ![l] = new]
        BY <2>4
      <3> HIDE DEF new
      <3>4. entry'[l] = new /\ \A k \in Lookup : k # l => entry'[k] = entry[k]
        BY <2>2, <3>3
      <3>5. entry' \in [Lookup -> [done : BOOLEAN, parent : Wallet \cup {NoWallet}]]
        BY <2>2, <3>2, <3>3
      <3> QED
        BY <3>2, <3>4, <3>5
    <2> QED
      BY <2>3, <2>4
  <1>5. cache' \in [Wallet -> {"none", "positive", "negative"}]
        /\ \A v \in Wallet : /\ cache'[v] = "positive" => Funder[v] # NoWallet
                             /\ cache'[v] = "negative" => Funder[v] = NoWallet
    <2>1. CASE cache' = cache
      BY <2>1 DEF TypeOK, NothingFalse
    <2>2. CASE cache' = [cache EXCEPT ![w] = IF Funder[w] = NoWallet THEN "negative"
                                             ELSE "positive"]
      BY <1>2, <2>2 DEF TypeOK, NothingFalse
    <2> QED
      BY <2>1, <2>2
  <1> HIDE DEF w
  <1>6. TypeOK'
    BY <1>3, <1>4, <1>5 DEF TypeOK
  <1>7. MapIsLeaders'
    BY <1>1, LookupFacts DEF MapIsLeaders, Leads, TypeOK
  <1>8. WaitsEnd'
    BY <1>1, <1>4 DEF WaitsEnd, TypeOK
  <1>9. NothingFalse'
    <2> SUFFICES ASSUME NEW k \in Lookup
                 PROVE  LET v == WalletOf(k)
                        IN  /\ entry'[k].parent # NoWallet => entry'[k].parent = Funder[v]
                            /\ (pc'[k] \in {"announce", "remove"} \/ entry'[k].done)
                                 /\ k \notin unanswered' => entry'[k].parent = Funder[v]
                            /\ pc'[k] \in {"announce", "remove", "returned"}
                                 /\ k \notin unanswered' => root'[k] = Known(v)
      BY <1>5 DEF NothingFalse
    <2>1. CASE k = l
      <3>1. entry'[l].parent # NoWallet => entry'[l].parent = Funder[w]
        BY <1>4 DEF NothingFalse, w
      <3>2. l \notin unanswered' => a
        BY <1>1
      <3>3. l \notin unanswered' => root'[l] = Known(w)
        BY <1>1, <3>2 DEF TypeOK, w
      <3> QED
        BY <1>4, <2>1, <3>1, <3>2, <3>3 DEF w
    <2>2. CASE k # l
      BY <1>1, <1>4, <2>2 DEF NothingFalse, TypeOK
    <2> QED
      BY <2>1, <2>2
  <1> QED
    BY <1>3, <1>6, <1>7, <1>8, <1>9

\* A lookup goes on without touching the map or any entry.
LEMMA MovesFree ==
    ASSUME RInv, NEW l \in Lookup, NEW next,
           \/ pc[l] = "begin" /\ next = "lookup"
           \/ pc[l] = "lookup" /\ next = "join"
           \/ pc[l] = "acquire" /\ next = "fetch" /\ SlotFree,
           Goto(l, next),
           UNCHANGED <<expired, cache, inflight, awaits, entry, counters>>
    PROVE  RInv'
  <1> USE DEF RInv
  <1>1. /\ pc' = [pc EXCEPT ![l] = next]
        /\ UNCHANGED <<expired, cache, inflight, awaits, entry, consecFail, timeoutFallbk,
                       errorFallbk, root, err, unanswered>>
    BY DEF Goto, counters, answers
  <1>2. /\ pc' \in [Lookup -> {"idle", "begin", "lookup", "join", "wait", "acquire",
                               "fetch", "announce", "remove", "returned"}]
        /\ FailuresAccounted' /\ SlotsCounted'
    BY MoveOn
  <1>3. TypeOK'
    BY <1>1, <1>2 DEF TypeOK
  <1>4. MapIsLeaders'
    BY <1>1, LookupFacts DEF MapIsLeaders, Leads, TypeOK
  <1>5. WaitsEnd'
    BY <1>1 DEF WaitsEnd, TypeOK
  <1>6. NothingFalse'
    BY <1>1 DEF NothingFalse, TypeOK
  <1> QED
    BY <1>2, <1>3, <1>4, <1>5, <1>6

\* A lookup begins, unless its deadline has passed.
LEMMA BeginRInv == ASSUME RInv, NEW l \in Lookup, Begin(l) PROVE RInv'
  <1>1. pc[l] = "begin" /\ UNCHANGED <<expired, cache, inflight, awaits, entry, counters>>
    BY DEF Begin
  <1>2. CASE expired[l[1]]
    <2>1. Return(l, "returned", WalletOf(l), "none", FALSE)
      BY <1>2 DEF Begin
    <2> QED
      BY <1>1, <2>1, ReturnsFree, LookupFacts
  <1>3. CASE ~expired[l[1]]
    <2>1. Goto(l, "lookup")
      BY <1>3 DEF Begin
    <2> QED
      BY <1>1, <2>1, MovesFree
  <1> QED
    BY <1>2, <1>3

\* A cached root answers a lookup.
LEMMA CacheLookupRInv == ASSUME RInv, NEW l \in Lookup, CacheLookup(l) PROVE RInv'
  <1> DEFINE w == WalletOf(l)
  <1>1. pc[l] = "lookup" /\ UNCHANGED <<expired, cache, inflight, awaits, entry, counters>>
    BY DEF CacheLookup
  <1>2. w \in Wallet /\ cache[w] \in {"none", "positive", "negative"}
    BY LookupFacts DEF RInv, TypeOK
  <1>3. CASE cache[w] = "none"
    <2>1. Goto(l, "join")
      BY <1>3 DEF CacheLookup
    <2> QED
      BY <1>1, <2>1, MovesFree
  <1>4. CASE cache[w] = "positive"
    <2>1. Return(l, "returned", Funder[w], "none", TRUE)
      BY <1>4 DEF CacheLookup
    <2>2. Funder[w] \in Wallet /\ Funder[w] = Known(w)
      BY <1>2, <1>4, KnownFacts DEF RInv, NothingFalse
    <2> QED
      BY <1>1, <2>1, <2>2, ReturnsFree
  <1>5. CASE cache[w] = "negative"
    <2>1. Return(l, "returned", w, "none", TRUE)
      BY <1>5 DEF CacheLookup
    <2>2. w = Known(w)
      BY <1>2, <1>5, KnownFacts DEF RInv, NothingFalse
    <2> QED
      BY <1>1, <1>2, <2>1, <2>2, ReturnsFree
  <1> QED
    BY <1>2, <1>3, <1>4, <1>5

\* What a waiter takes from a finished entry of its wallet.
LEMMA WakeRInv == ASSUME RInv, NEW l \in Lookup, Wake(l) PROVE RInv'
  <1> DEFINE w == WalletOf(l)
             p == entry[awaits[l]].parent
             a == awaits[l] \notin unanswered
  <1>1. /\ pc[l] = "wait" /\ entry[awaits[l]].done
        /\ UNCHANGED <<expired, cache, inflight, awaits, entry, counters>>
    BY DEF Wake
  <1>2. w \in Wallet /\ awaits[l] \in Lookup /\ WalletOf(awaits[l]) = w
    BY <1>1, LookupFacts DEF RInv, WaitsEnd
  <1>3. /\ p \in Wallet \cup {NoWallet} /\ (p # NoWallet => p = Funder[w])
        /\ a => p = Funder[w]
    BY <1>1, <1>2 DEF RInv, TypeOK, NothingFalse
  <1>4. CASE p # NoWallet
    <2>1. Return(l, "returned", p, "none", TRUE)
      BY <1>4 DEF Wake
    <2>2. p \in Wallet /\ p = Known(w)
      BY <1>2, <1>3, <1>4, KnownFacts
    <2> QED
      BY <1>1, <2>1, <2>2, ReturnsFree
  <1>5. CASE p = NoWallet
    <2>1. Return(l, "returned", w, "none", a)
      BY <1>5 DEF Wake
    <2>2. a => w = Known(w)
      BY <1>2, <1>3, <1>5, KnownFacts
    <2>3. a \in BOOLEAN
      OBVIOUS
    <2> QED
      BY <1>1, <1>2, <2>1, <2>2, <2>3, ReturnsFree
  <1> QED
    BY <1>4, <1>5

\* A newcomer finds the leader of its wallet, finished or not, or becomes it.
LEMMA JoinRInv == ASSUME RInv, NEW l \in Lookup, Join(l) PROVE RInv'
  <1> USE DEF RInv
  <1> DEFINE w == WalletOf(l)
             next == IF inflight[w] # NoLookup THEN "wait" ELSE "acquire"
  <1>1. /\ pc[l] = "join" /\ Goto(l, next)
        /\ UNCHANGED <<expired, cache, entry, counters>>
    BY DEF Join, LeaderOf
  <1>2. /\ pc' = [pc EXCEPT ![l] = next]
        /\ UNCHANGED <<expired, cache, entry, consecFail, timeoutFallbk, errorFallbk, root,
                       err, unanswered>>
    BY <1>1 DEF Goto, counters, answers
  <1>3. /\ pc' \in [Lookup -> {"idle", "begin", "lookup", "join", "wait", "acquire",
                               "fetch", "announce", "remove", "returned"}]
        /\ FailuresAccounted' /\ SlotsCounted'
    <2>1. next \in {"wait", "acquire"}
      OBVIOUS
    <2> HIDE DEF next
    <2> QED
      BY <1>1, <2>1, MoveOn
  <1>4. w \in Wallet /\ inflight[w] \in Lookup \cup {NoLookup}
    BY LookupFacts DEF TypeOK
  <1>5. NothingFalse'
    BY <1>1, <1>2 DEF NothingFalse, TypeOK
  <1>6. CASE inflight[w] # NoLookup
    <2>1. /\ pc' = [pc EXCEPT ![l] = "wait"]
          /\ awaits' = [awaits EXCEPT ![l] = inflight[w]] /\ inflight' = inflight
      BY <1>2, <1>6 DEF Join, LeaderOf
    <2>2. inflight[w] \in Lookup /\ WalletOf(inflight[w]) = w /\ Leads(inflight[w])
      BY <1>4, <1>6 DEF MapIsLeaders
    <2>3. entry[inflight[w]].done \/ pc[inflight[w]] \in {"acquire", "fetch", "announce"}
      BY <2>2 DEF Leads, WaitsEnd
    <2>4. TypeOK'
      BY <1>2, <1>3, <1>4, <2>1 DEF TypeOK
    <2>5. MapIsLeaders'
      BY <1>1, <2>1, LookupFacts DEF MapIsLeaders, Leads, TypeOK
    <2>6. WaitsEnd'
      <3>1. ASSUME NEW k \in Lookup
            PROVE  /\ pc'[k] = "remove" => entry[k].done
                   /\ entry[k].done => pc'[k] \in {"remove", "returned"}
        BY <1>1, <2>1 DEF WaitsEnd, TypeOK
      <3>2. ASSUME NEW k \in Lookup, pc'[k] = "wait"
            PROVE  /\ awaits'[k] \in Lookup /\ WalletOf(awaits'[k]) = WalletOf(k)
                   /\ entry[awaits'[k]].done
                        \/ pc'[awaits'[k]] \in {"acquire", "fetch", "announce"}
        <4>1. CASE k = l
          <5>1. awaits'[k] = inflight[w]
            BY <2>1, <4>1 DEF TypeOK
          <5>2. inflight[w] # l
            BY <1>1, <2>2 DEF Leads
          <5> QED
            BY <2>1, <2>2, <2>3, <4>1, <5>1, <5>2 DEF TypeOK
        <4>2. CASE k # l
          <5>1. awaits'[k] = awaits[k] /\ pc[k] = "wait"
            BY <2>1, <3>2, <4>2 DEF TypeOK
          <5>2. /\ awaits[k] \in Lookup /\ WalletOf(awaits[k]) = WalletOf(k)
                /\ entry[awaits[k]].done
                     \/ pc[awaits[k]] \in {"acquire", "fetch", "announce"}
            BY <5>1 DEF WaitsEnd
          <5> QED
            BY <1>1, <2>1, <5>1, <5>2 DEF TypeOK
        <4> QED
          BY <4>1, <4>2
      <3> QED
        BY <1>2, <3>1, <3>2 DEF WaitsEnd
    <2> QED
      BY <1>3, <1>5, <2>4, <2>5, <2>6
  <1>7. CASE inflight[w] = NoLookup
    <2>1. /\ pc' = [pc EXCEPT ![l] = "acquire"]
          /\ inflight' = [inflight EXCEPT ![w] = l] /\ awaits' = awaits
      BY <1>2, <1>7 DEF Join, LeaderOf
    <2>2. TypeOK'
      BY <1>2, <1>3, <1>4, <2>1 DEF TypeOK
    <2>3. MapIsLeaders'
      <3>1. ASSUME NEW v \in Wallet, inflight'[v] # NoLookup
            PROVE  WalletOf(inflight'[v]) = v /\ Leads(inflight[v])'
        BY <1>1, <1>4, <2>1, <3>1 DEF MapIsLeaders, Leads, TypeOK
      <3>2. ASSUME NEW k \in Lookup, Leads(k)'
            PROVE  inflight'[WalletOf(k)] = k
        <4>1. WalletOf(k) \in Wallet
          BY LookupFacts
        <4>2. CASE k = l
          BY <1>4, <2>1, <4>2 DEF TypeOK
        <4>3. CASE k # l
          <5>1. inflight[WalletOf(k)] = k
            BY <2>1, <3>2, <4>3 DEF MapIsLeaders, Leads, TypeOK
          <5>2. WalletOf(k) # w
            BY <1>7, <5>1, LookupFacts
          <5> QED
            BY <2>1, <4>1, <5>1, <5>2 DEF TypeOK
        <4> QED
          BY <4>2, <4>3
      <3> QED
        BY <3>1, <3>2 DEF MapIsLeaders, Leads
    <2>4. WaitsEnd'
      BY <1>1, <1>2, <2>1 DEF WaitsEnd, TypeOK
    <2> QED
      BY <1>3, <1>5, <2>2, <2>3, <2>4
  <1> QED
    BY <1>6, <1>7

\* A leader takes a slot.
LEMMA AcquireRInv == ASSUME RInv, NEW l \in Lookup, Acquire(l) PROVE RInv'
  BY MovesFree DEF Acquire

\* A leader's deadline passes before it has a slot.
LEMMA GiveUpRInv == ASSUME RInv, NEW l \in Lookup, GiveUp(l) PROVE RInv'
  <1>1. /\ pc[l] = "acquire" /\ Return(l, "announce", WalletOf(l), "none", FALSE)
        /\ UNCHANGED <<expired, cache, inflight, awaits, entry, consecFail, timeoutFallbk,
                       errorFallbk>>
    BY DEF GiveUp, AfterGivingUp, counters
  <1>2. consecFail \in Nat /\ timeoutFallbk \in Nat /\ errorFallbk \in Nat
    BY DEF RInv, TypeOK
  <1> QED
    BY <1>1, <1>2, ReturnsLeading, LookupFacts DEF RInv

\* The provider's answer goes to the entry and to the cache.
LEMMA FetchSucceedsRInv == ASSUME RInv, NEW l \in Lookup, FetchSucceeds(l) PROVE RInv'
  <1> DEFINE w == WalletOf(l)
  <1>1. /\ pc[l] = "fetch" /\ Return(l, "announce", Known(w), "none", TRUE)
        /\ cache' = [cache EXCEPT ![w] = IF Funder[w] = NoWallet THEN "negative"
                                         ELSE "positive"]
        /\ entry' = [entry EXCEPT ![l].parent = Funder[w]]
        /\ consecFail' = 0
        /\ UNCHANGED <<expired, inflight, awaits, timeoutFallbk, errorFallbk>>
    BY DEF FetchSucceeds, ConsecFailAfterSuccess
  <1>2. Known(w) \in Wallet
    BY LookupFacts, KnownFacts
  <1>3. consecFail' \in Nat /\ timeoutFallbk' \in Nat /\ errorFallbk' \in Nat
    BY <1>1 DEF RInv, TypeOK
  <1> QED
    BY <1>1, <1>2, <1>3, ReturnsLeading DEF RInv

\* A deadline ends a fetch, which counts as no failure.
LEMMA FetchTimesOutRInv == ASSUME RInv, NEW l \in Lookup, FetchTimesOut(l) PROVE RInv'
  <1>1. /\ pc[l] = "fetch" /\ Return(l, "announce", WalletOf(l), "timeout", FALSE)
        /\ cache' = cache /\ consecFail' = consecFail /\ entry' = entry
        /\ timeoutFallbk' = timeoutFallbk + 1
        /\ UNCHANGED <<expired, inflight, awaits, errorFallbk>>
    BY DEF FetchTimesOut, ConsecFailAfterTimeout, CacheAfterFailure
  <1>2. consecFail' \in Nat /\ timeoutFallbk' \in Nat /\ errorFallbk' \in Nat
    BY <1>1 DEF RInv, TypeOK
  <1> QED
    BY <1>1, <1>2, ReturnsLeading, LookupFacts DEF RInv

\* An error of the provider ends a fetch, and counts once.
LEMMA FetchFailsRInv == ASSUME RInv, NEW l \in Lookup, FetchFails(l) PROVE RInv'
  <1>1. /\ pc[l] = "fetch" /\ Return(l, "announce", WalletOf(l), "error", FALSE)
        /\ cache' = cache /\ consecFail' = consecFail + 1 /\ entry' = entry
        /\ errorFallbk' = errorFallbk + 1
        /\ UNCHANGED <<expired, inflight, awaits, timeoutFallbk>>
    BY DEF FetchFails, CacheAfterFailure
  <1>2. consecFail' \in Nat /\ timeoutFallbk' \in Nat /\ errorFallbk' \in Nat
    BY <1>1 DEF RInv, TypeOK
  <1>3. TypeOK' /\ MapIsLeaders' /\ WaitsEnd' /\ NothingFalse' /\ SlotsCounted'
    BY <1>1, <1>2, ReturnsLeading, LookupFacts DEF RInv
  <1>4. FailuresAccounted'
    <2>1. pc' = [pc EXCEPT ![l] = "announce"] /\ err' = [err EXCEPT ![l] = "error"]
      BY <1>1 DEF Return
    <2>2. err[l] = "none"
      BY <1>1 DEF RInv, FailuresAccounted
    <2>3. Failed' = Failed \cup {l} /\ l \notin Failed
      BY <2>1, <2>2 DEF Failed, RInv, TypeOK
    <2>4. IsFiniteSet(Failed) /\ Cardinality(Failed) \in Nat /\ consecFail <= Cardinality(Failed)
      BY FS_CardinalityType DEF RInv, FailuresAccounted
    <2>5. IsFiniteSet(Failed') /\ Cardinality(Failed') = Cardinality(Failed) + 1
      <3> HIDE DEF Failed
      <3> QED
        BY <2>3, <2>4, FS_AddElement
    <2>6. \A k \in Lookup : pc'[k] \notin {"announce", "remove", "returned"} => err'[k] = "none"
      BY <2>1 DEF RInv, FailuresAccounted, TypeOK
    <2>7. consecFail' <= Cardinality(Failed')
      BY <1>1, <2>4, <2>5 DEF RInv, TypeOK
    <2> QED
      BY <2>5, <2>6, <2>7 DEF FailuresAccounted
  <1> QED
    BY <1>3, <1>4 DEF RInv

\* A leader wakes those that wait for it.
LEMMA AnnounceRInv == ASSUME RInv, NEW l \in Lookup, Announce(l) PROVE RInv'
  <1> USE DEF RInv
  <1>1. /\ pc[l] = "announce" /\ pc' = [pc EXCEPT ![l] = "remove"]
        /\ entry' = [entry EXCEPT ![l].done = TRUE]
        /\ UNCHANGED <<expired, cache, inflight, awaits, consecFail, timeoutFallbk, errorFallbk,
                       root, err, unanswered>>
    BY DEF Announce, Goto, counters, answers
  <1>2. /\ pc' \in [Lookup -> {"idle", "begin", "lookup", "join", "wait", "acquire",
                               "fetch", "announce", "remove", "returned"}]
        /\ FailuresAccounted' /\ SlotsCounted'
    BY MoveOn DEF Announce
  <1>3. /\ entry' \in [Lookup -> [done : BOOLEAN, parent : Wallet \cup {NoWallet}]]
        /\ \A k \in Lookup : entry'[k].parent = entry[k].parent
        /\ \A k \in Lookup : k # l => entry'[k].done = entry[k].done
        /\ entry'[l].done
    <2>1. entry \in [Lookup -> [done : BOOLEAN, parent : Wallet \cup {NoWallet}]]
      BY DEF TypeOK
    <2> DEFINE new == [entry[l] EXCEPT !.done = TRUE]
    <2>2. /\ new \in [done : BOOLEAN, parent : Wallet \cup {NoWallet}]
          /\ new.done /\ new.parent = entry[l].parent
      BY <2>1
    <2>3. entry' = [entry EXCEPT ![l] = new]
      BY <1>1
    <2> HIDE DEF new
    <2>4. entry'[l] = new /\ \A k \in Lookup : k # l => entry'[k] = entry[k]
      BY <2>1, <2>3
    <2>5. entry' \in [Lookup -> [done : BOOLEAN, parent : Wallet \cup {NoWallet}]]
      BY <2>1, <2>2, <2>3
    <2> QED
      BY <2>2, <2>4, <2>5
  <1>4. TypeOK'
    BY <1>1, <1>2, <1>3 DEF TypeOK
  <1>5. MapIsLeaders'
    BY <1>1, LookupFacts DEF MapIsLeaders, Leads, TypeOK
  <1>6. WaitsEnd'
    BY <1>1, <1>3 DEF WaitsEnd, TypeOK
  <1>7. NothingFalse'
    BY <1>1, <1>3 DEF NothingFalse, TypeOK
  <1> QED
    BY <1>2, <1>4, <1>5, <1>6, <1>7

\* The wallet has no other leader: the map forgets this one only.
LEMMA RemoveRInv == ASSUME RInv, NEW l \in Lookup, Remove(l) PROVE RInv'
  <1> USE DEF RInv
  <1> DEFINE w == WalletOf(l)
  <1>1. /\ pc[l] = "remove" /\ pc' = [pc EXCEPT ![l] = "returned"]
        /\ inflight' = [inflight EXCEPT ![w] = NoLookup]
        /\ UNCHANGED <<expired, cache, awaits, entry, consecFail, timeoutFallbk, errorFallbk,
                       root, err, unanswered>>
    BY DEF Remove, WithoutEntry, Goto, counters, answers
  <1>2. /\ pc' \in [Lookup -> {"idle", "begin", "lookup", "join", "wait", "acquire",
                               "fetch", "announce", "remove", "returned"}]
        /\ FailuresAccounted' /\ SlotsCounted'
    BY MoveOn DEF Remove
  <1>3. w \in Wallet /\ inflight[w] = l
    BY <1>1, LookupFacts DEF MapIsLeaders, Leads
  <1>4. TypeOK'
    BY <1>1, <1>2, <1>3 DEF TypeOK
  <1>5. MapIsLeaders'
    <2>1. ASSUME NEW v \in Wallet, inflight'[v] # NoLookup
          PROVE  WalletOf(inflight'[v]) = v /\ Leads(inflight[v])'
      <3>1. v # w
        BY <1>1, <1>3, <2>1 DEF TypeOK
      <3>2. inflight'[v] = inflight[v]
        BY <1>1, <3>1 DEF TypeOK
      <3>3. inflight[v] \in Lookup /\ WalletOf(inflight[v]) = v /\ Leads(inflight[v])
        BY <2>1, <3>2 DEF MapIsLeaders, TypeOK
      <3> QED
        BY <1>1, <3>1, <3>2, <3>3 DEF Leads, TypeOK
    <2>2. ASSUME NEW k \in Lookup, Leads(k)'
          PROVE  inflight'[WalletOf(k)] = k
      <3>1. k # l /\ Leads(k)
        BY <1>1, <2>2 DEF Leads, TypeOK
      <3>2. inflight[WalletOf(k)] = k
        BY <3>1 DEF MapIsLeaders
      <3> QED
        BY <1>1, <1>3, <3>1, <3>2, LookupFacts DEF TypeOK
    <2> QED
      BY <2>1, <2>2 DEF MapIsLeaders, Leads
  <1>6. WaitsEnd'
    BY <1>1 DEF WaitsEnd, TypeOK
  <1>7. NothingFalse'
    BY <1>1 DEF NothingFalse, TypeOK
  <1> QED
    BY <1>2, <1>4, <1>5, <1>6, <1>7

\* Every step keeps the invariant.
LEMMA NextRInv == RInv /\ [Next]_vars => RInv'
  <1> SUFFICES ASSUME RInv, [Next]_vars PROVE RInv'
    OBVIOUS
  <1>1. ASSUME NEW b \in Batch, Start(b) \/ Expire(b) PROVE RInv'
    BY <1>1, StartRInv, ExpireRInv
  <1>2. ASSUME NEW w \in Wallet, CacheExpire(w) PROVE RInv'
    BY <1>2, CacheExpireRInv
  <1>3. ASSUME NEW l \in Lookup, Step(l) PROVE RInv'
    <2>1. CASE Begin(l) \/ CacheLookup(l) \/ Join(l) \/ Wake(l)
      BY <2>1, BeginRInv, CacheLookupRInv, JoinRInv, WakeRInv
    <2>2. CASE Acquire(l) \/ GiveUp(l) \/ Announce(l) \/ Remove(l)
      BY <2>2, AcquireRInv, GiveUpRInv, AnnounceRInv, RemoveRInv
    <2>3. CASE FetchEnds(l)
      BY <2>3, FetchSucceedsRInv, FetchTimesOutRInv, FetchFailsRInv DEF FetchEnds
    <2> QED
      BY <1>3, <2>1, <2>2, <2>3 DEF Step
  <1>4. CASE UNCHANGED vars
    BY <1>4 DEF vars, counters, answers, RInv, TypeOK, MapIsLeaders, Leads, WaitsEnd,
                NothingFalse, FailuresAccounted, Failed, SlotsCounted, Fetching
  <1> QED
    BY <1>1, <1>2, <1>3, <1>4 DEF Next, Finished

-----------------------------------------------------------------------------
(* What follows of every behaviour.                                        *)

\* However calls of Cluster interleave, the resolver's map, entries, cache and
\* counters stay consistent (cluster.go and helius.go, all of ResolveParent).
THEOREM ResolverInvariant == Spec => []RInv
  <1> QED
    BY InitRInv, NextRInv, PTL DEF Spec

\* Each variable stays in its range (helius.go, the fields of HeliusResolver).
THEOREM ResolverTypes == Spec => []TypeOK
  <1>1. RInv => TypeOK
    BY DEF RInv
  <1> QED
    BY <1>1, ResolverInvariant, PTL

\* One fetch per wallet, at most MaxConcurrency in all, for any number of calls,
\* wallets and slots (helius.go, inflight and sem).
THEOREM FetchBounds == Spec => []FetchesBounded
  <1>1. RInv => FetchesBounded
    <2>1. RInv => OneFetchPerWallet
      BY DEF RInv, MapIsLeaders, Leads, OneFetchPerWallet
    <2>2. RInv => SlotsRespected
      BY DEF RInv, SlotsCounted, Fetching, SlotsRespected
    <2> QED
      BY <2>1, <2>2 DEF FetchesBounded
  <1> QED
    BY <1>1, ResolverInvariant, PTL

\* No path through ResolveParent leaves an entry that nobody will finish or
\* remove (helius.go, the deferred function).
THEOREM EntriesLed == Spec => []EntriesAreLed
  <1>1. RInv => EntriesAreLed
    BY DEF RInv, MapIsLeaders, Leads, WaitsEnd, EntriesAreLed
  <1> QED
    BY <1>1, ResolverInvariant, PTL

\* What the resolver answers, from a fetch, the cache or another goroutine's
\* entry, is the wallet's root (helius.go, ResolveParent).
THEOREM AnswersTrue == Spec => []AnswersAreTrue
  <1>1. RInv => AnswersAreTrue
    BY DEF RInv, NothingFalse, AnswersAreTrue
  <1> QED
    BY <1>1, ResolverInvariant, PTL

\* Only MaxConsecFail errors of the provider make the resolver unhealthy; no
\* number of deadlines does (helius.go, IsHealthy and consecFail).
THEOREM OnlyErrors == Spec => []OnlyErrorsDegrade
  <1>1. RInv => OnlyErrorsDegrade
    <2> SUFFICES ASSUME RInv, ~IsHealthy PROVE Cardinality(Failed) >= MaxConsecFail
      BY DEF OnlyErrorsDegrade, Failed
    <2>1. Cardinality(Failed) \in Nat
      BY FS_CardinalityType DEF RInv, FailuresAccounted
    <2> QED
      BY <2>1, ResolverAssumption DEF IsHealthy, RInv, FailuresAccounted, TypeOK
  <1> QED
    BY <1>1, ResolverInvariant, PTL
=============================================================================
