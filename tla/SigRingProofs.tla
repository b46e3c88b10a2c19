---------------------------- MODULE SigRingProofs ----------------------------
(***************************************************************************)
(* The deduplication ring proved for every capacity and every set of       *)
(* signatures.  The four invariants of SigRing are inductive together:     *)
(* evicting buf[pos] leaves the other entries in the map only because the  *)
(* last Cap accepted signatures are distinct (DedupHorizon), buf[pos] is   *)
(* the oldest of them only because the buffer is the log's suffix          *)
(* (BufIsLogSuffix), and a fresh signature is outside that suffix because  *)
(* the map is (SeenIsRecent).                                              *)
(***************************************************************************)
EXTENDS SigRing, TLAPS

RingInv == RingTypeOK /\ BufIsLogSuffix /\ SeenIsRecent /\ DedupHorizon

\* The write position wraps to 0 after the last slot: add's (pos + 1) % cap.
LEMMA NextPos ==
    ASSUME NEW p \in 0 .. Cap - 1
    PROVE  (p + 1) % Cap = IF p + 1 = Cap THEN 0 ELSE p + 1
  <1>1. CASE p + 1 = Cap
    BY <1>1, SigRingAssumption
  <1>2. CASE p + 1 < Cap
    BY <1>2, SigRingAssumption
  <1> QED
    BY <1>1, <1>2, SigRingAssumption

\* A new ring satisfies the invariant: newSigRing.
LEMMA RingInitInv == RingInit => RingInv
  BY SigRingAssumption
  DEF RingInit, NewRing, RingInv, RingTypeOK, BufIsLogSuffix, SeenIsRecent, DedupHorizon

\* So does the ring Store.Reset builds.
LEMMA RingResetInv == RingReset => RingInv'
  BY SigRingAssumption
  DEF RingReset, RingInv, RingTypeOK, BufIsLogSuffix, SeenIsRecent, DedupHorizon, Slot

\* Accepting a signature that is not held keeps the ring the last Cap of the log.
LEMMA RingOfferInv ==
    ASSUME RingInv, NEW sig \in Sig, Offer(sig)
    PROVE  RingInv'
  <1>1. /\ m' = Kept \cup {sig}
        /\ n' = IF n = Cap THEN n ELSE n + 1
        /\ buf' = [buf EXCEPT ![pos] = sig]
        /\ pos' = IF pos + 1 = Cap THEN 0 ELSE pos + 1
        /\ log' = Append(log, sig)
        /\ sig \notin m
    BY NextPos, SigRingAssumption DEF RingInv, RingTypeOK, Offer, Add, Seen, NextSlot
  <1>l. PICK L \in Nat : L = Len(log) /\ DOMAIN log = 1 .. L
    BY DEF RingInv, RingTypeOK
  <1>m. Len(log') = L + 1 /\ DOMAIN log' = 1 .. L + 1
    BY <1>1, <1>l DEF RingInv, RingTypeOK
  <1>2. log'[L + 1] = sig /\ \A i \in 1 .. L : log'[i] = log[i]
    BY <1>1, <1>l DEF RingInv, RingTypeOK
  <1>a. /\ Cap \in Nat /\ Cap > 0
        /\ pos \in Nat /\ pos < Cap
        /\ n \in Nat /\ n <= Cap /\ n <= L
        /\ n < Cap => pos = n /\ L = n
    <2>1. /\ pos \in 0 .. Cap - 1 /\ n \in 0 .. Cap
          /\ n < Cap => pos = n
          /\ n <= L
          /\ n < Cap => L = n
      BY <1>l DEF RingInv, RingTypeOK
    <2> QED
      BY <2>1, <1>l, SigRingAssumption
  <1>c. pos' = IF pos + 1 = Cap THEN 0 ELSE pos + 1
    BY <1>1
  <1>b. PICK k \in Nat : /\ k = n' /\ k > 0 /\ k <= Cap /\ k - 1 <= n /\ k <= L + 1
                         /\ k < Cap => pos' = k /\ L + 1 = k
    <2>1. CASE n = Cap
      BY <2>1, <1>a, <1>1, <1>l
    <2>2. CASE n < Cap
      BY <2>2, <1>a, <1>1, <1>l
    <2> QED
      BY <2>1, <2>2, <1>a
  <1>d. k \in Nat /\ k <= Cap
    BY <1>b
  <1>3. RingTypeOK'
    <2>1. m' \subseteq Sig
      BY <1>1 DEF RingInv, RingTypeOK, Kept
    <2>2. buf' \in [0 .. Cap - 1 -> Sig \cup {NoSig}]
      BY <1>1 DEF RingInv, RingTypeOK
    <2> QED
      <3>1. log' \in Seq(Sig)
        BY <1>1 DEF RingInv, RingTypeOK
      <3> QED
        BY <2>1, <2>2, <3>1, <1>a, <1>b, <1>c, <1>m DEF RingTypeOK
  <1>4. BufIsLogSuffix'
    <2> SUFFICES ASSUME NEW age \in 0 .. k - 1
                 PROVE  buf'[Slot(age)'] = log'[Len(log') - age]
      BY <1>b DEF BufIsLogSuffix
    <2>0. age \in Nat /\ age < k /\ age < Cap
      BY <1>a, <1>d
    <2>1. CASE age = 0
      <3>1. Slot(age)' = pos
        BY <2>1, <1>c, <1>a DEF Slot
      <3>2. buf'[pos] = sig
        BY <1>1, <1>a DEF RingInv, RingTypeOK
      <3>3. Len(log') - age = L + 1
        BY <2>1, <1>l, <1>m
      <3> QED
        BY <3>1, <3>2, <3>3, <1>2
    <2>2. CASE age > 0
      <3>1. age - 1 \in 0 .. n - 1
        BY <2>0, <2>2, <1>a, <1>b
      <3>2. Slot(age)' = Slot(age - 1)
        BY <2>0, <2>2, <1>c, <1>a DEF Slot
      <3>3. Slot(age - 1) \in 0 .. Cap - 1 /\ Slot(age - 1) # pos
        BY <2>0, <2>2, <1>a DEF Slot
      <3>4. buf'[Slot(age - 1)] = buf[Slot(age - 1)]
        BY <3>3, <1>1 DEF RingInv, RingTypeOK
      <3>5. buf[Slot(age - 1)] = log[L - (age - 1)]
        BY <3>1, <1>l DEF RingInv, BufIsLogSuffix
      <3>6. /\ L - (age - 1) = Len(log') - age
            /\ Len(log') - age \in 1 .. L
        BY <2>0, <2>2, <1>l, <1>m, <1>a, <1>b
      <3> QED
        BY <3>2, <3>4, <3>5, <3>6, <1>2
    <2> QED
      BY <2>0, <2>1, <2>2
  <1>5. SeenIsRecent'
    <2> DEFINE Recent == {j \in 1 .. L : L - j < Cap}
    <2>1. m = {log[i] : i \in Recent}
      BY <1>l DEF RingInv, SeenIsRecent
    <2>2. {j \in DOMAIN log' : Len(log') - j < Cap}
            = {j \in Recent : L - j < Cap - 1} \cup {L + 1}
      BY <1>l, <1>m, <1>a
    <2>3. Kept = {log[i] : i \in {j \in Recent : L - j < Cap - 1}}
      <3>1. CASE n = Cap
        <4> DEFINE oldest == L - (Cap - 1)
        <4>1. oldest \in DOMAIN log /\ buf[pos] = log[oldest]
          <5>1. Cap - 1 \in 0 .. n - 1 /\ Slot(Cap - 1) = pos
            BY <3>1, <1>a DEF Slot
          <5>2. buf[Slot(Cap - 1)] = log[oldest]
            BY <5>1, <1>l DEF RingInv, BufIsLogSuffix
          <5> QED
            BY <5>1, <5>2, <3>1, <1>a, <1>l
        <4>2. \A i \in Recent : i # oldest => log[i] # log[oldest]
          <5> SUFFICES ASSUME NEW i \in Recent, i # oldest
                       PROVE  log[i] # log[oldest]
            OBVIOUS
          <5>1. i \in DOMAIN log /\ oldest < i /\ i - oldest < Cap
            BY <1>l, <1>a, <4>1
          <5> QED
            BY <5>1, <4>1, <1>l, <1>a DEF RingInv, DedupHorizon
        <4>3. \A i \in Recent : i # oldest <=> L - i < Cap - 1
          BY <1>l, <1>a
        <4> QED
          BY <2>1, <3>1, <4>1, <4>2, <4>3, <1>a DEF Kept
      <3>2. CASE n # Cap
        <4>1. \A j \in Recent : L - j < Cap - 1
          BY <3>2, <1>l, <1>a
        <4> QED
          BY <2>1, <3>2, <4>1 DEF Kept
      <3> QED
        BY <3>1, <3>2
    <2>4. \A i \in Recent : log'[i] = log[i]
      BY <1>2, <1>l
    <2> DEFINE Older == {j \in Recent : L - j < Cap - 1}
    <2>5. {log'[i] : i \in Older \cup {L + 1}} = {log[i] : i \in Older} \cup {sig}
      BY <2>4, <1>2
    <2> QED
      BY <2>2, <2>3, <2>5, <1>1 DEF SeenIsRecent
  <1>6. DedupHorizon'
    <2> SUFFICES ASSUME NEW i \in DOMAIN log', NEW j \in DOMAIN log',
                        i < j, log'[i] = log'[j]
                 PROVE  j - i > Cap
      BY DEF DedupHorizon
    <2>1. CASE j <= L
      BY <2>1, <1>2, <1>l, <1>m DEF RingInv, DedupHorizon
    <2>2. CASE j = L + 1
      <3>1. i \in DOMAIN log /\ log[i] = sig
        BY <2>2, <1>2, <1>l, <1>m
      <3>2. ~(L - i < Cap)
        BY <3>1, <1>1, <1>l DEF RingInv, SeenIsRecent
      <3> QED
        BY <2>2, <3>1, <3>2, <1>l, <1>a
    <2> QED
      BY <2>1, <2>2, <1>l, <1>m
  <1> QED
    BY <1>3, <1>4, <1>5, <1>6 DEF RingInv

\* Every step of the ring keeps the invariant.
LEMMA RingStepInv == RingInv /\ [RingNext]_ringVars => RingInv'
  <1> SUFFICES ASSUME RingInv, [RingNext]_ringVars
               PROVE  RingInv'
    OBVIOUS
  <1>1. CASE RingReset
    BY <1>1, RingResetInv
  <1>2. ASSUME NEW sig \in Sig, Offer(sig)
        PROVE  RingInv'
    BY <1>2, RingOfferInv
  <1>3. CASE UNCHANGED ringVars
    BY <1>3
    DEF ringVars, RingInv, RingTypeOK, BufIsLogSuffix, SeenIsRecent, DedupHorizon, Slot
  <1> QED
    BY <1>1, <1>2, <1>3 DEF RingNext

\* The ring is, at all times, exactly the last Cap accepted signatures of the log.
THEOREM RingCorrect == RingSpec => []RingInv
  BY RingInitInv, RingStepInv, PTL DEF RingSpec

\* Type correctness of the ring.
THEOREM RingTypes == RingSpec => []RingTypeOK
  <1>1. RingInv => RingTypeOK
    BY DEF RingInv
  <1> QED
    BY <1>1, RingCorrect, PTL

\* After any number of wrap-arounds and resets the slots hold the last n accepted
\* signatures, in order.
THEOREM BufferIsLogSuffix == RingSpec => []BufIsLogSuffix
  <1>1. RingInv => BufIsLogSuffix
    BY DEF RingInv
  <1> QED
    BY <1>1, RingCorrect, PTL

\* The horizon store.go documents, for every capacity: no signature is applied
\* twice with fewer than Cap others accepted in between.
THEOREM DedupHorizonHolds == RingSpec => []DedupHorizon
  <1>1. RingInv => DedupHorizon
    BY DEF RingInv
  <1> QED
    BY <1>1, RingCorrect, PTL

\* The map answers `seen` for exactly the last Cap accepted signatures.
THEOREM SeenIsRecentHolds == RingSpec => []SeenIsRecent
  <1>1. RingInv => SeenIsRecent
    BY DEF RingInv
  <1> QED
    BY <1>1, RingCorrect, PTL

\* The ring implements the deduplication contract: every step of the ring is a
\* step of Dedup, which knows nothing of slots and positions, and the map is at
\* all times exactly what Dedup refuses: the ring may be replaced by Dedup.
THEOREM RingImplementsDedup == RingSpec => ImplementsDedup
  <1>1. RingInit => Contract!Init
    BY DEF RingInit, Contract!Init
  <1>2. RingInv => m = Contract!Recent
    BY DEF RingInv, SeenIsRecent, Contract!Recent
  <1>3. RingInv /\ [RingNext]_ringVars => [Contract!Next]_log
    <2> SUFFICES ASSUME RingInv, [RingNext]_ringVars
                 PROVE  [Contract!Next]_log
      OBVIOUS
    <2>1. CASE RingReset
      BY <2>1 DEF RingReset, Contract!Next, Contract!Forget
    <2>2. ASSUME NEW sig \in Sig, Offer(sig)
          PROVE  Contract!Next
      <3>1. m = Contract!Recent
        BY <1>2
      <3> QED
        BY <2>2, <3>1 DEF Offer, Seen, Add, Contract!Accept, Contract!Next
    <2>3. CASE UNCHANGED ringVars
      BY <2>3 DEF ringVars
    <2> QED
      BY <2>1, <2>2, <2>3 DEF RingNext
  <1> QED
    BY <1>1, <1>2, <1>3, RingCorrect, PTL DEF RingSpec, ImplementsDedup, Contract!Spec

=============================================================================
