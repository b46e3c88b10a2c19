---------------------------- MODULE SumsAndExtrema ----------------------------
(***************************************************************************)
(* Least and greatest elements, for the proofs about cursors, histories    *)
(* and prices; the greatest of a finite set has the fewest above it.  And  *)
(* the sum of a function over a finite set (SumFunctionOnSet), which takes *)
(* the members in an order CHOOSE decides: any member may be taken first,  *)
(* so the sum does not depend on that order.  From this: sums of parts,    *)
(* of sums by key, of what was moved one to one, of smaller terms and of   *)
(* equal ones; and the image of a finite set is finite and no larger.  The *)
(* inductions are by a smallest set for which the claim would fail.        *)
(***************************************************************************)
EXTENDS Integers, FiniteSetsExt, FiniteSetTheorems, WellFoundedInduction, TLAPS

\* The least-number principle.
LEMMA LeastExists ==
    ASSUME NEW S \in SUBSET Nat, S # {}
    PROVE  \E x \in S : \A y \in S : x <= y
  <1>1. PICK x \in S : \A y \in S : <<y, x>> \notin OpToRel(<, Nat)
    BY WFMin, NatLessThanWellFounded, Zenon
  <1>2. ASSUME NEW y \in S PROVE ~ (y < x)
    BY <1>1, Zenon DEF OpToRel
  <1>3. \A y \in S : x <= y
    BY <1>2
  <1> QED
    BY <1>3

\* A finite set of naturals that is not empty has a greatest member.
LEMMA GreatestExists ==
    ASSUME NEW S \in SUBSET Nat, IsFiniteSet(S), S # {}
    PROVE  \E x \in S : \A y \in S : y <= x
  <1> DEFINE Above(x) == {y \in S : y > x}
             Rank(x) == Cardinality(Above(x))
             Ranks == {Rank(x) : x \in S}
  <1>1. ASSUME NEW x \in S PROVE IsFiniteSet(Above(x)) /\ Rank(x) \in Nat
    <2>1. Above(x) \in SUBSET S
      OBVIOUS
    <2>2. IsFiniteSet(Above(x))
      BY <2>1, FS_Subset
    <2> QED
      BY <2>2, FS_CardinalityType
  <1>2. ASSUME NEW x \in S, NEW y \in S, y > x PROVE Rank(y) < Rank(x)
    <2>1. Above(y) \in SUBSET Above(x) /\ y \in Above(x) /\ y \notin Above(y)
      <3>1. x \in Int /\ y \in Int /\ \A z \in S : z \in Int
        OBVIOUS
      <3>2. \A z \in S : z > y => z > x
        BY <1>2, <3>1
      <3>3. Above(y) \in SUBSET Above(x)
        BY <3>2
      <3>4. y \in Above(x) /\ y \notin Above(y)
        BY <1>2, <3>1
      <3> QED
        BY <3>3, <3>4
    <2>2. Above(y) # Above(x)
      BY <2>1
    <2> HIDE DEF Above
    <2>3. Cardinality(Above(y)) <= Cardinality(Above(x))
          /\ (Cardinality(Above(y)) = Cardinality(Above(x)) => Above(y) = Above(x))
      BY <1>1, <2>1, FS_Subset
    <2>4. Rank(x) \in Nat /\ Rank(y) \in Nat
      BY <1>1
    <2> QED
      BY <2>2, <2>3, <2>4
  <1> HIDE DEF Rank
  <1>3. Ranks \in SUBSET Nat /\ Ranks # {}
    BY <1>1
  <1>4. PICK r \in Ranks : \A q \in Ranks : r <= q
    <2> HIDE DEF Ranks
    <2> QED
      BY <1>3, LeastExists
  <1>5. PICK x \in S : r = Rank(x)
    OBVIOUS
  <1>6. ASSUME NEW y \in S PROVE y <= x
    <2>1. Rank(x) <= Rank(y) /\ Rank(x) \in Nat /\ Rank(y) \in Nat
      BY <1>1, <1>4, <1>5
    <2>2. y > x => Rank(y) < Rank(x)
      BY <1>2
    <2>3. x \in Int /\ y \in Int
      OBVIOUS
    <2> QED
      BY <2>1, <2>2, <2>3
  <1> QED
    BY <1>6

-----------------------------------------------------------------------------
\* The member the recursion takes first.
Chosen(s) == CHOOSE x \in s : TRUE

\* One pass of the recursion by which the sum of a over a set is defined.
OnePass(a, S, g) ==
    [s \in SUBSET S |-> IF s = {} THEN 0 ELSE a[Chosen(s)] + g[s \ {Chosen(s)}]]

\* The sum is the value, at the whole set, of a function that one pass leaves as
\* it is.
LEMMA SumIsFixpoint ==
    ASSUME NEW a, NEW S
    PROVE  SumFunctionOnSet(a, S) = (CHOOSE g : g = OnePass(a, S, g))[S]
  BY DEF SumFunctionOnSet, FoldFunctionOnSet, MapThenFoldSet, OnePass, Chosen

\* Without the member taken first a set has one member less.
LEMMA SmallerWithout ==
    ASSUME NEW s, IsFiniteSet(s), s # {}
    PROVE  /\ Chosen(s) \in s /\ IsFiniteSet(s \ {Chosen(s)})
           /\ Cardinality(s) \in Nat /\ Cardinality(s) > 0
           /\ Cardinality(s \ {Chosen(s)}) = Cardinality(s) - 1
  <1>1. Chosen(s) \in s
    BY DEF Chosen
  <1>2. Cardinality(s) \in Nat /\ Cardinality(s) # 0
    BY FS_CardinalityType, FS_EmptySet
  <1> QED
    BY <1>1, <1>2, FS_RemoveElement

\* Two fixpoints agree wherever their sets and amounts do.
LEMMA FixpointsAgree ==
    ASSUME NEW S, NEW T, NEW a, NEW b, NEW g, NEW h, IsFiniteSet(S),
           g = OnePass(a, S, g), h = OnePass(b, T, h),
           NEW s \in SUBSET S, s \in SUBSET T, \A x \in s : a[x] = b[x]
    PROVE  g[s] = h[s]
  <1> DEFINE Differ == {d \in SUBSET s : g[d] # h[d]}
             Sizes == {Cardinality(d) : d \in Differ}
  <1>1. \A d \in SUBSET s : IsFiniteSet(d) /\ d \in SUBSET S /\ d \in SUBSET T
    BY FS_Subset
  <1>2. CASE Differ = {}
    BY <1>2
  <1>3. CASE Differ # {}
    <2>1. Sizes \in SUBSET Nat /\ Sizes # {}
      BY <1>1, <1>3, FS_CardinalityType
    <2>2. PICK least \in Sizes : \A size \in Sizes : least <= size
      <3> HIDE DEF Sizes
      <3> QED
        BY <2>1, LeastExists
    <2>3. PICK d \in Differ : Cardinality(d) = least
      BY <2>2
    <2>4. d \in SUBSET s /\ g[d] # h[d]
      BY <2>3
    <2>5. g[d] = IF d = {} THEN 0 ELSE a[Chosen(d)] + g[d \ {Chosen(d)}]
      BY <1>1, <2>4 DEF OnePass
    <2>6. h[d] = IF d = {} THEN 0 ELSE b[Chosen(d)] + h[d \ {Chosen(d)}]
      BY <1>1, <2>4 DEF OnePass
    <2>7. d # {}
      BY <2>4, <2>5, <2>6
    <2>8. /\ Chosen(d) \in d /\ Cardinality(d) \in Nat
          /\ Cardinality(d \ {Chosen(d)}) = Cardinality(d) - 1
      BY <1>1, <2>4, <2>7, SmallerWithout
    <2>9. d \ {Chosen(d)} \notin Differ
      <3>1. ~(Cardinality(d) <= Cardinality(d) - 1)
        BY <2>8
      <3>2. d \ {Chosen(d)} \in Differ => least <= Cardinality(d \ {Chosen(d)})
        BY <2>2
      <3> QED
        BY <2>3, <2>8, <3>1, <3>2
    <2>10. g[d \ {Chosen(d)}] = h[d \ {Chosen(d)}] /\ a[Chosen(d)] = b[Chosen(d)]
      BY <2>4, <2>8, <2>9
    <2> QED
      BY <2>4, <2>5, <2>6, <2>7, <2>10
  <1> QED
    BY <1>2, <1>3

\* A fixpoint exists: one for the sets of one more element from one for fewer.
LEMMA FixpointExists ==
    ASSUME NEW S, IsFiniteSet(S), NEW a, \A x \in S : a[x] \in Int
    PROVE  \E g \in [SUBSET S -> Int] : g = OnePass(a, S, g)
  <1> DEFINE Small(size) == {s \in SUBSET S : Cardinality(s) <= size}
             Good(g, size) == \A s \in Small(size) :
                                /\ g[s] \in Int
                                /\ g[s] = IF s = {} THEN 0 ELSE a[Chosen(s)] + g[s \ {Chosen(s)}]
             Bad == {size \in Nat : ~ \E g : Good(g, size)}
  <1>1. \A s \in SUBSET S : IsFiniteSet(s) /\ Cardinality(s) \in Nat
    BY FS_Subset, FS_CardinalityType
  <1>2. \E g : Good(g, 0)
    <2>1. PICK g : g = [s \in SUBSET S |-> 0]
      OBVIOUS
    <2>2. \A s \in Small(0) : s = {} /\ g[s] = 0
      <3>1. \A s \in Small(0) : Cardinality(s) = 0
        BY <1>1
      <3>2. \A s \in Small(0) : s = {}
        BY <1>1, <3>1, FS_EmptySet
      <3> QED
        BY <2>1, <3>2
    <2>3. Good(g, 0)
      BY <2>2
    <2> QED
      BY <2>3
  <1>3. ASSUME NEW size \in Nat, NEW g, Good(g, size)
        PROVE  \E h : Good(h, size + 1)
    <2>1. PICK h : h = [s \in SUBSET S |-> IF Cardinality(s) <= size THEN g[s]
                                           ELSE a[Chosen(s)] + g[s \ {Chosen(s)}]]
      OBVIOUS
    <2>2. ASSUME NEW s \in Small(size + 1)
          PROVE  /\ h[s] \in Int
                 /\ h[s] = IF s = {} THEN 0 ELSE a[Chosen(s)] + h[s \ {Chosen(s)}]
      <3>1. s \in SUBSET S /\ IsFiniteSet(s) /\ Cardinality(s) \in Nat /\ Cardinality(s) <= size + 1
        BY <1>1
      <3>2. CASE s = {}
        <4>1. Cardinality(s) <= size
          BY <3>2, FS_EmptySet
        <4>2. g[s] = 0
          BY <1>3, <3>1, <3>2, <4>1
        <4> QED
          BY <2>1, <3>1, <3>2, <4>1, <4>2
      <3>3. CASE s # {}
        <4>1. PICK r : r = s \ {Chosen(s)}
          OBVIOUS
        <4>2. /\ Chosen(s) \in s /\ Cardinality(s) > 0
              /\ Cardinality(r) = Cardinality(s) - 1 /\ r \in SUBSET S
          BY <3>1, <3>3, <4>1, SmallerWithout
        <4>3. Cardinality(r) <= size /\ r \in Small(size)
          BY <3>1, <4>2
        <4>4. h[r] = g[r] /\ g[r] \in Int /\ a[Chosen(s)] \in Int
          BY <1>3, <2>1, <3>1, <4>2, <4>3
        <4>5. h[s] = a[Chosen(s)] + g[r]
          <5>1. CASE Cardinality(s) <= size
            BY <1>3, <2>1, <3>1, <3>3, <4>1, <5>1
          <5>2. CASE ~(Cardinality(s) <= size)
            BY <2>1, <3>1, <4>1, <5>2
          <5> QED
            BY <5>1, <5>2
        <4> QED
          BY <3>3, <4>1, <4>4, <4>5
      <3> QED
        BY <3>2, <3>3
    <2> QED
      BY <2>2
  <1>4. Bad = {}
    <2> SUFFICES ASSUME Bad # {} PROVE FALSE
      OBVIOUS
    <2>1. Bad \in SUBSET Nat
      OBVIOUS
    <2> HIDE DEF Good
    <2>2. PICK size \in Bad : \A other \in Bad : size <= other
      <3> HIDE DEF Bad
      <3> QED
        BY <2>1, LeastExists
    <2>3. size \in Nat /\ size # 0 /\ ~ \E g : Good(g, size)
      BY <1>2, <2>2
    <2>4. size - 1 \in Nat /\ ~(size <= size - 1) /\ (size - 1) + 1 = size
      BY <2>3
    <2>5. \E g : Good(g, size - 1)
      BY <2>2, <2>4
    <2> QED
      BY <1>3, <2>3, <2>4, <2>5
  <1>5. PICK g : Good(g, Cardinality(S))
    <2> HIDE DEF Good
    <2>1. Cardinality(S) \in Nat
      BY FS_CardinalityType
    <2> QED
      BY <1>4, <2>1
  <1>6. \A s \in SUBSET S : s \in Small(Cardinality(S))
    BY FS_Subset
  <1>7. \A s \in SUBSET S : /\ g[s] \in Int
                            /\ g[s] = IF s = {} THEN 0 ELSE a[Chosen(s)] + g[s \ {Chosen(s)}]
    BY <1>5, <1>6
  <1>8. PICK f : f = [s \in SUBSET S |-> g[s]]
    OBVIOUS
  <1>9. f \in [SUBSET S -> Int]
    BY <1>7, <1>8
  <1>10. f = OnePass(a, S, f)
    <2>1. ASSUME NEW s \in SUBSET S
          PROVE  f[s] = IF s = {} THEN 0 ELSE a[Chosen(s)] + f[s \ {Chosen(s)}]
      <3>1. s \ {Chosen(s)} \in SUBSET S
        OBVIOUS
      <3> QED
        BY <1>7, <1>8, <3>1
    <2> QED
      BY <1>8, <2>1 DEF OnePass
  <1> QED
    BY <1>9, <1>10

\* Any fixpoint over a larger set gives the sums over its subsets.
LEMMA SumByFixpoint ==
    ASSUME NEW S, IsFiniteSet(S), NEW a, \A x \in S : a[x] \in Int,
           NEW g, g = OnePass(a, S, g), NEW s \in SUBSET S
    PROVE  SumFunctionOnSet(a, s) = g[s]
  <1>1. PICK f : f = (CHOOSE h : h = OnePass(a, s, h))
    OBVIOUS
  <1>2. IsFiniteSet(s) /\ \A x \in s : a[x] \in Int
    BY FS_Subset
  <1>3. f = OnePass(a, s, f)
    <2>1. \E h : h = OnePass(a, s, h)
      BY <1>2, FixpointExists
    <2> QED
      BY <1>1, <2>1
  <1>4. f[s] = g[s]
    BY <1>2, <1>3, FixpointsAgree
  <1> QED
    BY <1>1, <1>4, SumIsFixpoint

\* Nothing adds up to 0.
LEMMA SumOfNone ==
    ASSUME NEW a
    PROVE  SumFunctionOnSet(a, {}) = 0
  <1>1. IsFiniteSet({}) /\ \A x \in {} : a[x] \in Int
    BY FS_EmptySet
  <1>2. PICK g : g = OnePass(a, {}, g)
    BY <1>1, FixpointExists
  <1>3. g[{}] = 0
    BY <1>2 DEF OnePass
  <1> QED
    BY <1>1, <1>2, <1>3, SumByFixpoint

\* Integers add up to an integer.
LEMMA SumIsInt ==
    ASSUME NEW S, IsFiniteSet(S), NEW a, \A x \in S : a[x] \in Int
    PROVE  SumFunctionOnSet(a, S) \in Int
  <1>1. PICK g \in [SUBSET S -> Int] : g = OnePass(a, S, g)
    BY FixpointExists
  <1> QED
    BY <1>1, SumByFixpoint

\* The sum depends on the amounts at the members only.
LEMMA SumOfSame ==
    ASSUME NEW S, IsFiniteSet(S), NEW a, NEW b, \A x \in S : a[x] \in Int /\ a[x] = b[x]
    PROVE  SumFunctionOnSet(a, S) = SumFunctionOnSet(b, S)
  <1>1. PICK g : g = OnePass(a, S, g)
    BY FixpointExists
  <1>2. \A x \in S : b[x] \in Int
    OBVIOUS
  <1>3. PICK h : h = OnePass(b, S, h)
    BY <1>2, FixpointExists
  <1>4. g[S] = h[S]
    BY <1>1, <1>3, FixpointsAgree
  <1> QED
    BY <1>1, <1>2, <1>3, <1>4, SumByFixpoint

\* Any member may be taken out first.
LEMMA SumWithout ==
    ASSUME NEW S, IsFiniteSet(S), NEW a, \A x \in S : a[x] \in Int, NEW x \in S
    PROVE  SumFunctionOnSet(a, S) = SumFunctionOnSet(a, S \ {x}) + a[x]
  <1>1. PICK g \in [SUBSET S -> Int] : g = OnePass(a, S, g)
    BY FixpointExists
  <1> DEFINE Wrong == {s \in SUBSET S : \E y \in s : g[s] # g[s \ {y}] + a[y]}
             Sizes == {Cardinality(s) : s \in Wrong}
  <1>2. \A s \in SUBSET S : IsFiniteSet(s) /\ Cardinality(s) \in Nat /\ g[s] \in Int
    BY <1>1, FS_Subset, FS_CardinalityType
  <1>3. \A s \in SUBSET S : s # {} => g[s] = a[Chosen(s)] + g[s \ {Chosen(s)}]
    BY <1>1 DEF OnePass
  <1>4. Wrong = {}
    <2> SUFFICES ASSUME Wrong # {} PROVE FALSE
      OBVIOUS
    <2>1. Sizes \in SUBSET Nat /\ Sizes # {}
      BY <1>2
    <2>2. PICK least \in Sizes : \A size \in Sizes : least <= size
      <3> HIDE DEF Sizes
      <3> QED
        BY <2>1, LeastExists
    <2>3. PICK s \in Wrong : Cardinality(s) = least
      BY <2>2
    <2>4. s \in SUBSET S
      OBVIOUS
    <2>5. PICK y \in s : g[s] # g[s \ {y}] + a[y]
      BY <2>3
    <2>6. PICK c, r, u, v : c = Chosen(s) /\ r = s \ {c} /\ u = s \ {y} /\ v = r \ {y}
      OBVIOUS
    <2>7. c \in s /\ c \in S /\ y \in S
      BY <1>2, <2>4, <2>5, <2>6, SmallerWithout
    <2>8. r \in SUBSET S /\ u \in SUBSET S /\ v \in SUBSET S
      BY <2>4, <2>6
    <2>9. /\ g[s] \in Int /\ g[r] \in Int /\ g[u] \in Int /\ g[v] \in Int
          /\ a[c] \in Int /\ a[y] \in Int
      BY <1>2, <2>4, <2>7, <2>8
    <2>10. g[s] = a[c] + g[r] /\ g[s] # g[u] + a[y]
      BY <1>3, <2>4, <2>5, <2>6
    <2>11. c # y
      <3>1. c = y => r = u
        BY <2>6
      <3>2. a[c] + g[r] = g[r] + a[c]
        BY <2>9
      <3> QED
        BY <2>10, <3>1, <3>2
    <2>12. ASSUME NEW z \in s, NEW w \in s \ {z}
           PROVE  g[s \ {z}] = g[(s \ {z}) \ {w}] + a[w]
      <3>1. Cardinality(s \ {z}) = Cardinality(s) - 1 /\ Cardinality(s) \in Nat
        BY <1>2, <2>4, FS_RemoveElement
      <3>2. s \ {z} \in SUBSET S /\ ~(Cardinality(s) <= Cardinality(s) - 1)
        BY <2>4, <3>1
      <3>3. s \ {z} \in Wrong => least <= Cardinality(s \ {z})
        <4> HIDE DEF Wrong
        <4> QED
          BY <2>2
      <3>4. s \ {z} \notin Wrong
        BY <2>3, <3>1, <3>2, <3>3
      <3> QED
        BY <3>2, <3>4
    <2>13. g[r] = g[v] + a[y]
      BY <2>6, <2>7, <2>11, <2>12
    <2>14. g[u] = g[v] + a[c]
      <3>1. v = u \ {c} /\ c \in u
        BY <2>6, <2>7, <2>11
      <3> QED
        BY <2>6, <2>12, <3>1
    <2> QED
      BY <2>9, <2>10, <2>13, <2>14
  <1>5. g[S] = g[S \ {x}] + a[x]
    BY <1>4
  <1> QED
    BY <1>1, <1>5, SumByFixpoint

-----------------------------------------------------------------------------
(* Parts, fibres and images.                                               *)

\* Of some subsets of a finite set, one that is among them with no member less.
LEMMA SmallestSet ==
    ASSUME NEW S, IsFiniteSet(S), NEW Wrong \in SUBSET SUBSET S, Wrong # {}
    PROVE  \E s \in Wrong : \A x \in s : s \ {x} \notin Wrong
  <1> DEFINE Sizes == {Cardinality(s) : s \in Wrong}
  <1>1. \A s \in Wrong : IsFiniteSet(s) /\ Cardinality(s) \in Nat
    BY FS_Subset, FS_CardinalityType
  <1>2. Sizes \in SUBSET Nat /\ Sizes # {}
    BY <1>1
  <1>3. PICK least \in Sizes : \A size \in Sizes : least <= size
    <2> HIDE DEF Sizes
    <2> QED
      BY <1>2, LeastExists
  <1>4. PICK s \in Wrong : Cardinality(s) = least
    BY <1>3
  <1>5. ASSUME NEW x \in s PROVE s \ {x} \notin Wrong
    <2>1. Cardinality(s \ {x}) = Cardinality(s) - 1 /\ Cardinality(s) \in Nat
      BY <1>1, FS_RemoveElement
    <2>2. s \ {x} \in Wrong => Cardinality(s) <= Cardinality(s \ {x})
      BY <1>3, <1>4
    <2> QED
      BY <2>1, <2>2
  <1> QED
    BY <1>5

\* Naturals add up to a natural.
LEMMA SumIsNat ==
    ASSUME NEW S, IsFiniteSet(S), NEW a, \A x \in S : a[x] \in Nat
    PROVE  SumFunctionOnSet(a, S) \in Nat
  <1> DEFINE Wrong == {s \in SUBSET S : SumFunctionOnSet(a, s) \notin Nat}
  <1>1. SUFFICES ASSUME Wrong # {} PROVE FALSE
    OBVIOUS
  <1>2. PICK s \in Wrong : \A x \in s : s \ {x} \notin Wrong
    <2> HIDE DEF Wrong
    <2>1. Wrong \in SUBSET SUBSET S
      BY DEF Wrong
    <2> QED
      BY <1>1, <2>1, SmallestSet
  <1>3. s \in SUBSET S /\ IsFiniteSet(s) /\ s # {} /\ SumFunctionOnSet(a, s) \notin Nat
    <2>1. s \in SUBSET S /\ SumFunctionOnSet(a, s) \notin Nat
      OBVIOUS
    <2>2. IsFiniteSet(s)
      BY <2>1, FS_Subset
    <2>3. SumFunctionOnSet(a, {}) \in Nat
      BY SumOfNone
    <2> QED
      BY <2>1, <2>2, <2>3
  <1>4. PICK x \in s : TRUE
    BY <1>3
  <1>5. SumFunctionOnSet(a, s) = SumFunctionOnSet(a, s \ {x}) + a[x]
    <2>1. \A y \in s : a[y] \in Int
      BY <1>3
    <2> QED
      BY <1>3, <2>1, SumWithout
  <1>6. SumFunctionOnSet(a, s \ {x}) \in Nat /\ a[x] \in Nat
    BY <1>2, <1>3
  <1> QED
    BY <1>3, <1>5, <1>6

\* A part and the rest add up to the whole.
LEMMA SumOfParts ==
    ASSUME NEW S, IsFiniteSet(S), NEW a, \A x \in S : a[x] \in Int, NEW A \in SUBSET S
    PROVE  SumFunctionOnSet(a, S) = SumFunctionOnSet(a, A) + SumFunctionOnSet(a, S \ A)
  <1> DEFINE sum(s) == SumFunctionOnSet(a, s)
             Wrong == {s \in SUBSET S : sum(S) # sum(s) + sum(S \ s)}
  <1>1. SUFFICES ASSUME Wrong # {} PROVE FALSE
    OBVIOUS
  <1>2. PICK s \in Wrong : \A x \in s : s \ {x} \notin Wrong
    <2> HIDE DEF Wrong
    <2>1. Wrong \in SUBSET SUBSET S
      BY DEF Wrong
    <2> QED
      BY <1>1, <2>1, SmallestSet
  <1>3. s \in SUBSET S /\ sum(S) # sum(s) + sum(S \ s)
    OBVIOUS
  <1>4. ASSUME NEW u \in SUBSET S
        PROVE  /\ IsFiniteSet(u) /\ sum(u) \in Int
               /\ \A x \in u : sum(u) = sum(u \ {x}) + a[x] /\ a[x] \in Int
    <2>1. IsFiniteSet(u) /\ \A x \in u : a[x] \in Int
      BY FS_Subset
    <2> QED
      BY <2>1, SumIsInt, SumWithout
  <1>5. s # {}
    <2>1. sum({}) = 0 /\ S \ {} = S /\ sum(S) \in Int
      BY <1>4, SumOfNone
    <2>2. sum(S) = sum({}) + sum(S \ {})
      BY <2>1
    <2> QED
      BY <1>3, <2>2
  <1>6. PICK x \in s : TRUE
    BY <1>5
  <1>7. PICK r, u, v : r = s \ {x} /\ u = S \ s /\ v = S \ r
    OBVIOUS
  <1>8. r \in SUBSET S /\ u \in SUBSET S /\ v \in SUBSET S /\ x \in v /\ v \ {x} = u
    BY <1>3, <1>7
  <1>9. sum(S) = sum(r) + sum(v)
    BY <1>2, <1>7, <1>8
  <1>10. sum(s) = sum(r) + a[x] /\ sum(v) = sum(u) + a[x] /\ a[x] \in Int
    BY <1>3, <1>4, <1>7, <1>8
  <1>11. sum(r) \in Int /\ sum(u) \in Int /\ sum(s) \in Int /\ sum(v) \in Int
    BY <1>3, <1>4, <1>8
  <1>12. sum(S) # sum(s) + sum(u)
    BY <1>3, <1>7
  <1> HIDE DEF sum
  <1> QED
    BY <1>9, <1>10, <1>11, <1>12

\* Of naturals, a part adds up to no more than the whole.
LEMMA SumOfPart ==
    ASSUME NEW S, IsFiniteSet(S), NEW a, \A x \in S : a[x] \in Nat, NEW A \in SUBSET S
    PROVE  SumFunctionOnSet(a, A) <= SumFunctionOnSet(a, S)
  <1>1. IsFiniteSet(A) /\ IsFiniteSet(S \ A) /\ \A x \in S : a[x] \in Int
    BY FS_Subset
  <1>2. SumFunctionOnSet(a, A) \in Nat /\ SumFunctionOnSet(a, S \ A) \in Nat
    BY <1>1, SumIsNat
  <1>3. SumFunctionOnSet(a, S) = SumFunctionOnSet(a, A) + SumFunctionOnSet(a, S \ A)
    BY <1>1, SumOfParts
  <1> QED
    BY <1>2, <1>3

\* One larger amount makes the sum as much larger.
LEMMA SumOneLarger ==
    ASSUME NEW S, IsFiniteSet(S), NEW a, NEW b, \A x \in S : a[x] \in Int,
           NEW x \in S, NEW d \in Int, b[x] = a[x] + d, \A y \in S \ {x} : b[y] = a[y]
    PROVE  SumFunctionOnSet(b, S) = SumFunctionOnSet(a, S) + d
  <1>1. \A y \in S : b[y] \in Int
    OBVIOUS
  <1>2. IsFiniteSet(S \ {x}) /\ \A y \in S \ {x} : a[y] \in Int /\ a[y] = b[y]
    BY FS_Subset
  <1>3. SumFunctionOnSet(a, S) = SumFunctionOnSet(a, S \ {x}) + a[x]
    BY SumWithout
  <1>4. SumFunctionOnSet(b, S) = SumFunctionOnSet(b, S \ {x}) + b[x]
    BY <1>1, SumWithout
  <1>5. SumFunctionOnSet(a, S \ {x}) = SumFunctionOnSet(b, S \ {x})
    BY <1>2, SumOfSame
  <1>6. SumFunctionOnSet(a, S \ {x}) \in Int
    BY <1>2, SumIsInt
  <1> QED
    BY <1>3, <1>4, <1>5, <1>6

\* Zeros add up to 0.
LEMMA SumOfZeros ==
    ASSUME NEW S, IsFiniteSet(S), NEW a, \A x \in S : a[x] = 0
    PROVE  SumFunctionOnSet(a, S) = 0
  <1> DEFINE Wrong == {s \in SUBSET S : SumFunctionOnSet(a, s) # 0}
  <1>1. SUFFICES ASSUME Wrong # {} PROVE FALSE
    OBVIOUS
  <1>2. PICK s \in Wrong : \A x \in s : s \ {x} \notin Wrong
    <2> HIDE DEF Wrong
    <2>1. Wrong \in SUBSET SUBSET S
      BY DEF Wrong
    <2> QED
      BY <1>1, <2>1, SmallestSet
  <1>3. s \in SUBSET S /\ IsFiniteSet(s) /\ s # {} /\ SumFunctionOnSet(a, s) # 0
    BY SumOfNone, FS_Subset
  <1>4. PICK x \in s : TRUE
    BY <1>3
  <1>5. SumFunctionOnSet(a, s) = SumFunctionOnSet(a, s \ {x}) + a[x]
    <2>1. \A y \in s : a[y] \in Int
      BY <1>3
    <2> QED
      BY <1>3, <2>1, SumWithout
  <1>6. SumFunctionOnSet(a, s \ {x}) = 0 /\ a[x] = 0
    BY <1>2, <1>3
  <1> QED
    BY <1>3, <1>5, <1>6

\* Summed by key, and the keys' sums then added up: the sum of all.
LEMMA SumByKey ==
    ASSUME NEW S, IsFiniteSet(S), NEW K, IsFiniteSet(K), NEW a, \A x \in S : a[x] \in Int,
           NEW key, \A x \in S : key[x] \in K
    PROVE  SumFunctionOnSet([k \in K |-> SumFunctionOnSet(a, {x \in S : key[x] = k})], K)
             = SumFunctionOnSet(a, S)
  <1> DEFINE sum(s) == SumFunctionOnSet(a, s)
             of(s, k) == {x \in s : key[x] = k}
             byKey(s) == [k \in K |-> sum(of(s, k))]
             Wrong == {s \in SUBSET S : SumFunctionOnSet(byKey(s), K) # sum(s)}
  <1>1. SUFFICES ASSUME Wrong # {} PROVE FALSE
    OBVIOUS
  <1>2. PICK s \in Wrong : \A x \in s : s \ {x} \notin Wrong
    <2> HIDE DEF Wrong
    <2>1. Wrong \in SUBSET SUBSET S
      BY DEF Wrong
    <2> QED
      BY <1>1, <2>1, SmallestSet
  <1>3. s \in SUBSET S /\ SumFunctionOnSet(byKey(s), K) # sum(s)
    OBVIOUS
  <1>4. ASSUME NEW u \in SUBSET S
        PROVE  /\ sum(u) \in Int
               /\ \A x \in u : sum(u) = sum(u \ {x}) + a[x] /\ a[x] \in Int
    <2>1. IsFiniteSet(u) /\ \A x \in u : a[x] \in Int
      BY FS_Subset
    <2> QED
      BY <2>1, SumIsInt, SumWithout
  <1>5. s # {}
    <2>1. \A k \in K : of({}, k) = {}
      OBVIOUS
    <2>2. \A k \in K : byKey({})[k] = 0
      BY <2>1, SumOfNone
    <2>3. SumFunctionOnSet(byKey({}), K) = 0 /\ sum({}) = 0
      <3> HIDE DEF byKey
      <3> QED
        BY <2>2, SumOfZeros, SumOfNone
    <2> QED
      BY <1>3, <2>3
  <1>6. PICK x \in s : TRUE
    BY <1>5
  <1>7. PICK r : r = s \ {x}
    OBVIOUS
  <1>8. PICK c : c = key[x]
    OBVIOUS
  <1>9. r \in SUBSET S /\ x \in S /\ c \in K /\ a[x] \in Int
    BY <1>3, <1>7, <1>8
  <1>10. SumFunctionOnSet(byKey(r), K) = sum(r) /\ sum(s) = sum(r) + a[x]
    BY <1>2, <1>3, <1>4, <1>7, <1>9
  <1>11. \A k \in K \ {c} : of(s, k) = of(r, k)
    BY <1>7, <1>8
  <1>12. of(s, c) \in SUBSET S /\ x \in of(s, c) /\ of(s, c) \ {x} = of(r, c)
    BY <1>3, <1>7, <1>8
  <1>13. byKey(s)[c] = byKey(r)[c] + a[x]
    <2>1. sum(of(s, c)) = sum(of(s, c) \ {x}) + a[x]
      <3> HIDE DEF of, sum
      <3> QED
        BY <1>4, <1>12
    <2>2. sum(of(s, c)) = sum(of(r, c)) + a[x]
      <3> HIDE DEF of, sum
      <3> QED
        BY <2>1, <1>12
    <2> HIDE DEF of, sum
    <2> QED
      BY <1>9, <2>2
  <1>14. \A k \in K \ {c} : byKey(s)[k] = byKey(r)[k]
    <2> HIDE DEF of, sum
    <2> QED
      BY <1>11
  <1>15. \A k \in K : byKey(r)[k] \in Int
    <2>1. \A k \in K : of(r, k) \in SUBSET S
      BY <1>9
    <2> HIDE DEF of, sum
    <2> QED
      BY <1>4, <2>1
  <1>16. SumFunctionOnSet(byKey(s), K) = SumFunctionOnSet(byKey(r), K) + a[x]
    <2>1. PICK f, g : f = byKey(r) /\ g = byKey(s)
      OBVIOUS
    <2>2. /\ \A k \in K : f[k] \in Int
          /\ g[c] = f[c] + a[x] /\ \A k \in K \ {c} : g[k] = f[k]
      <3> HIDE DEF byKey
      <3> QED
        BY <1>13, <1>14, <1>15, <2>1
    <2>3. SumFunctionOnSet(g, K) = SumFunctionOnSet(f, K) + a[x]
      BY <1>9, <2>2, SumOneLarger
    <2> HIDE DEF byKey
    <2> QED
      BY <2>1, <2>3
  <1> HIDE DEF byKey, sum
  <1> QED
    BY <1>3, <1>10, <1>16

\* The image of a finite set is finite.
LEMMA ImageIsFinite ==
    ASSUME NEW S, IsFiniteSet(S), NEW p
    PROVE  IsFiniteSet({p[x] : x \in S})
  <1> DEFINE image(s) == {p[x] : x \in s}
             Wrong == {s \in SUBSET S : ~IsFiniteSet(image(s))}
  <1>1. SUFFICES ASSUME Wrong # {} PROVE FALSE
    OBVIOUS
  <1>2. PICK s \in Wrong : \A x \in s : s \ {x} \notin Wrong
    <2> HIDE DEF Wrong
    <2>1. Wrong \in SUBSET SUBSET S
      BY DEF Wrong
    <2> QED
      BY <1>1, <2>1, SmallestSet
  <1>3. s \in SUBSET S /\ ~IsFiniteSet(image(s))
    OBVIOUS
  <1>4. s # {}
    <2>1. image({}) = {}
      OBVIOUS
    <2> HIDE DEF image
    <2> QED
      BY <1>3, <2>1, FS_EmptySet
  <1>5. PICK x \in s : TRUE
    BY <1>4
  <1>6. IsFiniteSet(image(s \ {x}))
    BY <1>2, <1>3
  <1>7. image(s) = image(s \ {x}) \cup {p[x]}
    OBVIOUS
  <1>8. IsFiniteSet(image(s \ {x}) \cup {p[x]})
    <2> HIDE DEF image
    <2> QED
      BY <1>6, FS_AddElement
  <1>9. image(s) = image(s \ {x}) \cup {p[x]} /\ ~IsFiniteSet(image(s))
    BY <1>3, <1>7
  <1> HIDE DEF image, Wrong
  <1> QED
    BY <1>8, <1>9

\* Moved one to one, the same amounts add up to the same.
LEMMA SumOfMoved ==
    ASSUME NEW S, IsFiniteSet(S), NEW a, \A x \in S : a[x] \in Int, NEW p,
           \A x, y \in S : p[x] = p[y] => x = y,
           NEW b, \A x \in S : b[p[x]] = a[x], NEW T, T = {p[x] : x \in S}
    PROVE  SumFunctionOnSet(b, T) = SumFunctionOnSet(a, S)
  <1> DEFINE image(s) == {p[x] : x \in s}
             Wrong == {s \in SUBSET S : SumFunctionOnSet(b, image(s)) # SumFunctionOnSet(a, s)}
  <1>1. SUFFICES ASSUME Wrong # {} PROVE FALSE
    <2>1. S \notin Wrong => SumFunctionOnSet(b, image(S)) = SumFunctionOnSet(a, S)
      OBVIOUS
    <2>2. T = image(S)
      OBVIOUS
    <2> HIDE DEF Wrong, image
    <2> QED
      BY <2>1, <2>2
  <1>2. PICK s \in Wrong : \A x \in s : s \ {x} \notin Wrong
    <2> HIDE DEF Wrong
    <2>1. Wrong \in SUBSET SUBSET S
      BY DEF Wrong
    <2> QED
      BY <1>1, <2>1, SmallestSet
  <1>3. s \in SUBSET S /\ IsFiniteSet(s) /\ SumFunctionOnSet(b, image(s)) # SumFunctionOnSet(a, s)
    BY FS_Subset
  <1>4. s # {}
    <2>1. image({}) = {}
      OBVIOUS
    <2>2. SumFunctionOnSet(b, image({})) = SumFunctionOnSet(a, {})
      BY <2>1, SumOfNone
    <2> HIDE DEF image
    <2> QED
      BY <1>3, <2>2
  <1>5. PICK x \in s : TRUE
    BY <1>4
  <1>6. /\ image(s \ {x}) = image(s) \ {p[x]} /\ p[x] \in image(s)
        /\ IsFiniteSet(image(s)) /\ \A y \in image(s) : b[y] \in Int
    <2>1. image(s \ {x}) = image(s) \ {p[x]} /\ p[x] \in image(s)
      BY <1>3
    <2>2. IsFiniteSet(image(s))
      BY <1>3, ImageIsFinite
    <2> QED
      BY <1>3, <2>1, <2>2
  <1>7. SumFunctionOnSet(a, s) = SumFunctionOnSet(a, s \ {x}) + a[x]
    <2>1. \A y \in s : a[y] \in Int
      BY <1>3
    <2> QED
      BY <1>3, <2>1, SumWithout
  <1>8. SumFunctionOnSet(b, image(s)) = SumFunctionOnSet(b, image(s) \ {p[x]}) + b[p[x]]
    <2> HIDE DEF image
    <2> QED
      BY <1>6, SumWithout
  <1>9. SumFunctionOnSet(b, image(s \ {x})) = SumFunctionOnSet(a, s \ {x})
    BY <1>2, <1>3
  <1>10. b[p[x]] = a[x]
    BY <1>3
  <1> HIDE DEF image
  <1> QED
    BY <1>3, <1>6, <1>7, <1>8, <1>9, <1>10

\* The image of a finite set has no more members.
LEMMA ImageIsSmaller ==
    ASSUME NEW S, IsFiniteSet(S), NEW p
    PROVE  Cardinality({p[x] : x \in S}) <= Cardinality(S)
  <1> DEFINE image(s) == {p[x] : x \in s}
             Wrong == {s \in SUBSET S : ~(Cardinality(image(s)) <= Cardinality(s))}
  <1>1. SUFFICES ASSUME Wrong # {} PROVE FALSE
    OBVIOUS
  <1>2. PICK s \in Wrong : \A x \in s : s \ {x} \notin Wrong
    <2> HIDE DEF Wrong
    <2>1. Wrong \in SUBSET SUBSET S
      BY DEF Wrong
    <2> QED
      BY <1>1, <2>1, SmallestSet
  <1>3. s \in SUBSET S /\ IsFiniteSet(s) /\ ~(Cardinality(image(s)) <= Cardinality(s))
    BY FS_Subset
  <1>4. s # {}
    <2>1. image({}) = {}
      OBVIOUS
    <2> HIDE DEF image
    <2> QED
      BY <1>3, <2>1, FS_EmptySet
  <1>5. PICK x \in s : TRUE
    BY <1>4
  <1>6. /\ IsFiniteSet(image(s \ {x})) /\ IsFiniteSet(s \ {x})
        /\ Cardinality(image(s \ {x})) <= Cardinality(s \ {x})
    <2>1. Cardinality(image(s \ {x})) <= Cardinality(s \ {x})
      BY <1>2, <1>3
    <2>2. IsFiniteSet(s \ {x})
      BY <1>3, FS_Subset
    <2> QED
      BY <2>1, <2>2, ImageIsFinite
  <1>7. image(s) = image(s \ {x}) \cup {p[x]} /\ s = (s \ {x}) \cup {x}
    BY <1>5
  <1>8. PICK t, u, y : t = s \ {x} /\ u = image(s \ {x}) /\ y = p[x]
    OBVIOUS
  <1>9. /\ Cardinality(t) \in Nat /\ Cardinality(u) \in Nat /\ Cardinality(u) <= Cardinality(t)
        /\ Cardinality(u \cup {y}) = Cardinality(u) \/ Cardinality(u \cup {y}) = Cardinality(u) + 1
        /\ Cardinality(t \cup {x}) = Cardinality(t) + 1
    <2> HIDE DEF image
    <2>1. IsFiniteSet(t) /\ IsFiniteSet(u) /\ x \notin t /\ Cardinality(u) <= Cardinality(t)
      BY <1>6, <1>8
    <2>2. Cardinality(t) \in Nat /\ Cardinality(u) \in Nat
      BY <2>1, FS_CardinalityType
    <2>3. Cardinality(t \cup {x}) = Cardinality(t) + 1
      BY <2>1, FS_AddElement
    <2>4. Cardinality(u \cup {y}) = Cardinality(u) \/ Cardinality(u \cup {y}) = Cardinality(u) + 1
      BY <2>1, FS_AddElement
    <2> QED
      BY <2>1, <2>2, <2>3, <2>4
  <1>10. image(s) = u \cup {y} /\ s = t \cup {x}
    BY <1>7, <1>8
  <1>11. Cardinality(u \cup {y}) <= Cardinality(t \cup {x})
    BY <1>9
  <1> HIDE DEF image, Wrong
  <1> QED
    BY <1>3, <1>10, <1>11

\* Larger amounts have the larger sum.
LEMMA SumGrows ==
    ASSUME NEW S, IsFiniteSet(S), NEW a, NEW b,
           \A x \in S : a[x] \in Int /\ b[x] \in Int /\ a[x] <= b[x]
    PROVE  SumFunctionOnSet(a, S) <= SumFunctionOnSet(b, S)
  <1> DEFINE Wrong == {s \in SUBSET S : ~(SumFunctionOnSet(a, s) <= SumFunctionOnSet(b, s))}
  <1>1. SUFFICES ASSUME Wrong # {} PROVE FALSE
    OBVIOUS
  <1>2. PICK s \in Wrong : \A x \in s : s \ {x} \notin Wrong
    <2> HIDE DEF Wrong
    <2>1. Wrong \in SUBSET SUBSET S
      BY DEF Wrong
    <2> QED
      BY <1>1, <2>1, SmallestSet
  <1>3. s \in SUBSET S /\ IsFiniteSet(s) /\ ~(SumFunctionOnSet(a, s) <= SumFunctionOnSet(b, s))
    BY FS_Subset
  <1>4. s # {}
    BY <1>3, SumOfNone
  <1>5. PICK x \in s : TRUE
    BY <1>4
  <1>6. SumFunctionOnSet(a, s \ {x}) <= SumFunctionOnSet(b, s \ {x})
    BY <1>2, <1>3
  <1>7. /\ SumFunctionOnSet(a, s) = SumFunctionOnSet(a, s \ {x}) + a[x]
        /\ SumFunctionOnSet(b, s) = SumFunctionOnSet(b, s \ {x}) + b[x]
    <2>1. \A y \in s : a[y] \in Int /\ b[y] \in Int
      BY <1>3
    <2> QED
      BY <1>3, <2>1, SumWithout
  <1>8. SumFunctionOnSet(a, s \ {x}) \in Int /\ SumFunctionOnSet(b, s \ {x}) \in Int
    <2>1. IsFiniteSet(s \ {x}) /\ \A y \in s \ {x} : a[y] \in Int /\ b[y] \in Int
      BY <1>3, FS_Subset
    <2> QED
      BY <2>1, SumIsInt
  <1>9. a[x] \in Int /\ b[x] \in Int /\ a[x] <= b[x]
    BY <1>3
  <1> HIDE DEF Wrong
  <1> QED
    BY <1>3, <1>6, <1>7, <1>8, <1>9

\* Equal amounts add up to so many times each of them.
LEMMA SumOfEqual ==
    ASSUME NEW S, IsFiniteSet(S), NEW c \in Int, NEW a, \A x \in S : a[x] = c
    PROVE  SumFunctionOnSet(a, S) = c * Cardinality(S)
  <1> DEFINE Wrong == {s \in SUBSET S : SumFunctionOnSet(a, s) # c * Cardinality(s)}
  <1>1. SUFFICES ASSUME Wrong # {} PROVE FALSE
    OBVIOUS
  <1>2. PICK s \in Wrong : \A x \in s : s \ {x} \notin Wrong
    <2> HIDE DEF Wrong
    <2>1. Wrong \in SUBSET SUBSET S
      BY DEF Wrong
    <2> QED
      BY <1>1, <2>1, SmallestSet
  <1>3. s \in SUBSET S /\ IsFiniteSet(s) /\ SumFunctionOnSet(a, s) # c * Cardinality(s)
    BY FS_Subset
  <1>4. s # {}
    <2>1. Cardinality({}) = 0
      BY FS_EmptySet
    <2>2. c * 0 = 0
      OBVIOUS
    <2> QED
      BY <1>3, <2>1, <2>2, SumOfNone
  <1>5. PICK x \in s : TRUE
    BY <1>4
  <1>6. SumFunctionOnSet(a, s \ {x}) = c * Cardinality(s \ {x})
    BY <1>2, <1>3
  <1>7. SumFunctionOnSet(a, s) = SumFunctionOnSet(a, s \ {x}) + a[x] /\ a[x] = c
    <2>1. \A y \in s : a[y] \in Int
      BY <1>3
    <2> QED
      BY <1>3, <2>1, SumWithout
  <1>8. PICK k \in Nat : k = Cardinality(s \ {x}) /\ Cardinality(s) = k + 1
    <2>1. IsFiniteSet(s \ {x}) /\ s = (s \ {x}) \cup {x}
      BY <1>3, <1>5, FS_Subset
    <2>2. Cardinality((s \ {x}) \cup {x}) = Cardinality(s \ {x}) + 1
      BY <2>1, FS_AddElement
    <2>3. Cardinality(s \ {x}) \in Nat
      BY <2>1, FS_CardinalityType
    <2> QED
      BY <2>1, <2>2, <2>3
  <1>9. c * k + c = c * (k + 1)
    OBVIOUS
  <1> HIDE DEF Wrong
  <1> QED
    BY <1>3, <1>6, <1>7, <1>8, <1>9
=============================================================================
