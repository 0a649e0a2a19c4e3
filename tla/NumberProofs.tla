---------------------------- MODULE NumberProofs ----------------------------
(***************************************************************************)
(* What the library's minimum, maximum and sums are of finite sets of      *)
(* numbers, and what an integer quotient is of its parts.  Minimum and     *)
(* maximum are chosen, and a sum is a value of a function defined by       *)
(* recursion on subsets, so each fact starts from a least counterexample.  *)
(***************************************************************************)
EXTENDS Integers, FiniteSetsExt, Functions, FunctionTheorems, FiniteSetTheorems,
        WellFoundedInduction, TLAPS

-----------------------------------------------------------------------------
(* The ends of sets of two and three, of natural numbers, of any bounded   *)
(* set of them.                                                            *)
(* Arithmetic of two and three numbers.                                    *)
LEMMA MinOfTwo ==
  ASSUME NEW a \in Int, NEW b \in Int
  PROVE  Min({a, b}) \in Int /\ Min({a, b}) = IF a <= b THEN a ELSE b
<1> DEFINE m == IF a <= b THEN a ELSE b
<1>1. m \in {a, b} /\ \A y \in {a, b} : m <= y
  OBVIOUS
<1>2. \A x \in {a, b} : (\A y \in {a, b} : x <= y) => x = m
  OBVIOUS
<1>3. QED
  BY <1>1, <1>2 DEF Min

LEMMA MaxOfTwo ==
  ASSUME NEW a \in Int, NEW b \in Int
  PROVE  Max({a, b}) \in Int /\ Max({a, b}) = IF a >= b THEN a ELSE b
<1> DEFINE m == IF a >= b THEN a ELSE b
<1>1. m \in {a, b} /\ \A y \in {a, b} : m >= y
  OBVIOUS
<1>2. \A x \in {a, b} : (\A y \in {a, b} : x >= y) => x = m
  OBVIOUS
<1>3. QED
  BY <1>1, <1>2 DEF Max

LEMMA MaxOfThree ==
  ASSUME NEW a \in Int, NEW b \in Int, NEW c \in Int
  PROVE  LET m == Max({a, b, c}) IN m \in Int /\ m >= a /\ m >= b /\ m >= c
<1> DEFINE m == IF a >= b /\ a >= c THEN a ELSE IF b >= c THEN b ELSE c
<1>1. m \in {a, b, c} /\ \A y \in {a, b, c} : m >= y
  OBVIOUS
<1>2. Max({a, b, c}) \in {a, b, c} /\ \A y \in {a, b, c} : Max({a, b, c}) >= y
  BY <1>1 DEF Max
<1>3. QED
  BY <1>2

LEMMA LargerOf ==
  ASSUME NEW a \in Int, NEW b \in Int
  PROVE  Max({a, b}) \in {a, b} /\ a <= Max({a, b}) /\ b <= Max({a, b})
<1>1. \E x \in {a, b} : \A y \in {a, b} : x >= y
  OBVIOUS
<1>2. Max({a, b}) \in {a, b} /\ \A y \in {a, b} : Max({a, b}) >= y
  BY <1>1 DEF Max
<1> DEFINE m == Max({a, b})
<1> HIDE DEF m
<1>3. m \in {a, b} /\ a <= m /\ b <= m
  <2>1. m \in {a, b} /\ m >= a /\ m >= b
    BY <1>2 DEF m
  <2>2. QED
    BY <2>1
<1>4. QED
  BY <1>3 DEF m

LEMMA SmallestOf ==
  ASSUME NEW S \in SUBSET Nat, S # {}
  PROVE  Min(S) \in S /\ \A s \in S : Min(S) <= s
<1>1. PICK m \in S : \A n \in S : ~(<<n, m>> \in OpToRel(<, Nat))
  BY NatLessThanWellFounded, WFMin
<1>2. \A n \in S : <<n, m>> \in Nat \X Nat
  OBVIOUS
<1>3. \A n \in S : ~(n < m)
  BY <1>1, <1>2 DEF OpToRel
<1>4. \A n \in S : m <= n
  BY <1>3
<1>5. QED
  BY <1>4 DEF Min

LEMMA LargestOf ==
  ASSUME NEW n \in Nat, NEW S \in SUBSET (0..n), S # {}
  PROVE  Max(S) \in S /\ \A s \in S : s <= Max(S)
<1> DEFINE T == {t \in Nat : \E s \in S : t = n - s}
<1>1. T \in SUBSET Nat /\ T # {}
  <2>1. PICK s \in S : TRUE
    OBVIOUS
  <2>2. n - s \in T
    OBVIOUS
  <2>3. QED
    BY <2>2
<1>2. PICK t \in T : \A u \in T : ~(<<u, t>> \in OpToRel(<, Nat))
  BY <1>1, NatLessThanWellFounded, WFMin
<1>3. PICK m \in S : t = n - m
  BY <1>2
<1>4. ASSUME NEW s \in S PROVE m >= s
  <2>1. n - s \in T /\ n - s \in Nat /\ n - m \in Nat
    BY <1>3
  <2>2. ~(n - s < n - m)
    BY <1>2, <1>3, <2>1 DEF OpToRel
  <2>3. QED
    BY <2>2
<1>5. Max(S) \in S /\ \A s \in S : Max(S) >= s
  BY <1>4 DEF Max
<1>6. QED
  BY <1>5

-----------------------------------------------------------------------------
(* The library's sum is the value at S of the function defined by          *)
(* recursion on the subsets of S.  There is one when S is finite.          *)
Adds(f, T, g) ==
  g = [s \in T |-> IF s = {} THEN 0
                   ELSE LET x == CHOOSE y \in s : TRUE IN f[x] + g[s \ {x}]]
Sum(f, S) == (CHOOSE g : Adds(f, SUBSET S, g))[S]

LEMMA SumIs == ASSUME NEW f, NEW S PROVE SumFunctionOnSet(f, S) = Sum(f, S)
BY DEF SumFunctionOnSet, FoldFunctionOnSet, MapThenFoldSet, Sum, Adds

LEMMA FewerLeft ==
  ASSUME NEW S, IsFiniteSet(S), NEW s \in SUBSET S, s # {}
  PROVE  LET x == CHOOSE y \in s : TRUE
         IN  /\ x \in s /\ s \ {x} \in SUBSET S
             /\ Cardinality(s) \in Nat /\ Cardinality(s \ {x}) \in Nat
             /\ Cardinality(s) = Cardinality(s \ {x}) + 1
<1> DEFINE x == CHOOSE y \in s : TRUE
<1>1. x \in s
  OBVIOUS
<1>2. IsFiniteSet(s)
  BY FS_Subset
<1> HIDE DEF x
<1>3. Cardinality(s \ {x}) = Cardinality(s) - 1 /\ IsFiniteSet(s \ {x})
  BY <1>1, <1>2, FS_RemoveElement
<1>4. Cardinality(s) \in Nat /\ Cardinality(s \ {x}) \in Nat
  BY <1>2, <1>3, FS_CardinalityType
<1>5. QED
  BY <1>1, <1>3, <1>4 DEF x

LEMMA NothingLeft ==
  ASSUME NEW S, IsFiniteSet(S), NEW s \in SUBSET S
  PROVE  Cardinality(s) \in Nat /\ (Cardinality(s) = 0 <=> s = {})
BY FS_Subset, FS_CardinalityType, FS_EmptySet

LEMMA SumExists ==
  ASSUME NEW f, NEW S, IsFiniteSet(S)
  PROVE  \E g : Adds(f, SUBSET S, g)
<1> DEFINE Small(n) == {s \in SUBSET S : Cardinality(s) <= n}
           Bad == {n \in Nat : ~ \E g : Adds(f, Small(n), g)}
<1>1. Cardinality(S) \in Nat
  BY FS_CardinalityType
<1>2. Small(Cardinality(S)) = SUBSET S
  <2>1. \A s \in SUBSET S : Cardinality(s) <= Cardinality(S)
    BY FS_Subset
  <2>2. QED
    BY <2>1
<1>3. Bad = {}
  <2> SUFFICES ASSUME Bad # {} PROVE FALSE
    OBVIOUS
  <2>1. PICK n \in Bad : \A m \in Bad : ~(<<m, n>> \in OpToRel(<, Nat))
    BY NatLessThanWellFounded, WFMin
  <2>2. n \in Nat /\ \A m \in Nat : m < n => m \notin Bad
    BY <2>1 DEF OpToRel
  <2>3. CASE n = 0
    <3> DEFINE g == [s \in Small(0) |-> 0]
    <3>1. \A s \in Small(0) : s = {}
      <4> TAKE s \in Small(0)
      <4>1. Cardinality(s) \in Nat /\ Cardinality(s) <= 0 /\ (Cardinality(s) = 0 <=> s = {})
        BY NothingLeft
      <4>2. QED
        BY <4>1
    <3> HIDE DEF Small
    <3>2. Adds(f, Small(0), g)
      BY <3>1 DEF Adds
    <3>3. QED
      BY <2>1, <2>3, <3>2
  <2>4. CASE n # 0
    <3>1. n - 1 \in Nat /\ n - 1 < n
      BY <2>2, <2>4
    <3>2. PICK h : Adds(f, Small(n - 1), h)
      BY <2>2, <3>1
    <3> DEFINE g == [s \in Small(n) |->
                       IF s = {} THEN 0
                       ELSE LET x == CHOOSE y \in s : TRUE IN f[x] + h[s \ {x}]]
    <3>3. \A s \in Small(n - 1) : s \in Small(n)
      <4> TAKE s \in Small(n - 1)
      <4>1. Cardinality(s) \in Nat /\ Cardinality(s) <= n - 1
        BY NothingLeft
      <4>2. QED
        BY <4>1, <2>2
    <3>4. ASSUME NEW s \in Small(n), s # {}
          PROVE  s \ {CHOOSE y \in s : TRUE} \in Small(n - 1)
      <4> DEFINE r == s \ {CHOOSE y \in s : TRUE}
      <4>1. /\ r \in SUBSET S /\ Cardinality(s) \in Nat /\ Cardinality(r) \in Nat
            /\ Cardinality(s) = Cardinality(r) + 1 /\ Cardinality(s) <= n
        BY <3>4, FewerLeft
      <4> HIDE DEF r
      <4>2. Cardinality(r) <= n - 1
        BY <4>1, <2>2
      <4>3. QED
        BY <4>1, <4>2 DEF r
    <3> HIDE DEF Small
    <3>5. \A s \in Small(n - 1) : h[s] = g[s]
      BY <3>2, <3>3 DEF Adds
    <3> DEFINE pick(s) == CHOOSE y \in s : TRUE
               step(s, k) == IF s = {} THEN 0 ELSE f[pick(s)] + k[s \ {pick(s)}]
    <3>6. \A s \in Small(n) : s # {} => s \ {pick(s)} \in Small(n - 1)
      BY <3>4
    <3>7. g = [s \in Small(n) |-> step(s, h)]
      OBVIOUS
    <3>8. (g = [s \in Small(n) |-> step(s, g)]) => Adds(f, Small(n), g)
      BY DEF Adds
    <3> HIDE DEF g, pick
    <3>9. \A s \in Small(n) : step(s, h) = step(s, g)
      BY <3>5, <3>6
    <3> HIDE DEF step
    <3>10. g = [s \in Small(n) |-> step(s, g)]
      BY <3>7, <3>9
    <3>11. Adds(f, Small(n), g)
      BY <3>8, <3>10
    <3>12. QED
      BY <2>1, <3>11
  <2>5. QED
    BY <2>3, <2>4
<1>4. QED
  BY <1>1, <1>2, <1>3


(* A sum of numbers all of which but one are within bounds ...             *)
LEMMA SumButOne ==
  ASSUME NEW S, IsFiniteSet(S), NEW f, NEW b, NEW lo \in Int, NEW hi \in Int,
         \A x \in S : f[x] \in Int
  PROVE  /\ Sum(f, S) \in Int /\ Cardinality(S) \in Nat
         /\ (\A x \in S : x # b => lo <= f[x]) =>
              IF b \in S THEN lo * (Cardinality(S) - 1) + f[b] <= Sum(f, S)
              ELSE lo * Cardinality(S) <= Sum(f, S)
         /\ (\A x \in S : x # b => f[x] <= hi) =>
              IF b \in S THEN Sum(f, S) <= hi * (Cardinality(S) - 1) + f[b]
              ELSE Sum(f, S) <= hi * Cardinality(S)
<1> DEFINE g == CHOOSE h : Adds(f, SUBSET S, h)
           Low == \A x \in S : x # b => lo <= f[x]
           High == \A x \in S : x # b => f[x] <= hi
           n(s) == IF b \in s THEN Cardinality(s) - 1 ELSE Cardinality(s)
           e(s) == IF b \in s THEN f[b] ELSE 0
           Fits(s) == /\ g[s] \in Int
                      /\ Low => lo * n(s) + e(s) <= g[s]
                      /\ High => g[s] <= hi * n(s) + e(s)
           Bad == {c \in Nat : \E s \in SUBSET S : Cardinality(s) = c /\ ~Fits(s)}
<1>1. Adds(f, SUBSET S, g)
  BY SumExists
<1> HIDE DEF g
<1>2. \A s \in SUBSET S :
        g[s] = IF s = {} THEN 0 ELSE LET x == CHOOSE y \in s : TRUE IN f[x] + g[s \ {x}]
  BY <1>1 DEF Adds
<1>3. Bad = {}
  <2> SUFFICES ASSUME Bad # {} PROVE FALSE
    OBVIOUS
  <2>1. PICK c \in Bad : \A m \in Bad : ~(<<m, c>> \in OpToRel(<, Nat))
    BY NatLessThanWellFounded, WFMin
  <2>2. c \in Nat /\ \A m \in Nat : m < c => m \notin Bad
    BY <2>1 DEF OpToRel
  <2>3. PICK s \in SUBSET S : Cardinality(s) = c /\ ~Fits(s)
    BY <2>1
  <2>4. CASE s = {}
    <3>1. g[s] = 0 /\ Cardinality(s) = 0
      BY <1>2, <2>4, FS_EmptySet
    <3>2. Fits(s)
      BY <2>4, <3>1
    <3>3. QED
      BY <2>3, <3>2
  <2>5. CASE s # {}
    <3> DEFINE x == CHOOSE y \in s : TRUE
               r == s \ {x}
    <3>1. /\ x \in s /\ r \in SUBSET S
          /\ Cardinality(s) \in Nat /\ Cardinality(r) \in Nat /\ Cardinality(s) = Cardinality(r) + 1
      BY <2>5, FewerLeft
    <3>2. g[s] = f[x] + g[r]
      BY <1>2, <2>5
    <3>3. b \in s <=> b = x \/ b \in r
      BY <3>1
    <3>4. x \notin r
      OBVIOUS
    <3> HIDE DEF x, r
    <3>5. Fits(r)
      <4>1. Cardinality(r) \notin Bad
        BY <2>2, <2>3, <3>1
      <4>2. QED
        BY <3>1, <4>1
    <3>6. f[x] \in Int /\ (Low => x = b \/ lo <= f[x]) /\ (High => x = b \/ f[x] <= hi)
      BY <3>1
    <3>7. n(r) \in Int /\ e(r) \in Int
      <4>1. b \in r => f[b] \in Int
        BY <3>1
      <4>2. QED
        BY <3>1, <4>1
    <3>8. CASE x = b
      <4>1. n(s) = n(r) /\ e(r) = 0 /\ e(s) = f[x]
        BY <3>1, <3>3, <3>4, <3>8
      <4> HIDE DEF n, e, Low, High
      <4>2. lo * n(r) \in Int /\ hi * n(r) \in Int
        BY <3>7
      <4>3. Fits(s)
        BY <3>2, <3>5, <3>6, <4>1, <4>2
      <4>4. QED
        BY <2>3, <4>3
    <3>9. CASE x # b
      <4>1. n(s) = n(r) + 1 /\ e(s) = e(r)
        BY <3>1, <3>3, <3>9
      <4> HIDE DEF n, e, Low, High
      <4>2. /\ lo * n(s) = lo * n(r) + lo /\ hi * n(s) = hi * n(r) + hi
            /\ lo * n(r) \in Int /\ hi * n(r) \in Int
        <5>1. \A k, p, q \in Int : p = q + 1 => k * p = k * q + k /\ k * q \in Int
          OBVIOUS
        <5>2. n(s) \in Int
          BY <3>7, <4>1
        <5>3. QED
          BY <3>7, <4>1, <5>1, <5>2
      <4>3. Fits(s)
        BY <3>2, <3>5, <3>6, <3>7, <3>9, <4>1, <4>2
      <4>4. QED
        BY <2>3, <4>3
    <3>10. QED
      BY <3>8, <3>9
  <2>6. QED
    BY <2>4, <2>5
<1>4. S \in SUBSET S /\ Cardinality(S) \in Nat
  BY FS_CardinalityType
<1>5. Fits(S)
  BY <1>3, <1>4
<1>6. g[S] = Sum(f, S)
  BY DEF Sum, g
<1>7. \A k, p \in Int : k * p \in Int /\ k * p + 0 = k * p
  OBVIOUS
<1>8. QED
  BY <1>4, <1>5, <1>6, <1>7

(* ... or all of them.                                                     *)
LEMMA SumBounds ==
  ASSUME NEW S, IsFiniteSet(S), NEW f, NEW lo \in Int, NEW hi \in Int, \A x \in S : f[x] \in Int
  PROVE  /\ Sum(f, S) \in Int /\ Cardinality(S) \in Nat
         /\ (\A x \in S : lo <= f[x]) => lo * Cardinality(S) <= Sum(f, S)
         /\ (\A x \in S : f[x] <= hi) => Sum(f, S) <= hi * Cardinality(S)
<1> DEFINE b == {x \in S : x \notin x}
<1>1. b \notin S
  OBVIOUS
<1> HIDE DEF b
<1>2. QED
  BY <1>1, SumButOne

(* A sum grows with what is summed.                                        *)
LEMMA SumGrows ==
  ASSUME NEW S, IsFiniteSet(S), NEW f, NEW h,
         \A x \in S : f[x] \in Int /\ h[x] \in Int /\ f[x] <= h[x]
  PROVE  Sum(f, S) \in Int /\ Sum(h, S) \in Int /\ Sum(f, S) <= Sum(h, S)
<1> DEFINE F == CHOOSE g : Adds(f, SUBSET S, g)
           H == CHOOSE g : Adds(h, SUBSET S, g)
           Fits(s) == F[s] \in Int /\ H[s] \in Int /\ F[s] <= H[s]
           Bad == {c \in Nat : \E s \in SUBSET S : Cardinality(s) = c /\ ~Fits(s)}
<1>1. Adds(f, SUBSET S, F) /\ Adds(h, SUBSET S, H)
  BY SumExists
<1> HIDE DEF F, H
<1>2. \A s \in SUBSET S :
        /\ F[s] = IF s = {} THEN 0 ELSE LET x == CHOOSE y \in s : TRUE IN f[x] + F[s \ {x}]
        /\ H[s] = IF s = {} THEN 0 ELSE LET x == CHOOSE y \in s : TRUE IN h[x] + H[s \ {x}]
  BY <1>1 DEF Adds
<1>3. Bad = {}
  <2> SUFFICES ASSUME Bad # {} PROVE FALSE
    OBVIOUS
  <2>1. PICK c \in Bad : \A m \in Bad : ~(<<m, c>> \in OpToRel(<, Nat))
    BY NatLessThanWellFounded, WFMin
  <2>2. c \in Nat /\ \A m \in Nat : m < c => m \notin Bad
    BY <2>1 DEF OpToRel
  <2>3. PICK s \in SUBSET S : Cardinality(s) = c /\ ~Fits(s)
    BY <2>1
  <2>4. s # {}
    BY <1>2, <2>3
  <2> DEFINE x == CHOOSE y \in s : TRUE
             r == s \ {x}
  <2>5. /\ x \in s /\ r \in SUBSET S
        /\ Cardinality(s) \in Nat /\ Cardinality(r) \in Nat /\ Cardinality(s) = Cardinality(r) + 1
    BY <2>4, FewerLeft
  <2>6. F[s] = f[x] + F[r] /\ H[s] = h[x] + H[r]
    BY <1>2, <2>4
  <2> HIDE DEF x, r
  <2>7. Fits(r)
    <3>1. Cardinality(r) \notin Bad
      BY <2>2, <2>3, <2>5
    <3>2. QED
      BY <2>5, <3>1
  <2>8. f[x] \in Int /\ h[x] \in Int /\ f[x] <= h[x]
    BY <2>5
  <2>9. QED
    BY <2>3, <2>6, <2>7, <2>8
<1>4. S \in SUBSET S /\ Cardinality(S) \in Nat
  BY FS_CardinalityType
<1>5. Fits(S)
  BY <1>3, <1>4
<1>6. QED
  BY <1>5 DEF Sum, F, H

-----------------------------------------------------------------------------
(* A finite set of numbers has its ends.                                   *)
LEMMA EndsOf ==
  ASSUME NEW S \in SUBSET Int, IsFiniteSet(S), S # {}
  PROVE  /\ Max(S) \in S /\ \A s \in S : s <= Max(S)
         /\ Min(S) \in S /\ \A s \in S : Min(S) <= s
<1> DEFINE Bad == {c \in Nat : \E T \in SUBSET S :
                     Cardinality(T) = c /\ T # {} /\
                     ~(/\ \E x \in T : \A y \in T : x >= y
                       /\ \E x \in T : \A y \in T : x <= y)}
<1>1. Bad = {}
  <2> SUFFICES ASSUME Bad # {} PROVE FALSE
    OBVIOUS
  <2>1. PICK c \in Bad : \A m \in Bad : ~(<<m, c>> \in OpToRel(<, Nat))
    <3>1. Bad \subseteq Nat
      OBVIOUS
    <3> HIDE DEF Bad
    <3>2. QED
      BY <3>1, NatLessThanWellFounded, WFMin
  <2>2. c \in Nat /\ \A m \in Nat : m < c => m \notin Bad
    BY <2>1 DEF OpToRel
  <2>3. PICK T \in SUBSET S : /\ Cardinality(T) = c /\ T # {}
                              /\ ~(/\ \E x \in T : \A y \in T : x >= y
                                   /\ \E x \in T : \A y \in T : x <= y)
    BY <2>1
  <2> DEFINE z == CHOOSE y \in T : TRUE
             R == T \ {z}
  <2>4. /\ z \in T /\ R \in SUBSET S /\ Cardinality(R) \in Nat /\ Cardinality(T) \in Nat
        /\ Cardinality(T) = Cardinality(R) + 1
    BY <2>3, FewerLeft, ZenonT(60)
  <2>5. \A y \in T : y = z \/ y \in R
    OBVIOUS
  <2>6. R \subseteq T
    OBVIOUS
  <2> HIDE DEF z, R
  <2>7. CASE R = {}
    <3>1. \A y \in T : y = z /\ y \in Int
      BY <2>5, <2>7
    <3>2. QED
      BY <2>3, <2>4, <3>1
  <2>8. CASE R # {}
    <3>1. Cardinality(R) \notin Bad
      BY <2>2, <2>3, <2>4
    <3>2. /\ \E x \in R : \A y \in R : x >= y
          /\ \E x \in R : \A y \in R : x <= y
      BY <2>4, <2>8, <3>1
    <3>3. PICK u \in R : \A y \in R : u >= y
      BY <3>2
    <3>4. PICK v \in R : \A y \in R : v <= y
      BY <3>2
    <3>5. u \in Int /\ v \in Int /\ z \in Int /\ u \in T /\ v \in T /\ \A y \in R : y \in Int
      BY <2>4, <2>6, <3>3, <3>4
    <3>6. \E x \in T : \A y \in T : x >= y
      <4>1. CASE z >= u
        <5>1. \A y \in T : z >= y
          BY <2>5, <3>3, <3>5, <4>1
        <5>2. QED
          BY <2>4, <5>1
      <4>2. CASE u >= z
        <5>1. \A y \in T : u >= y
          BY <2>5, <3>3, <3>5, <4>2
        <5>2. QED
          BY <3>5, <5>1
      <4>3. QED
        BY <3>5, <4>1, <4>2
    <3>7. \E x \in T : \A y \in T : x <= y
      <4>1. CASE z <= v
        <5>1. \A y \in T : z <= y
          BY <2>5, <3>4, <3>5, <4>1
        <5>2. QED
          BY <2>4, <5>1
      <4>2. CASE v <= z
        <5>1. \A y \in T : v <= y
          BY <2>5, <3>4, <3>5, <4>2
        <5>2. QED
          BY <3>5, <5>1
      <4>3. QED
        BY <3>5, <4>1, <4>2
    <3>8. QED
      BY <2>3, <3>6, <3>7
  <2>9. QED
    BY <2>7, <2>8
<1>2. Cardinality(S) \in Nat
  BY FS_CardinalityType
<1>3. /\ \E x \in S : \A y \in S : x >= y
      /\ \E x \in S : \A y \in S : x <= y
  BY <1>1, <1>2
<1>4. Max(S) \in S /\ \A y \in S : Max(S) >= y
  BY <1>3 DEF Max
<1>5. Min(S) \in S /\ \A y \in S : Min(S) <= y
  BY <1>3 DEF Min
<1> DEFINE hi == Max(S)
<1> HIDE DEF hi
<1>6. \A s \in S : s <= hi
  BY <1>4 DEF hi
<1>7. QED
  BY <1>4, <1>5, <1>6 DEF hi

-----------------------------------------------------------------------------
(* Division, and sums over the places of a sequence.                       *)
LEMMA ProductsGrow ==
  \A k, q, b \in Int : b >= 1 /\ k > q => b * k >= b * q + b
<1> SUFFICES ASSUME NEW k \in Int, NEW q \in Int, NEW b \in Int, b >= 1, k > q
             PROVE  b * k >= b * q + b
  OBVIOUS
<1>1. \A x, y \in Int : x >= 0 /\ y >= 0 => x * y >= 0
  OBVIOUS
<1>2. b * (k - q - 1) >= 0
  BY <1>1
<1>3. b * (k - q - 1) = b * k - b * q - b
  OBVIOUS
<1>4. QED
  BY <1>2, <1>3

LEMMA QuotientIs ==
  ASSUME NEW a \in Int, NEW b \in Nat \ {0}
  PROVE  /\ a \div b \in Int
         /\ \A k \in Int : k * b \in Int /\ (k * b <= a <=> k <= a \div b)
<1> DEFINE q == a \div b
<1>1. q \in Int /\ b * q <= a /\ a < b * q + b
  OBVIOUS
<1> HIDE DEF q
<1>2. ASSUME NEW k \in Int PROVE k * b \in Int /\ (k * b <= a <=> k <= q)
  <2>1. k * b \in Int /\ k * b = b * k /\ b * q \in Int /\ b * k \in Int
    BY <1>1
  <2>2. CASE k > q
    <3>1. b * k >= b * q + b
      BY <1>1, <2>2, ProductsGrow
    <3>2. QED
      BY <1>1, <2>1, <2>2, <3>1
  <2>3. CASE k = q
    BY <1>1, <2>1, <2>3
  <2>4. CASE k < q
    <3>1. b * q >= b * k + b
      BY <1>1, <2>4, ProductsGrow
    <3>2. QED
      BY <1>1, <2>1, <2>4, <3>1
  <2>5. QED
    BY <1>1, <2>2, <2>3, <2>4
<1>3. QED
  BY <1>1, <1>2 DEF q

LEMMA QuotientsGrow ==
  ASSUME NEW a \in Int, NEW c \in Int, NEW b \in Nat \ {0}, a <= c
  PROVE  a \div b <= c \div b
<1>1. a \div b \in Int /\ c \div b \in Int
  BY QuotientIs
<1> DEFINE q == a \div b
<1>2. q * b \in Int /\ q * b <= a
  BY <1>1, QuotientIs
<1> HIDE DEF q
<1>3. q * b <= c
  BY <1>2
<1>4. q \in Int
  BY <1>1 DEF q
<1>5. q <= c \div b
  BY <1>3, <1>4, QuotientIs
<1>6. QED
  BY <1>5 DEF q

LEMMA SumOver ==
  ASSUME NEW n \in Nat, NEW f, DOMAIN f = 1..n, \A i \in 1..n : f[i] \in Int
  PROVE  /\ SumFunction(f) \in Int
         /\ (\A i \in 1..n : f[i] >= 0) => SumFunction(f) >= 0
         /\ \A i \in 1..n : (\A j \in 1..n : f[j] >= 0) => SumFunction(f) >= f[i]
<1>1. SumFunction(f) = Sum(f, 1..n)
  BY SumIs DEF SumFunction
<1>2. IsFiniteSet(1..n)
  BY FS_Interval
<1> DEFINE S == 1..n
           total == Sum(f, S)
<1> HIDE DEF S
<1>3. \A i \in S : f[i] \in Int
  BY DEF S
<1>4. /\ total \in Int /\ Cardinality(S) \in Nat
      /\ (\A i \in S : 0 <= f[i]) => 0 * Cardinality(S) <= total
  BY <1>2, <1>3, SumBounds, 0 \in Int DEF S
<1>5. ASSUME NEW b \in S, \A j \in S : f[j] >= 0 PROVE total >= f[b]
  <2>1. \A x \in S : x # b => 0 <= f[x]
    BY <1>3, <1>5
  <2>2. 0 * (Cardinality(S) - 1) + f[b] <= total
    BY <1>2, <1>3, <2>1, SumButOne, 0 \in Int DEF S
  <2>3. 0 * (Cardinality(S) - 1) = 0
    BY <1>4
  <2>4. QED
    BY <1>3, <1>4, <2>2, <2>3
<1>6. (\A i \in S : f[i] >= 0) => total >= 0
  BY <1>3, <1>4
<1>7. QED
  BY <1>1, <1>4, <1>5, <1>6 DEF S
=============================================================================
