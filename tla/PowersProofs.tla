---------------------------- MODULE PowersProofs ----------------------------
(***************************************************************************)
(* Induction and recursion, division, and the powers of a base.  The       *)
(* induction theorems of the library take an operator, which the provers   *)
(* cannot instantiate; here they are stated for sets and functions.        *)
(***************************************************************************)
EXTENDS Powers, WellFoundedInduction, TLAPS

-----------------------------------------------------------------------------
(* Induction and recursion                                                 *)

(* A set of natural numbers has a least element.                           *)
LEMMA Least ==
  ASSUME NEW T \in SUBSET Nat, T # {}
  PROVE  \E m \in T : \A k \in T : m <= k
<1> DEFINE R == OpToRel(<, Nat)
<1>1. PICK m \in T : \A k \in T : ~(<<k, m>> \in R)
  <2>1. IsWellFoundedOn(R, Nat)
    BY NatLessThanWellFounded, Zenon
  <2>2. T \subseteq Nat
    OBVIOUS
  <2> HIDE DEF R
  <2> QED
    BY <2>1, <2>2, WFMin
<1>2. \A k \in T : ~(k < m)
  BY <1>1 DEF OpToRel
<1> QED
  BY <1>2

(* A bounded one has a greatest.                                           *)
LEMMA Greatest ==
  ASSUME NEW T \in SUBSET Nat, T # {}, NEW b \in Nat, \A k \in T : k <= b
  PROVE  \E m \in T : \A k \in T : k <= m
<1> DEFINE U == {b - k : k \in T}
<1>1. U \in SUBSET Nat /\ U # {}
  <2>1. \A k \in T : b - k \in Nat
    OBVIOUS
  <2> QED
    BY <2>1
<1>2. PICK u \in U : \A x \in U : u <= x
  BY <1>1, Least
<1>3. PICK m \in T : u = b - m
  BY <1>2
<1>4. \A k \in T : b - m <= b - k
  BY <1>2, <1>3
<1> QED
  BY <1>3, <1>4

(* Induction over the natural numbers.                                     *)
LEMMA Induction ==
  ASSUME NEW T, 0 \in T, \A n \in Nat : n \in T => n + 1 \in T
  PROVE  Nat \subseteq T
<1> DEFINE C == Nat \ T
<1> SUFFICES ASSUME C # {} PROVE FALSE
  OBVIOUS
<1>1. PICK m \in C : \A k \in C : m <= k
  BY Least
<1>2. m \in Nat /\ m # 0
  BY <1>1
<1>3. m - 1 \in Nat /\ (m - 1) + 1 = m /\ ~(m <= m - 1)
  BY <1>2
<1>4. m - 1 \in T
  BY <1>1, <1>3
<1> QED
  BY <1>1, <1>3, <1>4

(* g follows the recursion that starts with a as far as n.                 *)
Follows(g, a, step, n) ==
  \A i \in 0 .. n : g[i] = IF i = 0 THEN a ELSE step[<<i, g[i - 1]>>]

(* Every finite part of a recursively defined function exists.             *)
LEMMA FiniteRecursion ==
  ASSUME NEW S, NEW a \in S, NEW step \in [Nat \X S -> S], NEW n \in Nat
  PROVE  \E g \in [0 .. n -> S] : Follows(g, a, step, n)
<1> DEFINE T == {m \in Nat : \E g \in [0 .. m -> S] : Follows(g, a, step, m)}
<1>1. 0 \in T
  <2> DEFINE g == [i \in 0 .. 0 |-> a]
  <2>1. g \in [0 .. 0 -> S] /\ Follows(g, a, step, 0)
    BY DEF Follows
  <2> QED
    BY <2>1
<1>2. ASSUME NEW m \in Nat, m \in T PROVE m + 1 \in T
  <2>1. PICK g \in [0 .. m -> S] : Follows(g, a, step, m)
    BY <1>2
  <2> DEFINE last == step[<<m + 1, g[m]>>]
             h == [i \in 0 .. m + 1 |-> IF i <= m THEN g[i] ELSE last]
  <2>2. /\ \A i \in 0 .. m + 1 : i <= m <=> i \in 0 .. m
        /\ \A i \in 0 .. m + 1 : i \notin 0 .. m => i = m + 1
        /\ m \in 0 .. m /\ m + 1 \in Nat
    OBVIOUS
  <2>3. last \in S
    <3>1. g[m] \in S
      BY <2>2
    <3>2. <<m + 1, g[m]>> \in Nat \X S
      BY <2>2, <3>1
    <3> QED
      BY <3>2
  <2>4. h \in [0 .. m + 1 -> S]
    BY <2>2, <2>3
  <2>5. /\ \A i \in 0 .. m : h[i] = g[i]
        /\ h[m + 1] = last
    BY <2>2
  <2> HIDE DEF h
  <2>6. ASSUME NEW i \in 0 .. m + 1
        PROVE  h[i] = IF i = 0 THEN a ELSE step[<<i, h[i - 1]>>]
    <3>1. CASE i \in 0 .. m
      <4>1. i # 0 => i - 1 \in 0 .. m
        BY <3>1
      <4>2. g[i] = IF i = 0 THEN a ELSE step[<<i, g[i - 1]>>]
        BY <2>1, <3>1 DEF Follows
      <4> QED
        BY <2>5, <3>1, <4>1, <4>2
    <3>2. CASE i \notin 0 .. m
      <4>1. i = m + 1 /\ i # 0 /\ i - 1 = m
        BY <3>2
      <4> QED
        BY <2>2, <2>5, <4>1
    <3> QED
      BY <3>1, <3>2
  <2> QED
    BY <2>2, <2>4, <2>6 DEF Follows
<1> HIDE DEF T
<1>3. Nat \subseteq T
  BY <1>1, <1>2, Induction
<1> QED
  BY <1>3 DEF T

(* The finite parts agree.                                                 *)
LEMMA FiniteAgree ==
  ASSUME NEW S, NEW a \in S, NEW step, NEW m \in Nat, NEW n \in Nat, NEW g, NEW h,
         Follows(g, a, step, m), Follows(h, a, step, n)
  PROVE  \A i \in Nat : i <= m /\ i <= n => g[i] = h[i]
<1> DEFINE T == {i \in Nat : i <= m /\ i <= n => g[i] = h[i]}
<1>1. 0 \in T
  BY 0 \in 0 .. m, 0 \in 0 .. n DEF Follows
<1>2. ASSUME NEW i \in Nat, i \in T PROVE i + 1 \in T
  <2> SUFFICES ASSUME i + 1 <= m, i + 1 <= n PROVE g[i + 1] = h[i + 1]
    OBVIOUS
  <2>1. /\ i + 1 \in 0 .. m /\ i + 1 \in 0 .. n /\ i + 1 # 0 /\ (i + 1) - 1 = i
        /\ i <= m /\ i <= n
    OBVIOUS
  <2>2. g[i] = h[i]
    BY <1>2, <2>1
  <2>3. g[i + 1] = step[<<i + 1, g[i]>>] /\ h[i + 1] = step[<<i + 1, h[i]>>]
    BY <2>1 DEF Follows
  <2> QED
    BY <2>2, <2>3
<1> HIDE DEF T
<1>3. Nat \subseteq T
  BY <1>1, <1>2, Induction
<1> QED
  BY <1>3 DEF T

Recursive(f, a, step) ==
  \A n \in Nat : f[n] = IF n = 0 THEN a ELSE step[<<n, f[n - 1]>>]

(* Definition by recursion.                                                *)
LEMMA Recursion ==
  ASSUME NEW S, NEW a \in S, NEW step \in [Nat \X S -> S]
  PROVE  \E f \in [Nat -> S] : Recursive(f, a, step)
<1> DEFINE Part(n) == CHOOSE g \in [0 .. n -> S] : Follows(g, a, step, n)
           f == [n \in Nat |-> Part(n)[n]]
<1>1. ASSUME NEW n \in Nat
      PROVE  Part(n) \in [0 .. n -> S] /\ Follows(Part(n), a, step, n)
  BY FiniteRecursion
<1> HIDE DEF Part
<1>2. ASSUME NEW n \in Nat PROVE f[n] \in S
  <2>1. n \in 0 .. n
    OBVIOUS
  <2>2. Part(n)[n] \in S
    BY <1>1, <2>1
  <2> QED
    BY <2>2
<1>3. f \in [Nat -> S]
  BY <1>2
<1>4. ASSUME NEW n \in Nat
      PROVE  f[n] = IF n = 0 THEN a ELSE step[<<n, f[n - 1]>>]
  <2>1. n \in 0 .. n
    OBVIOUS
  <2>2. Part(n)[n] = IF n = 0 THEN a ELSE step[<<n, Part(n)[n - 1]>>]
    BY <1>1, <2>1 DEF Follows
  <2>3. ASSUME n # 0 PROVE Part(n)[n - 1] = Part(n - 1)[n - 1]
    <3>1. n - 1 \in Nat /\ n - 1 <= n - 1 /\ n - 1 <= n
      BY <2>3
    <3>2. Follows(Part(n), a, step, n) /\ Follows(Part(n - 1), a, step, n - 1)
      BY <1>1, <3>1
    <3> QED
      BY <3>1, <3>2, FiniteAgree
  <2>4. n # 0 => n - 1 \in Nat
    OBVIOUS
  <2> QED
    BY <2>2, <2>3, <2>4
<1> HIDE DEF f
<1> QED
  BY <1>3, <1>4 DEF Recursive

-----------------------------------------------------------------------------
(* Powers and digits                                                       *)

(* The powers of b.                                                        *)
LEMMA PowersDef ==
  ASSUME NEW b \in Nat \ {0}
  PROVE  /\ PowersOf(b) \in [Nat -> Nat \ {0}]
         /\ PowersOf(b)[0] = 1
         /\ \A n \in Nat : PowersOf(b)[n + 1] = b * PowersOf(b)[n]
<1> DEFINE S == Nat \ {0}
           Power == PowersOf(b)
           step == [x \in Nat \X S |-> b * x[2]]
<1>1. b \in Nat \ {0}
  OBVIOUS
<1>2. step \in [Nat \X S -> S]
  <2>1. \A x \in Nat \X S : b * x[2] \in S
    <3> SUFFICES ASSUME NEW y \in S PROVE b * y \in S
      OBVIOUS
    <3> QED
      BY <1>1
  <2> QED
    BY <2>1
<1>3. 1 \in S
  OBVIOUS
<1> HIDE DEF step
<1>4. PICK f \in [Nat -> S] : Recursive(f, 1, step)
  BY <1>2, <1>3, Recursion
<1>5. \A n \in Nat : f[n] = IF n = 0 THEN 1 ELSE b * f[n - 1]
  <2> SUFFICES ASSUME NEW n \in Nat, n # 0 PROVE step[<<n, f[n - 1]>>] = b * f[n - 1]
    BY <1>4 DEF Recursive
  <2>1. n - 1 \in Nat
    OBVIOUS
  <2>2. <<n, f[n - 1]>> \in Nat \X S
    BY <2>1
  <2> QED
    BY <2>2 DEF step
<1>6. f = [n \in Nat |-> IF n = 0 THEN 1 ELSE b * f[n - 1]]
  BY <1>5
<1>7. Power = [n \in Nat |-> IF n = 0 THEN 1 ELSE b * Power[n - 1]]
  BY <1>6 DEF PowersOf
<1> HIDE DEF Power
<1>8. /\ Power[0] = 1
      /\ \A n \in Nat : Power[n + 1] = b * Power[n]
  <2>1. \A n \in Nat : n + 1 # 0 /\ (n + 1) - 1 = n /\ n + 1 \in Nat
    OBVIOUS
  <2> QED
    BY <1>7, <2>1
<1>9. Nat \subseteq {n \in Nat : Power[n] \in S}
  <2> DEFINE T == {n \in Nat : Power[n] \in S}
  <2>1. 0 \in T
    BY <1>8
  <2>2. ASSUME NEW n \in Nat, n \in T PROVE n + 1 \in T
    <3> DEFINE p == Power[n]
    <3>1. p \in S /\ Power[n + 1] = b * p
      BY <1>8, <2>2
    <3> HIDE DEF p
    <3>2. b * p \in S
      BY <1>1, <3>1
    <3> QED
      BY <3>1, <3>2
  <2> HIDE DEF T
  <2>3. Nat \subseteq T
    BY <2>1, <2>2, Induction
  <2> QED
    BY <2>3 DEF T
<1>10. Power \in [Nat -> S]
  BY <1>7, <1>9
<1> QED
  BY <1>8, <1>10 DEF Power

(* Division with remainder.                                                *)
LEMMA Division ==
  ASSUME NEW n \in Nat, NEW d \in Nat \ {0}
  PROVE  n \div d \in Nat /\ n % d \in 0 .. d - 1 /\ n = d * (n \div d) + (n % d)
<1>1. n \div d \in Nat
  OBVIOUS
<1>2. n % d \in 0 .. d - 1
  OBVIOUS
<1>3. n = d * (n \div d) + (n % d)
  OBVIOUS
<1> QED
  BY <1>1, <1>2, <1>3

(* Quotient and remainder are unique.                                      *)
LEMMA DivisionUnique ==
  ASSUME NEW n \in Nat, NEW d \in Nat \ {0}, NEW q \in Nat, NEW r \in Nat,
         r < d, n = d * q + r
  PROVE  n \div d = q
  OBVIOUS

(* The bigger the dividend, the bigger the quotient.                       *)
LEMMA DivMonotone ==
  ASSUME NEW m \in Nat, NEW n \in Nat, NEW d \in Nat \ {0}, m <= n
  PROVE  m \div d <= n \div d
  OBVIOUS

(* Dividing twice is dividing by the product.                              *)
LEMMA DivTwice ==
  ASSUME NEW n \in Nat, NEW d \in Nat \ {0}, NEW e \in Nat \ {0}
  PROVE  (n \div d) \div e = n \div (e * d)
<1> DEFINE q == n \div d
           p == q \div e
           r == d * (q % e) + (n % d)
<1>1. /\ q \in Nat /\ n % d \in Nat /\ n % d < d /\ n = d * q + (n % d)
      /\ p \in Nat /\ q % e \in Nat /\ q % e < e /\ q = e * p + (q % e)
  <2>1. q \in Nat /\ n % d \in 0 .. d - 1 /\ n = d * q + (n % d)
    BY Division
  <2> HIDE DEF q
  <2>2. q \div e \in Nat /\ q % e \in 0 .. e - 1 /\ q = e * (q \div e) + (q % e)
    BY <2>1, Division
  <2> QED
    BY <2>1, <2>2
<1> DEFINE a == n % d
           b == q % e
<1> HIDE DEF a, b, q, p
<1>2. r \in Nat /\ r < e * d
  <2>1. /\ a \in Nat /\ a < d /\ b \in Nat /\ b + 1 <= e
    BY <1>1 DEF a, b
  <2>2. d * (b + 1) <= d * e
    BY <2>1
  <2>3. d * (b + 1) = d * b + d /\ d * e = e * d /\ d * b \in Nat /\ e * d \in Nat
    BY <2>1
  <2> QED
    BY <2>1, <2>2, <2>3 DEF a, b
<1>3. n = (e * d) * p + r
  <2>1. n = d * q + a /\ q = e * p + b /\ a \in Nat /\ b \in Nat
    BY <1>1 DEF a, b
  <2>2. d * (e * p + b) = (e * d) * p + d * b
    BY <1>1, <2>1
  <2>3. (e * d) * p \in Nat /\ d * b \in Nat
    BY <1>1, <2>1
  <2> QED
    BY <2>1, <2>2, <2>3 DEF a, b
<1>4. e * d \in Nat \ {0}
  OBVIOUS
<1> QED
  BY <1>1, <1>2, <1>3, <1>4, DivisionUnique DEF p, q

(* A remainder is determined by its bounds.                                *)
LEMMA ModUnique ==
  ASSUME NEW n \in Nat, NEW d \in Nat \ {0}, NEW q \in Nat, NEW r \in Nat,
         r < d, n = d * q + r
  PROVE  n % d = r
  OBVIOUS

(* Powers multiply.                                                        *)
LEMMA PowersSum ==
  ASSUME NEW b \in Nat \ {0}, NEW m \in Nat, NEW n \in Nat
  PROVE  PowersOf(b)[m + n] = PowersOf(b)[m] * PowersOf(b)[n]
<1> DEFINE p == PowersOf(b)
           T == {k \in Nat : p[m + k] = p[m] * p[k]}
<1>1. /\ p \in [Nat -> Nat \ {0}] /\ p[0] = 1
      /\ \A k \in Nat : p[k + 1] = b * p[k]
  BY PowersDef
<1> HIDE DEF p
<1>2. 0 \in T
  <2>1. p[m] \in Nat /\ m + 0 = m
    BY <1>1
  <2> QED
    BY <1>1, <2>1
<1>3. ASSUME NEW k \in Nat, k \in T PROVE k + 1 \in T
  <2> DEFINE x == p[m]
             y == p[k]
  <2>1. p[m + k] = x * y /\ x \in Nat /\ y \in Nat
    BY <1>1, <1>3
  <2>2. m + k \in Nat /\ m + (k + 1) = (m + k) + 1
    OBVIOUS
  <2>3. p[(m + k) + 1] = b * p[m + k] /\ p[k + 1] = b * y
    BY <1>1, <2>2
  <2> HIDE DEF x, y
  <2>4. b * (x * y) = x * (b * y)
    BY <2>1
  <2>5. p[m + (k + 1)] = x * p[k + 1]
    BY <2>1, <2>2, <2>3, <2>4
  <2> QED
    BY <2>5 DEF x
<1> HIDE DEF T
<1>4. Nat \subseteq T
  BY <1>2, <1>3, Induction
<1> QED
  BY <1>4 DEF T, p

(* They grow with the exponent.                                            *)
LEMMA PowersGrow ==
  ASSUME NEW b \in Nat \ {0}, NEW m \in Nat, NEW n \in Nat, m <= n
  PROVE  PowersOf(b)[m] <= PowersOf(b)[n]
<1> DEFINE x == PowersOf(b)[m]
           y == PowersOf(b)[n - m]
<1>1. n - m \in Nat /\ m + (n - m) = n
  OBVIOUS
<1>2. x \in Nat \ {0} /\ y \in Nat \ {0}
  BY <1>1, PowersDef
<1>3. PowersOf(b)[n] = x * y
  BY <1>1, PowersSum
<1> HIDE DEF x, y
<1>4. x <= x * y
  BY <1>2
<1> QED
  BY <1>3, <1>4 DEF x
=============================================================================
