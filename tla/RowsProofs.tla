----------------------------- MODULE RowsProofs -----------------------------
(***************************************************************************)
(* Proofs about sanitizers, keys and rows, for every width, base, limit and*)
(* input.                                                                  *)
(***************************************************************************)
EXTENDS RowsProperties, FiniteSetTheorems, SequenceTheorems, PowersProofs

-----------------------------------------------------------------------------
(* Powers and digits                                                       *)

(* The powers of the base.                                                 *)
LEMMA PowerDef ==
  /\ Power \in [Nat -> Nat \ {0}]
  /\ Power[0] = 1
  /\ \A n \in Nat : Power[n + 1] = Base * Power[n]
<1>1. Base \in Nat \ {0}
  BY KeyCodecAssumption
<1> QED
  BY <1>1, PowersDef DEF Power

(* What n is down to its digit i of w.                                     *)
Quot(n, w, i) == n \div Power[w - i]

(* One more digit at a time.                                               *)
LEMMA Quotients ==
  ASSUME NEW n \in Nat, NEW w \in Nat
  PROVE  /\ n < Power[w] => Quot(n, w, 0) = 0
         /\ Quot(n, w, w) = n
         /\ \A i \in 0 .. w : Quot(n, w, i) \in Nat
         /\ \A i \in 1 .. w :
              /\ Quot(n, w, i - 1) = Quot(n, w, i) \div Base
              /\ Quot(n, w, i) = Base * Quot(n, w, i - 1) + (Quot(n, w, i) % Base)
<1>1. Base \in Nat \ {0}
  BY KeyCodecAssumption
<1>2. \A i \in 0 .. w : Power[w - i] \in Nat \ {0}
  BY PowerDef
<1>3. n < Power[w] => Quot(n, w, 0) = 0
  <2> DEFINE p == Power[w]
  <2>1. p \in Nat \ {0} /\ w - 0 = w
    BY PowerDef
  <2> HIDE DEF p
  <2>2. n < p => n \div p = 0
    BY <2>1
  <2> QED
    BY <2>1, <2>2 DEF p, Quot
<1>4. Quot(n, w, w) = n
  <2>1. w - w = 0 /\ n \div 1 = n
    OBVIOUS
  <2> QED
    BY <2>1, PowerDef DEF Quot
<1>5. ASSUME NEW i \in 0 .. w PROVE Quot(n, w, i) \in Nat
  BY <1>2, Division DEF Quot
<1>6. ASSUME NEW i \in 1 .. w
      PROVE  Quot(n, w, i - 1) = Quot(n, w, i) \div Base
  <2>1. w - i \in Nat /\ w - (i - 1) = (w - i) + 1
    OBVIOUS
  <2>2. Power[w - (i - 1)] = Base * Power[w - i] /\ Power[w - i] \in Nat \ {0}
    BY <2>1, PowerDef
  <2> QED
    BY <1>1, <2>2, DivTwice DEF Quot
<1>7. ASSUME NEW i \in 1 .. w
      PROVE  Quot(n, w, i) = Base * Quot(n, w, i - 1) + (Quot(n, w, i) % Base)
  <2>1. Quot(n, w, i) \in Nat
    BY <1>5
  <2> QED
    BY <1>1, <1>6, <2>1, Division
<1> QED
  BY <1>3, <1>4, <1>5, <1>6, <1>7

-----------------------------------------------------------------------------
(* Fixed-width numbers                                                     *)

(* Digits are in order, are no colons, and can be read back.               *)
LEMMA DigitFacts ==
  /\ \A d \in Nat : /\ Digit(d) \in Nat \ {Colon}
                    /\ DigitValue(Digit(d)) = d
  /\ \A d, e \in Nat : d < e => Digit(d) < Digit(e)
  /\ Colon \in Nat
<1>1. Half \in Nat
  BY KeyCodecAssumption
<1> QED
  BY <1>1 DEF Digit, DigitValue, Colon

(* The bytes of a number.                                                  *)
LEMMA HexFacts ==
  ASSUME NEW n \in Nat, NEW w \in Nat
  PROVE  /\ Hex(n, w) \in Seq(Nat)
         /\ Len(Hex(n, w)) = w
         /\ \A i \in 1 .. w : Hex(n, w)[i] \in Nat \ {Colon}
         /\ \A i \in 1 .. w : Hex(n, w)[i] = Digit(Quot(n, w, i) % Base)
         /\ \A i \in 1 .. w : Quot(n, w, i) % Base \in Nat
<1>1. \A i \in 1 .. w : Quot(n, w, i) % Base \in Nat
  <2> SUFFICES ASSUME NEW i \in 1 .. w PROVE Quot(n, w, i) % Base \in Nat
    OBVIOUS
  <2>1. Quot(n, w, i) \in Nat /\ Base \in Nat \ {0}
    BY Quotients, KeyCodecAssumption
  <2> QED
    BY <2>1, Division
<1>2. Hex(n, w) = [i \in 1 .. w |-> Digit(Quot(n, w, i) % Base)]
  BY DEF Hex, Quot
<1>3. \A i \in 1 .. w : Digit(Quot(n, w, i) % Base) \in Nat \ {Colon}
  BY <1>1, DigitFacts
<1>4. Hex(n, w) \in [1 .. w -> Nat]
  BY <1>2, <1>3
<1>5. \A i \in 1 .. w : Hex(n, w)[i] = Digit(Quot(n, w, i) % Base)
  BY <1>2
<1>6. Hex(n, w) \in Seq(Nat) /\ Len(Hex(n, w)) = w
  BY <1>4
<1> QED
  BY <1>1, <1>3, <1>5, <1>6

(* from_str_radix() digit by digit.                                        *)
LEMMA ValueDef ==
  ASSUME NEW digits \in Seq(Nat)
  PROVE  \E v : /\ Value(digits) = v[Len(digits)]
                /\ v[0] = 0
                /\ \A i \in 1 .. Len(digits) :
                     v[i] = v[i - 1] * Base + DigitValue(digits[i])
<1> DEFINE len == Len(digits)
           D(i) == IF i \in 1 .. len THEN DigitValue(digits[i]) ELSE 0
           step == [x \in Nat \X Nat |-> x[2] * Base + D(x[1])]
           Next1(v) == [i \in 0 .. len |->
                          IF i = 0 THEN 0 ELSE v[i - 1] * Base + DigitValue(digits[i])]
<1>1. Base \in Nat /\ len \in Nat
  BY KeyCodecAssumption
<1>2. \A i \in Nat : D(i) \in Nat
  BY KeyCodecAssumption DEF DigitValue
<1>3. step \in [Nat \X Nat -> Nat]
  <2> SUFFICES ASSUME NEW i \in Nat, NEW y \in Nat PROVE y * Base + D(i) \in Nat
    OBVIOUS
  <2>1. y * Base \in Nat
    BY <1>1
  <2>2. D(i) \in Nat
    BY <1>2
  <2> HIDE DEF D
  <2> QED
    BY <2>1, <2>2
<1>4. 0 \in Nat
  OBVIOUS
<1>5. PICK f \in [Nat -> Nat] : Recursive(f, 0, step)
  <2> HIDE DEF step
  <2> QED
    BY <1>3, <1>4, Recursion
<1> DEFINE g == [i \in 0 .. len |-> f[i]]
<1>6. g = Next1(g)
  <2>1. ASSUME NEW i \in 0 .. len
        PROVE  g[i] = IF i = 0 THEN 0 ELSE g[i - 1] * Base + DigitValue(digits[i])
    <3>1. CASE i = 0
      <4>1. 0 \in Nat /\ f[0] = 0
        BY <1>5 DEF Recursive
      <4> QED
        BY <3>1, <4>1
    <3>2. CASE i # 0
      <4>1. i \in Nat /\ i - 1 \in Nat /\ i - 1 \in 0 .. len /\ i \in 1 .. len
        BY <1>1, <3>2
      <4>2. f[i] = step[<<i, f[i - 1]>>]
        BY <1>5, <3>2, <4>1 DEF Recursive
      <4>3. <<i, f[i - 1]>> \in Nat \X Nat
        BY <1>5, <4>1
      <4>4. step[<<i, f[i - 1]>>] = f[i - 1] * Base + D(i)
        BY <4>3
      <4>5. g[i] = f[i] /\ g[i - 1] = f[i - 1]
        BY <4>1
      <4> QED
        BY <3>2, <4>1, <4>2, <4>4, <4>5
    <3> QED
      BY <3>1, <3>2
  <2> HIDE DEF D, step
  <2>2. g = [i \in 0 .. len |-> g[i]]
    OBVIOUS
  <2> HIDE DEF g
  <2> QED
    BY <2>1, <2>2
<1> DEFINE v == CHOOSE u : u = Next1(u)
<1>7. v = Next1(v)
  BY <1>6
<1>8. Value(digits) = v[len]
  BY DEF Value
<1> HIDE DEF v
<1>9. v[0] = 0 /\ \A i \in 1 .. len : v[i] = v[i - 1] * Base + DigitValue(digits[i])
  <2>1. 0 \in 0 .. len
    BY <1>1
  <2>2. ASSUME NEW i \in 1 .. len PROVE i \in 0 .. len /\ i # 0
    BY <1>1
  <2> QED
    BY <1>7, <2>1, <2>2
<1> QED
  BY <1>8, <1>9

(* What was formatted is read back.                                        *)
LEMMA ValueOfHex ==
  ASSUME NEW w \in Nat, NEW n \in Nat, n < Power[w]
  PROVE  Value(Hex(n, w)) = n
<1> DEFINE h == Hex(n, w)
<1>1. /\ h \in Seq(Nat) /\ Len(h) = w
      /\ \A i \in 1 .. w : DigitValue(h[i]) = Quot(n, w, i) % Base
  BY HexFacts, DigitFacts
<1> HIDE DEF h
<1>2. PICK v : /\ Value(h) = v[w] /\ v[0] = 0
               /\ \A i \in 1 .. w : v[i] = v[i - 1] * Base + DigitValue(h[i])
  BY <1>1, ValueDef
<1> DEFINE T == {i \in Nat : i <= w => v[i] = Quot(n, w, i)}
<1>3. 0 \in T
  BY <1>2, Quotients
<1>4. ASSUME NEW i \in Nat, i \in T PROVE i + 1 \in T
  <2> SUFFICES ASSUME i + 1 <= w PROVE v[i + 1] = Quot(n, w, i + 1)
    OBVIOUS
  <2>1. /\ i + 1 \in 1 .. w /\ (i + 1) - 1 = i /\ i <= w /\ i \in 0 .. w
        /\ i + 1 \in 0 .. w
    OBVIOUS
  <2>2. v[i + 1] = Quot(n, w, i) * Base + (Quot(n, w, i + 1) % Base)
    BY <1>1, <1>2, <1>4, <2>1
  <2>3. Quot(n, w, i + 1) = Base * Quot(n, w, i) + (Quot(n, w, i + 1) % Base)
    BY <2>1, Quotients
  <2>4. Quot(n, w, i) \in Nat /\ Base \in Nat
    BY <2>1, Quotients, KeyCodecAssumption
  <2>5. Quot(n, w, i) * Base = Base * Quot(n, w, i)
    BY <2>4
  <2> QED
    BY <2>2, <2>3, <2>5
<1> HIDE DEF T
<1>5. Nat \subseteq T
  BY <1>3, <1>4, Induction
<1>6. w <= w
  OBVIOUS
<1> QED
  BY <1>2, <1>5, <1>6, Quotients DEF T, h

(* a is below b at the first of w places where they differ.                *)
Lower(a, b, w) ==
  \E k \in 1 .. w : (\A i \in 1 .. k - 1 : a[i] = b[i]) /\ a[k] < b[k]

(* Fixed width makes the order of the bytes that of the numbers.           *)
LEMMA HexOrder ==
  ASSUME NEW w \in Nat, NEW m \in Nat, NEW n \in Nat, m < n, n < Power[w]
  PROVE  Lower(Hex(m, w), Hex(n, w), w)
<1> DEFINE D == {i \in 0 .. w : Quot(m, w, i) # Quot(n, w, i)}
<1>1. w \in D
  BY Quotients
<1>2. PICK k \in D : \A i \in D : k <= i
  <2>1. D \in SUBSET Nat
    OBVIOUS
  <2> QED
    BY <1>1, <2>1, Least
<1>3. m < Power[w]
  BY PowerDef
<1>4. k \in 1 .. w
  <2>1. Quot(m, w, 0) = 0 /\ Quot(n, w, 0) = 0
    BY <1>3, Quotients
  <2>2. k # 0
    BY <1>2, <2>1
  <2> QED
    BY <2>2
<1>5. \A i \in 0 .. k - 1 : Quot(m, w, i) = Quot(n, w, i)
  BY <1>2, <1>4
<1>6. ASSUME NEW i \in 1 .. k - 1 PROVE Hex(m, w)[i] = Hex(n, w)[i]
  <2>1. i \in 1 .. w /\ i \in 0 .. k - 1
    BY <1>4
  <2> QED
    BY <1>5, <2>1, HexFacts
<1>7. Quot(m, w, k) < Quot(n, w, k)
  <2>1. Quot(m, w, k) <= Quot(n, w, k)
    <3>1. Power[w - k] \in Nat \ {0} /\ m <= n
      BY <1>4, PowerDef
    <3> QED
      BY <3>1, DivMonotone DEF Quot
  <2>2. Quot(m, w, k) \in Nat /\ Quot(n, w, k) \in Nat
    BY <1>2, Quotients
  <2> QED
    BY <1>2, <2>1, <2>2
<1>8. Quot(m, w, k) % Base < Quot(n, w, k) % Base
  <2> DEFINE q == Base * Quot(m, w, k - 1)
             a == Quot(m, w, k) % Base
             b == Quot(n, w, k) % Base
  <2>1. Quot(m, w, k) = q + a /\ Quot(n, w, k) = q + b
    <3>1. k - 1 \in 0 .. k - 1
      BY <1>4
    <3> QED
      BY <1>4, <1>5, <3>1, Quotients
  <2>2. q \in Nat /\ a \in Nat /\ b \in Nat
    <3>1. Base \in Nat /\ Quot(m, w, k - 1) \in Nat
      BY <1>4, KeyCodecAssumption, Quotients
    <3>2. q \in Nat
      BY <3>1
    <3> QED
      BY <1>4, <3>2, HexFacts
  <2> HIDE DEF q, a, b
  <2>3. q + a < q + b
    BY <1>7, <2>1
  <2>4. a < b
    BY <2>2, <2>3
  <2> QED
    BY <2>4 DEF a, b
<1>9. Hex(m, w)[k] < Hex(n, w)[k]
  <2> DEFINE a == Quot(m, w, k) % Base
             b == Quot(n, w, k) % Base
  <2>1. a \in Nat /\ b \in Nat /\ Hex(m, w)[k] = Digit(a) /\ Hex(n, w)[k] = Digit(b)
    BY <1>4, HexFacts
  <2>2. a < b
    BY <1>8
  <2> HIDE DEF a, b
  <2> QED
    BY <2>1, <2>2, DigitFacts
<1> QED
  BY <1>4, <1>6, <1>9 DEF Lower

(* Equal bytes, equal numbers.                                             *)
LEMMA HexInjective ==
  ASSUME NEW w \in Nat, NEW m \in Nat, NEW n \in Nat,
         m < Power[w], n < Power[w], Hex(m, w) = Hex(n, w)
  PROVE  m = n
  BY ValueOfHex

-----------------------------------------------------------------------------
(* Keys                                                                    *)

(* Concatenation, place by place.                                          *)
Joins(k, a, m, b, n) ==
  /\ k \in Seq(Nat) /\ Len(k) = m + n
  /\ \A i \in 1 .. m : k[i] = a[i]
  /\ \A i \in 1 .. n : k[m + i] = b[i]

(* A concatenation, place by place.                                        *)
LEMMA Joined ==
  ASSUME NEW a \in Seq(Nat), NEW b \in Seq(Nat)
  PROVE  Joins(a \o b, a, Len(a), b, Len(b))
<1>1. Len(a) \in Nat /\ Len(b) \in Nat
  BY LenProperties
<1>2. /\ a \o b \in Seq(Nat)
      /\ Len(a \o b) = Len(a) + Len(b)
  BY ConcatProperties
<1>3. ASSUME NEW i \in 1 .. Len(a) PROVE (a \o b)[i] = a[i]
  OBVIOUS
<1>4. ASSUME NEW i \in 1 .. Len(b) PROVE (a \o b)[Len(a) + i] = b[i]
  OBVIOUS
<1> QED
  BY <1>2, <1>3, <1>4 DEF Joins

(* The places of a key.                                                    *)
Placed(key, ts, sq, metric) ==
  /\ key \in Seq(Nat)
  /\ Len(key) = TsDigits + SeqDigits + 2 + Len(metric)
  /\ \A i \in 1 .. TsDigits : key[i] = Hex(ts, TsDigits)[i]
  /\ key[TsDigits + 1] = Colon
  /\ \A i \in 1 .. SeqDigits : key[TsDigits + 1 + i] = Hex(sq, SeqDigits)[i]
  /\ key[TsDigits + SeqDigits + 2] = Colon
  /\ \A i \in 1 .. Len(metric) : key[TsDigits + SeqDigits + 2 + i] = metric[i]

(* What encode_key() puts where.                                           *)
LEMMA KeyShape ==
  ASSUME NEW ts \in Nat, NEW sq \in Nat, NEW metric \in Seq(Nat)
  PROVE  Placed(EncodeKey(ts, sq, metric), ts, sq, metric)
<1> DEFINE a == Hex(ts, TsDigits)
           b == Hex(sq, SeqDigits)
           c == <<Colon>>
           key == EncodeKey(ts, sq, metric)
           T == TsDigits
           S == SeqDigits
           M == Len(metric)
<1>1. T \in Nat /\ S \in Nat /\ Colon \in Nat /\ M \in Nat
  BY KeyCodecAssumption, DigitFacts
<1>2. a \in Seq(Nat) /\ Len(a) = T /\ b \in Seq(Nat) /\ Len(b) = S
  BY <1>1, HexFacts
<1>3. c \in Seq(Nat) /\ Len(c) = 1 /\ c[1] = Colon
  BY <1>1
<1>4. key = a \o c \o b \o c \o metric
  BY DEF EncodeKey
<1> HIDE DEF a, b, c, T, S, M
<1> DEFINE k1 == a \o c
           k2 == k1 \o b
           k3 == k2 \o c
<1>5. /\ Joins(k1, a, T, c, 1)
      /\ k1 \in Seq(Nat) /\ Len(k1) = T + 1
  <2>1. Joins(k1, a, T, c, 1)
    BY <1>2, <1>3, Joined
  <2> HIDE DEF k1
  <2> QED
    BY <2>1 DEF Joins
<1> HIDE DEF k1
<1>6. /\ Joins(k2, k1, T + 1, b, S)
      /\ k2 \in Seq(Nat) /\ Len(k2) = (T + 1) + S
  <2>1. Joins(k2, k1, T + 1, b, S)
    BY <1>2, <1>5, Joined
  <2> HIDE DEF k2
  <2> QED
    BY <2>1 DEF Joins
<1> HIDE DEF k2
<1>7. /\ Joins(k3, k2, (T + 1) + S, c, 1)
      /\ k3 \in Seq(Nat) /\ Len(k3) = ((T + 1) + S) + 1
  <2>1. Joins(k3, k2, (T + 1) + S, c, 1)
    BY <1>3, <1>6, Joined
  <2> HIDE DEF k3
  <2> QED
    BY <2>1 DEF Joins
<1> HIDE DEF k3
<1> DEFINE p == ((T + 1) + S) + 1
<1>8. Joins(key, k3, p, metric, M)
  <2>1. key = k3 \o metric
    BY <1>4 DEF k1, k2, k3
  <2> HIDE DEF key
  <2>2. M = Len(metric)
    BY DEF M
  <2> QED
    BY <1>7, <2>1, <2>2, Joined
<1> HIDE DEF key
<1>9. \A i \in 1 .. T : key[i] = a[i]
  <2> SUFFICES ASSUME NEW i \in 1 .. T PROVE key[i] = a[i]
    OBVIOUS
  <2>1. i \in 1 .. T + 1 /\ i \in 1 .. (T + 1) + S /\ i \in 1 .. p
    BY <1>1
  <2> QED
    BY <1>5, <1>6, <1>7, <1>8, <2>1 DEF Joins
<1>10. \A i \in 1 .. S : key[T + 1 + i] = b[i]
  <2> SUFFICES ASSUME NEW i \in 1 .. S PROVE key[T + 1 + i] = b[i]
    OBVIOUS
  <2>1. T + 1 + i \in 1 .. (T + 1) + S /\ T + 1 + i \in 1 .. p
    BY <1>1
  <2> QED
    BY <1>6, <1>7, <1>8, <2>1 DEF Joins
<1>11. key[T + 1] = Colon
  <2>1. T + 1 \in 1 .. T + 1 /\ T + 1 \in 1 .. (T + 1) + S /\ T + 1 \in 1 .. p
    BY <1>1
  <2> QED
    BY <1>3, <1>5, <1>6, <1>7, <1>8, <2>1, 1 \in 1 .. 1 DEF Joins
<1>12. key[T + S + 2] = Colon
  <2>1. p \in 1 .. p /\ p = T + S + 2
    BY <1>1
  <2> QED
    BY <1>3, <1>7, <1>8, <2>1, 1 \in 1 .. 1 DEF Joins
<1>13. /\ key \in Seq(Nat)
       /\ Len(key) = T + S + 2 + M
       /\ \A i \in 1 .. M : key[T + S + 2 + i] = metric[i]
  <2>1. p = T + S + 2
    BY <1>1
  <2> QED
    BY <1>8, <2>1 DEF Joins
<1> QED
  BY <1>9, <1>10, <1>11, <1>12, <1>13 DEF Placed, a, b, key, T, S, M

(* The first place where two keys differ decides.                          *)
LEMMA FirstDiffers ==
  ASSUME NEW j \in Seq(Nat), NEW k \in Seq(Nat), NEW p \in Nat \ {0},
         p <= Len(j), p <= Len(k), \A i \in 1 .. p - 1 : j[i] = k[i], j[p] < k[p]
  PROVE  Precedes(j, k)
<1> DEFINE n == p - 1
<1>1. /\ n \in 0 .. Len(j) /\ n < Len(k) /\ \A i \in 1 .. n : j[i] = k[i]
      /\ j[n + 1] < k[n + 1]
  OBVIOUS
<1> QED
  BY <1>1 DEF Precedes

(* Earlier timestamps, smaller keys.                                       *)
LEMMA TimeOrder ==
  ASSUME NEW ts \in Nat, NEW sq \in Nat, NEW metric \in Seq(Nat),
         NEW ts1 \in Nat, NEW sq1 \in Nat, NEW metric1 \in Seq(Nat),
         ts < ts1, ts1 < Power[TsDigits]
  PROVE  Precedes(EncodeKey(ts, sq, metric), EncodeKey(ts1, sq1, metric1))
<1> DEFINE j == EncodeKey(ts, sq, metric)
           k == EncodeKey(ts1, sq1, metric1)
           a == Hex(ts, TsDigits)
           b == Hex(ts1, TsDigits)
<1>1. TsDigits \in Nat /\ SeqDigits \in Nat /\ Len(metric) \in Nat /\ Len(metric1) \in Nat
  BY KeyCodecAssumption
<1>2. Lower(a, b, TsDigits)
  BY <1>1, HexOrder
<1>3. Placed(j, ts, sq, metric) /\ Placed(k, ts1, sq1, metric1)
  BY KeyShape
<1> HIDE DEF j, k
<1>4. /\ j \in Seq(Nat) /\ \A i \in 1 .. TsDigits : j[i] = a[i]
      /\ k \in Seq(Nat) /\ \A i \in 1 .. TsDigits : k[i] = b[i]
  BY <1>3 DEF Placed
<1> HIDE DEF a, b
<1>8. TsDigits <= Len(j) /\ TsDigits <= Len(k)
  <2>1. /\ Len(j) = TsDigits + SeqDigits + 2 + Len(metric)
        /\ Len(k) = TsDigits + SeqDigits + 2 + Len(metric1)
    BY <1>3 DEF Placed
  <2> QED
    BY <1>1, <2>1
<1>5. PICK p \in 1 .. TsDigits : (\A i \in 1 .. p - 1 : a[i] = b[i]) /\ a[p] < b[p]
  BY <1>2 DEF Lower
<1>6. /\ p \in Nat \ {0} /\ p <= Len(j) /\ p <= Len(k)
      /\ j[p] < k[p]
  <2>1. Len(j) \in Nat /\ Len(k) \in Nat
    BY <1>4, LenProperties
  <2>2. p \in Nat \ {0} /\ p <= Len(j) /\ p <= Len(k)
    BY <1>1, <1>8, <2>1
  <2> QED
    BY <1>4, <1>5, <2>2
<1>7. \A i \in 1 .. p - 1 : j[i] = k[i]
  BY <1>1, <1>4, <1>5
<1> QED
  BY <1>4, <1>6, <1>7, FirstDiffers DEF j, k

(* At one timestamp, earlier sequence numbers.                             *)
LEMMA SeqOrder ==
  ASSUME NEW ts \in Nat, NEW sq \in Nat, NEW metric \in Seq(Nat),
         NEW sq1 \in Nat, NEW metric1 \in Seq(Nat), sq < sq1, sq1 < Power[SeqDigits]
  PROVE  Precedes(EncodeKey(ts, sq, metric), EncodeKey(ts, sq1, metric1))
<1> DEFINE j == EncodeKey(ts, sq, metric)
           k == EncodeKey(ts, sq1, metric1)
           a == Hex(sq, SeqDigits)
           b == Hex(sq1, SeqDigits)
<1>1. TsDigits \in Nat /\ SeqDigits \in Nat /\ Len(metric) \in Nat /\ Len(metric1) \in Nat
  BY KeyCodecAssumption
<1>2. Lower(a, b, SeqDigits)
  BY <1>1, HexOrder
<1>3. Placed(j, ts, sq, metric) /\ Placed(k, ts, sq1, metric1)
  BY KeyShape
<1> HIDE DEF j, k
<1>4. /\ j \in Seq(Nat) /\ k \in Seq(Nat)
      /\ \A i \in 1 .. TsDigits : j[i] = k[i]
      /\ j[TsDigits + 1] = k[TsDigits + 1]
  BY <1>3 DEF Placed
<1>9. \A i \in 1 .. SeqDigits : j[TsDigits + 1 + i] = a[i] /\ k[TsDigits + 1 + i] = b[i]
  BY <1>3 DEF Placed
<1> HIDE DEF a, b
<1>10. TsDigits + SeqDigits + 2 <= Len(j) /\ TsDigits + SeqDigits + 2 <= Len(k)
  <2>1. /\ Len(j) = TsDigits + SeqDigits + 2 + Len(metric)
        /\ Len(k) = TsDigits + SeqDigits + 2 + Len(metric1)
    BY <1>3 DEF Placed
  <2> QED
    BY <1>1, <2>1
<1>5. PICK p \in 1 .. SeqDigits : (\A i \in 1 .. p - 1 : a[i] = b[i]) /\ a[p] < b[p]
  BY <1>2 DEF Lower
<1> DEFINE q == TsDigits + 1 + p
<1>6. j[q] < k[q]
  BY <1>5, <1>9
<1>7. q \in Nat \ {0} /\ q <= Len(j) /\ q <= Len(k)
  <2>1. Len(j) \in Nat /\ Len(k) \in Nat
    BY <1>4, LenProperties
  <2> QED
    BY <1>1, <1>10, <2>1
<1>8. ASSUME NEW i \in 1 .. q - 1 PROVE j[i] = k[i]
  <2>1. CASE i <= TsDigits + 1
    <3>1. i \in 1 .. TsDigits \/ i = TsDigits + 1
      BY <1>1, <2>1
    <3> QED
      BY <1>4, <3>1
  <2>2. CASE i > TsDigits + 1
    <3> DEFINE h == i - (TsDigits + 1)
    <3>1. h \in 1 .. p - 1 /\ h \in 1 .. SeqDigits /\ i = TsDigits + 1 + h
      BY <1>1, <2>2
    <3> HIDE DEF h
    <3> QED
      BY <1>5, <1>9, <3>1
  <2> QED
    BY <1>1, <2>1, <2>2
<1> HIDE DEF q
<1> QED
  BY <1>4, <1>6, <1>7, <1>8, FirstDiffers DEF j, k

(* cutoff_prefix() bounds the older keys, and no others.                   *)
LEMMA CutoffOrder ==
  ASSUME NEW ts \in Nat, NEW sq \in Nat, NEW metric \in Seq(Nat), NEW cutoff \in Nat,
         ts < Power[TsDigits], cutoff < Power[TsDigits]
  PROVE  Precedes(EncodeKey(ts, sq, metric), CutoffPrefix(cutoff)) <=> ts < cutoff
<1> DEFINE j == EncodeKey(ts, sq, metric)
           k == Hex(cutoff, TsDigits)
           a == Hex(ts, TsDigits)
<1>1. TsDigits \in Nat /\ SeqDigits \in Nat /\ Len(metric) \in Nat
  BY KeyCodecAssumption
<1>2. Placed(j, ts, sq, metric)
  BY KeyShape
<1>3. CutoffPrefix(cutoff) = k
  BY DEF CutoffPrefix
<1>4. k \in Seq(Nat) /\ Len(k) = TsDigits /\ a \in Seq(Nat) /\ Len(a) = TsDigits
  BY <1>1, HexFacts
<1>5. /\ ts < cutoff => Lower(a, k, TsDigits)
      /\ cutoff < ts => Lower(k, a, TsDigits)
      /\ ts = cutoff => a = k
  BY <1>1, HexOrder
<1> HIDE DEF j
<1>6. j \in Seq(Nat) /\ TsDigits < Len(j) /\ \A i \in 1 .. TsDigits : j[i] = a[i]
  <2>1. Len(j) = TsDigits + SeqDigits + 2 + Len(metric)
    BY <1>2 DEF Placed
  <2>2. TsDigits < Len(j)
    BY <1>1, <2>1
  <2> QED
    BY <1>2, <2>2 DEF Placed
<1> HIDE DEF a, k
<1>7. \A i \in 1 .. TsDigits : a[i] \in Nat /\ k[i] \in Nat
  BY <1>1, <1>4, ElementOfSeq
<1>8. ASSUME ts < cutoff PROVE Precedes(j, k)
  <2>1. PICK p \in 1 .. TsDigits : (\A i \in 1 .. p - 1 : a[i] = k[i]) /\ a[p] < k[p]
    BY <1>5, <1>8 DEF Lower
  <2>2. /\ p \in Nat \ {0} /\ p <= Len(j) /\ p <= Len(k)
        /\ j[p] < k[p]
    <3>1. Len(j) \in Nat
      BY <1>6
    <3>2. p \in Nat \ {0} /\ p <= TsDigits
      BY <1>1
    <3>3. p <= Len(j) /\ p <= Len(k)
      BY <1>1, <1>4, <1>6, <3>1, <3>2
    <3> QED
      BY <1>6, <2>1, <3>2, <3>3
  <2>3. \A i \in 1 .. p - 1 : j[i] = k[i]
    BY <1>1, <1>6, <2>1
  <2> QED
    BY <1>4, <1>6, <2>2, <2>3, FirstDiffers
<1>9. ASSUME Precedes(j, k) PROVE ts < cutoff
  <2>1. PICK n \in 0 .. Len(j) :
          /\ n < Len(k) /\ \A i \in 1 .. n : j[i] = k[i]
          /\ n = Len(j) \/ j[n + 1] < k[n + 1]
    BY <1>9 DEF Precedes
  <2> DEFINE p == n + 1
  <2>2. p \in 1 .. TsDigits /\ n # Len(j)
    BY <1>1, <1>4, <1>6, <2>1
  <2>3. a[p] < k[p]
    BY <1>6, <2>1, <2>2
  <2>4. \A i \in 1 .. p - 1 : a[i] = k[i]
    BY <1>1, <1>6, <2>1, <2>2
  <2> HIDE DEF p
  <2>5. ASSUME ts = cutoff PROVE FALSE
    BY <1>5, <1>7, <2>2, <2>3, <2>5
  <2>6. ASSUME cutoff < ts PROVE FALSE
    <3>1. PICK q \in 1 .. TsDigits : (\A i \in 1 .. q - 1 : k[i] = a[i]) /\ k[q] < a[q]
      BY <1>5, <2>6 DEF Lower
    <3>2. CASE p < q
      <4>1. p \in 1 .. q - 1
        BY <2>2, <3>2
      <4> QED
        BY <1>7, <2>2, <2>3, <3>1, <4>1
    <3>3. CASE p = q
      BY <1>7, <2>2, <2>3, <3>1, <3>3
    <3>4. CASE q < p
      <4>1. q \in 1 .. p - 1
        BY <2>2, <3>1, <3>4
      <4> QED
        BY <1>7, <2>4, <3>1, <4>1
    <3> QED
      BY <2>2, <3>2, <3>3, <3>4
  <2> QED
    BY <2>5, <2>6
<1> QED
  BY <1>3, <1>8, <1>9 DEF j

(* Initial segments of a set of numbers are finite.                        *)
LEMMA UpToFinite ==
  ASSUME NEW S, S \subseteq Nat, NEW n \in Nat
  PROVE  /\ IsFiniteSet({j \in S : j <= n})
         /\ Cardinality({j \in S : j <= n}) \in Nat
<1>1. {j \in S : j <= n} \subseteq 0 .. n
  <2> SUFFICES ASSUME NEW j \in S, j <= n PROVE j \in 0 .. n
    OBVIOUS
  <2>1. j \in Nat
    OBVIOUS
  <2> QED
    BY <2>1
<1>2. IsFiniteSet(0 .. n)
  BY FS_Interval
<1> QED
  BY <1>1, <1>2, FS_Subset, FS_CardinalityType

(* Two and three elements.                                                 *)
LEMMA TwoElements ==
  ASSUME NEW a, NEW b, a # b
  PROVE  IsFiniteSet({a, b}) /\ Cardinality({a, b}) = 2
<1>1. IsFiniteSet({a}) /\ Cardinality({a}) = 1
  BY FS_Singleton
<1>2. {a} \cup {b} = {a, b} /\ b \notin {a}
  OBVIOUS
<1> QED
  BY <1>1, <1>2, FS_AddElement

(* Three elements are three.                                               *)
LEMMA ThreeElements ==
  ASSUME NEW a, NEW b, NEW c, a # b, a # c, b # c
  PROVE  Cardinality({a, b, c}) = 3
<1> DEFINE S == {a, b}
<1>1. S \cup {c} = {a, b, c} /\ c \notin S
  OBVIOUS
<1>2. IsFiniteSet(S) /\ Cardinality(S) = 2
  BY TwoElements
<1> HIDE DEF S
<1>3. Cardinality(S \cup {c}) = 2 + 1
  BY <1>1, <1>2, FS_AddElement
<1> QED
  BY <1>1, <1>3

(* The first of a set.                                                     *)
LEMMA FirstOf ==
  ASSUME NEW S, S \subseteq Nat, NEW m \in S, \A i \in S : m <= i
  PROVE  Nth(1, S) = m
<1>1. Cardinality({j \in S : j <= m}) = 1
  <2>1. ASSUME NEW j \in S PROVE j <= m <=> j = m
    <3>1. j \in Nat /\ m \in Nat /\ m <= j
      OBVIOUS
    <3> QED
      BY <3>1
  <2>2. {j \in S : j <= m} = {m}
    BY <2>1
  <2> QED
    BY <2>2, FS_Singleton
<1>2. ASSUME NEW i \in S, Cardinality({j \in S : j <= i}) = 1 PROVE i = m
  <2>1. i \in Nat /\ i <= i /\ m <= i
    OBVIOUS
  <2>2. PICK x : {j \in S : j <= i} = {x}
    BY <1>2, <2>1, UpToFinite, FS_Singleton
  <2>3. i \in {j \in S : j <= i} /\ m \in {j \in S : j <= i}
    BY <2>1
  <2> QED
    BY <2>2, <2>3
<1> QED
  BY <1>1, <1>2 DEF Nth

(* The second of a set.                                                    *)
LEMMA SecondOf ==
  ASSUME NEW S, S \subseteq Nat, NEW m \in S, NEW n \in S, m < n,
         \A i \in S : i = m \/ n <= i
  PROVE  Nth(2, S) = n
<1> DEFINE U(i) == {j \in S : j <= i}
<1>1. m \in Nat /\ n \in Nat /\ \A i \in S : i \in Nat
  OBVIOUS
<1>2. Cardinality(U(n)) = 2
  <2>1. ASSUME NEW j \in S PROVE j <= n <=> j \in {m, n}
    BY <1>1
  <2>2. U(n) = {m, n}
    BY <2>1
  <2>3. m # n
    BY <1>1
  <2> HIDE DEF U
  <2> QED
    BY <2>2, <2>3, TwoElements
<1>3. ASSUME NEW i \in S, Cardinality(U(i)) = 2, i # n PROVE FALSE
  <2>1. CASE i = m
    <3>1. ASSUME NEW j \in S PROVE j <= i <=> j = m
      BY <1>1, <2>1
    <3>2. U(i) = {m}
      BY <2>1, <3>1
    <3> HIDE DEF U
    <3>3. Cardinality(U(i)) = 1
      BY <3>2, FS_Singleton
    <3> QED
      BY <1>3, <3>3
  <2>2. CASE i # m
    <3>1. n < i /\ m # n /\ m # i
      BY <1>1, <1>3, <2>2
    <3>2. {m, n, i} \subseteq U(i)
      BY <1>1, <3>1
    <3>3. IsFiniteSet(U(i)) /\ Cardinality(U(i)) \in Nat
      BY <1>1, UpToFinite
    <3>4. Cardinality({m, n, i}) = 3
      BY <1>3, <3>1, ThreeElements
    <3> HIDE DEF U
    <3>5. Cardinality({m, n, i}) <= Cardinality(U(i))
      BY <3>2, <3>3, FS_Subset
    <3> QED
      BY <1>3, <3>4, <3>5
  <2> QED
    BY <2>1, <2>2
<1> QED
  BY <1>2, <1>3 DEF Nth

(* A piece of a sequence.                                                  *)
LEMMA Slice ==
  ASSUME NEW s \in Seq(Nat), NEW m \in Nat, NEW n \in Nat, m + n <= Len(s)
  PROVE  /\ SubSeq(s, m + 1, m + n) \in Seq(Nat)
         /\ Len(SubSeq(s, m + 1, m + n)) = n
         /\ \A i \in 1 .. n : SubSeq(s, m + 1, m + n)[i] = s[m + i]
<1>1. Len(s) \in Nat
  BY LenProperties
<1>2. \A i \in m + 1 .. m + n : s[i] \in Nat
  BY <1>1, ElementOfSeq
<1>3. m + 1 \in Int /\ m + n \in Int /\ (m + n) - (m + 1) + 1 = n
  OBVIOUS
<1>4. /\ SubSeq(s, m + 1, m + n) \in Seq(Nat)
      /\ Len(SubSeq(s, m + 1, m + n)) =
           IF m + 1 <= m + n THEN (m + n) - (m + 1) + 1 ELSE 0
      /\ \A i \in 1 .. (m + n) - (m + 1) + 1 :
           SubSeq(s, m + 1, m + n)[i] = s[(m + 1) + i - 1]
  BY <1>2, <1>3, SubSeqProperties
<1>5. \A i \in 1 .. n : (m + 1) + i - 1 = m + i
  OBVIOUS
<1>6. (IF m + 1 <= m + n THEN n ELSE 0) = n
  OBVIOUS
<1> QED
  BY <1>3, <1>4, <1>5, <1>6

(* decode_key() inverts encode_key(), whatever colons the name has.        *)
LEMMA Decode ==
  ASSUME NEW ts \in Nat, NEW sq \in Nat, NEW metric \in Seq(Nat), ts < Power[TsDigits]
  PROVE  DecodeKey(EncodeKey(ts, sq, metric)) = <<ts, metric>>
<1> DEFINE key == EncodeKey(ts, sq, metric)
           T == TsDigits
           S == SeqDigits
           M == Len(metric)
<1>1. T \in Nat /\ S \in Nat /\ M \in Nat
  BY KeyCodecAssumption, LenProperties
<1>2. Placed(key, ts, sq, metric)
  BY KeyShape
<1>3. DecodeKey(key) = <<Value(SubSeq(key, 1, Nth(1, Colons(key)) - 1)),
                         SubSeq(key, Nth(2, Colons(key)) + 1, Len(key))>>
  BY DEF DecodeKey
<1> HIDE DEF key
<1>4. /\ key \in Seq(Nat) /\ Len(key) = T + S + 2 + M
      /\ DOMAIN key = 1 .. T + S + 2 + M
  BY <1>2, LenProperties DEF Placed
<1> DEFINE a == T + 1
           b == T + S + 2
<1>5. a \in Colons(key) /\ b \in Colons(key) /\ a < b
  <2>1. a \in 1 .. T + S + 2 + M /\ b \in 1 .. T + S + 2 + M /\ a < b
    BY <1>1
  <2>2. key[a] = Colon /\ key[b] = Colon
    BY <1>2 DEF Placed
  <2> QED
    BY <1>4, <2>1, <2>2 DEF Colons
<1>6. ASSUME NEW i \in Colons(key) PROVE i = a \/ b <= i
  <2>1. i \in 1 .. T + S + 2 + M /\ key[i] = Colon
    BY <1>4 DEF Colons
  <2>2. i \notin 1 .. T
    <3> SUFFICES ASSUME i \in 1 .. T PROVE FALSE
      OBVIOUS
    <3>1. key[i] = Hex(ts, T)[i]
      BY <1>2 DEF Placed
    <3> QED
      BY <1>1, <2>1, <3>1, HexFacts
  <2>3. ASSUME i > a, i < b PROVE FALSE
    <3> DEFINE h == i - a
    <3>1. h \in 1 .. S /\ i = T + 1 + h
      BY <1>1, <2>1, <2>3
    <3> HIDE DEF h
    <3>2. key[i] = Hex(sq, S)[h]
      BY <1>2, <3>1 DEF Placed
    <3>3. Hex(sq, S)[h] # Colon
      BY <1>1, <3>1, HexFacts
    <3> QED
      BY <2>1, <3>2, <3>3
  <2> QED
    BY <1>1, <2>1, <2>2, <2>3
<1>7. Colons(key) \subseteq Nat
  BY <1>1, <1>4 DEF Colons
<1>8. Nth(1, Colons(key)) = a /\ Nth(2, Colons(key)) = b
  <2>1. \A i \in Colons(key) : a <= i
    BY <1>1, <1>5, <1>6, <1>7
  <2> HIDE DEF a, b
  <2> QED
    BY <1>5, <1>6, <1>7, <2>1, FirstOf, SecondOf
<1>9. SubSeq(key, 1, a - 1) = Hex(ts, T)
  <2> DEFINE u == SubSeq(key, 1, T)
  <2>1. u \in Seq(Nat) /\ Len(u) = T /\ \A i \in 1 .. T : u[i] = key[i]
    <3>1. 0 + T <= Len(key) /\ 0 + T = T /\ 0 + 1 = 1 /\ \A i \in 1 .. T : 0 + i = i
      BY <1>1, <1>4
    <3>2. /\ SubSeq(key, 0 + 1, 0 + T) \in Seq(Nat)
          /\ Len(SubSeq(key, 0 + 1, 0 + T)) = T
          /\ \A i \in 1 .. T : SubSeq(key, 0 + 1, 0 + T)[i] = key[0 + i]
      BY <1>1, <1>4, <3>1, Slice
    <3> QED
      BY <3>1, <3>2
  <2>2. Hex(ts, T) \in Seq(Nat) /\ Len(Hex(ts, T)) = T
    BY <1>1, HexFacts
  <2>3. \A i \in 1 .. T : u[i] = Hex(ts, T)[i]
    BY <1>2, <2>1 DEF Placed
  <2>4. a - 1 = T
    BY <1>1
  <2> HIDE DEF u
  <2>5. u = Hex(ts, T)
    BY <2>1, <2>2, <2>3, SeqEqual
  <2> QED
    BY <2>4, <2>5 DEF u
<1>10. SubSeq(key, b + 1, Len(key)) = metric
  <2> DEFINE u == SubSeq(key, b + 1, b + M)
  <2>2. Len(key) = b + M /\ b \in Nat /\ b + M <= Len(key)
    BY <1>1, <1>4
  <2>1. u \in Seq(Nat) /\ Len(u) = M /\ \A i \in 1 .. M : u[i] = key[b + i]
    <3>1. key \in Seq(Nat) /\ b \in Nat /\ M \in Nat /\ b + M <= Len(key)
      BY <1>1, <1>4, <2>2
    <3> HIDE DEF b, M
    <3> QED
      BY <3>1, Slice
  <2>3. \A i \in 1 .. M : u[i] = metric[i]
    BY <1>2, <2>1 DEF Placed
  <2> HIDE DEF u
  <2>4. u = metric
    BY <2>1, <2>3, SeqEqual
  <2> QED
    BY <2>2, <2>4 DEF u
<1>11. Value(Hex(ts, T)) = ts
  BY <1>1, ValueOfHex
<1> QED
  BY <1>3, <1>8, <1>9, <1>10, <1>11 DEF key

-----------------------------------------------------------------------------
(* The state                                                               *)

Turn == Power[SeqDigits]

Row == [time : Times, sample : Samples, seq : 0 .. Turn - 1, run : Nat,
        key : Seq(Nat),
        payload : {EncodeValue(MetricEntry(s, t)) : s \in Samples, t \in Times}]

Typed ==
  /\ name \in Seq(Chars)
  /\ labels \in Seq([key : Seq(Chars), value : Seq(Chars)])
  /\ rows \in Seq(Row) /\ seq \in 0 .. Turn - 1 /\ run \in Nat

(* Every row is under the key and with the payload of its observation.     *)
Encoded ==
  \A i \in DOMAIN rows :
    /\ rows[i].key = EncodeKey(EntryMicros(rows[i].time), rows[i].seq,
                               NameBytes(SanitizeName(rows[i].sample.name)))
    /\ rows[i].payload = EncodeValue(MetricEntry(rows[i].sample, rows[i].time))

(* Within one run of the process the sequence numbers count.               *)
Counted ==
  /\ \A i \in DOMAIN rows :
       /\ rows[i].run <= run
       /\ rows[i].run = run => seq = (rows[i].seq + (Len(rows) + 1 - i)) % Turn
  /\ \A i, j \in DOMAIN rows :
       i < j /\ rows[i].run = rows[j].run =>
         rows[j].seq = (rows[i].seq + (j - i)) % Turn

(* A key holds the last row that was inserted under it.                    *)
Held ==
  \A i \in DOMAIN rows :
    /\ rows[i].key \in DOMAIN store
    /\ store[rows[i].key] \in i .. Len(rows)
    /\ rows[store[rows[i].key]].key = rows[i].key

RowsInv == Typed /\ Encoded /\ Counted /\ Held

(* Sequence numbers turn over at a positive number.                        *)
LEMMA TurnType == Turn \in Nat \ {0}
<1>1. SeqDigits \in Nat
  BY KeyCodecAssumption
<1> QED
  BY <1>1, PowerDef DEF Turn

(* entry_micros() fits the digits of a timestamp.                          *)
LEMMA EntryType ==
  ASSUME NEW t \in Int
  PROVE  EntryMicros(t) \in Nat /\ EntryMicros(t) < Power[TsDigits]
<1> DEFINE p == Power[TsDigits]
<1>1. TsDigits \in Nat /\ p \in Nat \ {0}
  BY KeyCodecAssumption, PowerDef
<1> HIDE DEF p
<1>2. EntryMicros(t) = IF t < 0 THEN 0 ELSE IF t < p THEN t ELSE p - 1
  BY DEF EntryMicros, p
<1>3. EntryMicros(t) \in Nat /\ EntryMicros(t) < p
  BY <1>1, <1>2
<1> QED
  BY <1>3 DEF p

(* sanitize_metric_name() returns a string, and only valid names.          *)
LEMMA SanitizeNameFacts ==
  ASSUME NEW s \in Seq(Chars)
  PROVE  /\ SanitizeName(s) \in Seq(Chars)
         /\ IsName(SanitizeName(s))
         /\ IsName(s) => SanitizeName(s) = s
<1>1. CASE s = <<>>
  <2>1. SanitizeName(s) = Unnamed
    BY <1>1 DEF SanitizeName
  <2>2. Unnamed \in Seq(Chars) /\ Len(Unnamed) = 8 /\ DOMAIN Unnamed = 1 .. 8
    BY DEF Unnamed, Chars
  <2>3. Unnamed[1] = "under" /\ \A i \in 2 .. 8 : Unnamed[i] = "alpha"
    BY DEF Unnamed
  <2>4. IsName(Unnamed)
    BY <2>2, <2>3 DEF IsName, First, Later
  <2>5. ~IsName(s)
    BY <1>1 DEF IsName
  <2> QED
    BY <1>1, <2>1, <2>2, <2>4, <2>5
<1>2. CASE s # <<>>
  <2> DEFINE u == [i \in DOMAIN s |-> IF s[i] \in Allowed(i) THEN s[i] ELSE "under"]
  <2>1. SanitizeName(s) = u
    BY <1>2 DEF SanitizeName
  <2>2. DOMAIN s = 1 .. Len(s) /\ Len(s) \in Nat /\ Len(s) # 0
    BY <1>2
  <2>3. \A i \in DOMAIN s : s[i] \in Chars
    BY <2>2
  <2>4. \A i \in DOMAIN s : u[i] \in Chars /\ u[i] \in Allowed(i)
    BY <2>3 DEF Chars, Allowed, First, Later
  <2>5. u \in [1 .. Len(s) -> Chars] /\ DOMAIN u = 1 .. Len(s)
    BY <2>2, <2>4
  <2>6. IsName(s) => u = s
    <3> SUFFICES ASSUME IsName(s), NEW i \in DOMAIN s PROVE s[i] \in Allowed(i)
      BY <2>2, <2>5, SeqEqual
    <3> QED
      BY <2>2 DEF IsName, Allowed
  <2> HIDE DEF u
  <2>7. u \in Seq(Chars) /\ Len(u) = Len(s)
    BY <2>2, <2>5
  <2>8. IsName(u)
    BY <2>2, <2>4, <2>5, <2>7 DEF IsName, Allowed, First, Later
  <2> QED
    BY <1>2, <2>1, <2>6, <2>7, <2>8
<1> QED
  BY <1>1, <1>2

(* A name as bytes.                                                        *)
LEMMA NameBytesType ==
  ASSUME NEW s \in Seq(Chars)
  PROVE  NameBytes(s) \in Seq(Nat)
<1>1. DOMAIN s = 1 .. Len(s) /\ Len(s) \in Nat
  OBVIOUS
<1>2. \A c \in Chars : Byte(c) \in Nat
  <2>1. Base \in Nat /\ Digit(0) \in Nat /\ Colon \in Nat
    BY KeyCodecAssumption, DigitFacts
  <2> QED
    BY <2>1 DEF Byte
<1>3. NameBytes(s) \in [1 .. Len(s) -> Nat]
  BY <1>1, <1>2 DEF NameBytes
<1> QED
  BY <1>1, <1>3

(* Counting on from a remainder.                                           *)
LEMMA ModNext ==
  ASSUME NEW a \in Nat, NEW p \in Nat \ {0}
  PROVE  ((a % p) + 1) % p = (a + 1) % p
<1> DEFINE q == a \div p
           r == a % p
<1>1. q \in Nat /\ r \in 0 .. p - 1 /\ a = p * q + r
  BY Division
<1> HIDE DEF q, r
<1>2. p * q \in Nat /\ p * (q + 1) = p * q + p
  BY <1>1
<1>3. CASE r + 1 < p
  <2>1. a + 1 = p * q + (r + 1) /\ a + 1 \in Nat /\ r + 1 \in Nat
    BY <1>1, <1>2
  <2>2. (a + 1) % p = r + 1
    BY <1>1, <1>3, <2>1, ModUnique
  <2>3. (r + 1) % p = r + 1
    BY <1>1, <1>3
  <2> QED
    BY <2>2, <2>3 DEF r
<1>4. CASE r + 1 = p
  <2>1. a + 1 = p * (q + 1) + 0 /\ a + 1 \in Nat /\ q + 1 \in Nat /\ 0 < p
    BY <1>1, <1>2, <1>4
  <2>2. (a + 1) % p = 0
    BY <2>1, ModUnique
  <2>3. p % p = 0
    OBVIOUS
  <2> QED
    BY <1>4, <2>2, <2>3 DEF r
<1> QED
  BY <1>1, <1>3, <1>4

(* Only a full turn comes back to the same number.                         *)
LEMMA ModTurn ==
  ASSUME NEW p \in Nat \ {0}, NEW a \in 0 .. p - 1, NEW d \in Nat \ {0},
         (a + d) % p = a
  PROVE  d >= p
  OBVIOUS

(* It holds of an empty store.                                             *)
LEMMA RowsInit == Init => RowsInv
<1> SUFFICES ASSUME Init PROVE RowsInv
  OBVIOUS
<1>1. name = <<>> /\ labels = <<>> /\ rows = <<>> /\ seq = 0 /\ run = 0
  BY DEF Init
<1>2. seq \in 0 .. Turn - 1
  BY <1>1, TurnType
<1>3. DOMAIN rows = {}
  BY <1>1
<1>4. Typed
  BY <1>1, <1>2 DEF Typed
<1> QED
  BY <1>3, <1>4 DEF RowsInv, Encoded, Counted, Held

(* What an insert appends.                                                 *)
NewRow(t, s) ==
  [time |-> t, sample |-> s, seq |-> seq, run |-> run,
   key |-> EncodeKey(EntryMicros(t), seq, NameBytes(SanitizeName(s.name))),
   payload |-> EncodeValue(MetricEntry(s, t))]

(* The row an insert appends is a row.                                     *)
LEMMA NewRowType ==
  ASSUME Typed, NEW t \in Times, NEW s \in Samples
  PROVE  NewRow(t, s) \in Row
<1>1. t \in Int /\ s.name \in Seq(Chars)
  BY RowsAssumption
<1>2. seq \in Nat /\ seq \in 0 .. Turn - 1 /\ run \in Nat
  BY TurnType DEF Typed
<1>3. NameBytes(SanitizeName(s.name)) \in Seq(Nat)
  BY <1>1, SanitizeNameFacts, NameBytesType
<1>4. EncodeKey(EntryMicros(t), seq, NameBytes(SanitizeName(s.name))) \in Seq(Nat)
  BY <1>1, <1>2, <1>3, EntryType, KeyShape DEF Placed
<1> QED
  BY <1>2, <1>4 DEF NewRow, Row

(* An insert, with its row named.                                          *)
LEMMA InsertIs ==
  ASSUME Insert
  PROVE  \E t \in Times, s \in Samples :
           /\ rows' = Append(rows, NewRow(t, s))
           /\ store' = [k \in DOMAIN store \cup {NewRow(t, s).key} |->
                          IF k = NewRow(t, s).key THEN Len(rows) + 1 ELSE store[k]]
           /\ seq' = NextSeq(seq) /\ name' = name /\ labels' = labels /\ run' = run
<1>1. PICK t \in Times, s \in Samples :
        LET entry == MetricEntry(s, t)
            key == EncodeKey(EntryMicros(t), seq, NameBytes(entry.name))
        IN /\ rows' = Append(rows, [time |-> t, sample |-> s, seq |-> seq,
                                    run |-> run, key |-> key,
                                    payload |-> EncodeValue(entry)])
           /\ store' = [k \in DOMAIN store \cup {key} |->
                          IF k = key THEN Len(rows) + 1 ELSE store[k]]
  BY DEF Insert
<1>2. MetricEntry(s, t).name = SanitizeName(s.name)
  BY DEF MetricEntry
<1>3. seq' = NextSeq(seq) /\ name' = name /\ labels' = labels /\ run' = run
  BY DEF Insert, input
<1> QED
  BY <1>1, <1>2, <1>3 DEF NewRow

(* The fields of a stored row.                                             *)
LEMMA RowFields ==
  ASSUME Typed, NEW i \in DOMAIN rows
  PROVE  /\ rows[i].time \in Times /\ rows[i].sample \in Samples
         /\ rows[i].seq \in Nat /\ rows[i].seq \in 0 .. Turn - 1
         /\ rows[i].run \in Nat /\ rows[i].key \in Seq(Nat)
<1>1. rows \in Seq(Row)
  BY DEF Typed
<1>2. rows[i] \in Row
  BY <1>1
<1>3. /\ rows[i].time \in Times /\ rows[i].sample \in Samples
      /\ rows[i].seq \in 0 .. Turn - 1
      /\ rows[i].run \in Nat /\ rows[i].key \in Seq(Nat)
  BY <1>2 DEF Row
<1> QED
  BY <1>3, TurnType

(* Distances to the next place.                                            *)
LEMMA NextPlace ==
  ASSUME NEW a \in Nat, NEW n \in Nat, NEW i \in Nat, i <= n
  PROVE  /\ a + (n + 1 - i) \in Nat
         /\ (a + (n + 1 - i)) + 1 = a + ((n + 1) + 1 - i)
  OBVIOUS

(* Every step preserves it.                                                *)
LEMMA RowsStep == RowsInv /\ [Next]_vars => RowsInv'
<1> SUFFICES ASSUME RowsInv, [Next]_vars PROVE RowsInv'
  OBVIOUS
<1>1. Typed /\ Encoded /\ Counted /\ Held
  BY DEF RowsInv
<1>2. CASE UNCHANGED vars
  <2>1. UNCHANGED <<name, labels, rows, store, seq, run>>
    BY <1>2 DEF vars, input
  <2> QED
    BY <1>1, <2>1 DEF RowsInv, Typed, Encoded, Counted, Held
<1>3. CASE GrowName
  <2>1. /\ UNCHANGED <<labels, rows, store, seq, run>>
        /\ \E c \in Chars : name' = Append(name, c)
    BY <1>3 DEF GrowName
  <2>2. name' \in Seq(Chars)
    BY <1>1, <2>1 DEF Typed
  <2> QED
    BY <1>1, <2>1, <2>2 DEF RowsInv, Typed, Encoded, Counted, Held
<1>4. CASE GrowLabels
  <2>1. /\ UNCHANGED <<name, rows, store, seq, run>>
        /\ \E k \in LabelKeys, v \in LabelValues :
             labels' = Append(labels, [key |-> k, value |-> v])
    BY <1>4 DEF GrowLabels
  <2> DEFINE P == [key : Seq(Chars), value : Seq(Chars)]
  <2>2. \A k \in LabelKeys, v \in LabelValues : [key |-> k, value |-> v] \in P
    BY RowsAssumption
  <2>3. labels \in Seq(P)
    BY <1>1 DEF Typed
  <2>4. labels' \in Seq(P)
    <3>1. PICK p \in P : labels' = Append(labels, p)
      BY <2>1, <2>2
    <3> HIDE DEF P
    <3> QED
      BY <2>3, <3>1
  <2> QED
    BY <1>1, <2>1, <2>4 DEF RowsInv, Typed, Encoded, Counted, Held
<1>5. CASE Insert
  <2>1. PICK t \in Times, s \in Samples :
          /\ rows' = Append(rows, NewRow(t, s))
          /\ store' = [k \in DOMAIN store \cup {NewRow(t, s).key} |->
                         IF k = NewRow(t, s).key THEN Len(rows) + 1 ELSE store[k]]
          /\ seq' = NextSeq(seq) /\ name' = name /\ labels' = labels /\ run' = run
    BY <1>5, InsertIs
  <2> DEFINE n == Len(rows) + 1
             r == NewRow(t, s)
  <2>2. r \in Row
    BY <1>1, NewRowType
  <2>3. /\ r.seq = seq /\ r.run = run /\ r.time = t /\ r.sample = s
        /\ r.key = EncodeKey(EntryMicros(t), seq, NameBytes(SanitizeName(s.name)))
        /\ r.payload = EncodeValue(MetricEntry(s, t))
    BY DEF NewRow
  <2> HIDE DEF r
  <2>4. rows \in Seq(Row) /\ Len(rows) \in Nat /\ DOMAIN rows = 1 .. Len(rows)
    BY <1>1, LenProperties DEF Typed
  <2>5. /\ rows' \in Seq(Row) /\ Len(rows') = n /\ DOMAIN rows' = 1 .. n
        /\ \A i \in 1 .. Len(rows) : rows'[i] = rows[i]
        /\ rows'[n] = r
    BY <2>1, <2>2, <2>4, AppendProperties DEF r
  <2>6. seq \in Nat /\ seq' = (seq + 1) % Turn /\ Turn \in Nat \ {0}
    BY <1>1, <2>1, TurnType DEF Typed, NextSeq, Turn
  <2>7. /\ \A i \in DOMAIN rows : rows[i].run \in Nat /\ rows[i].seq \in Nat
        /\ run \in Nat
    BY <1>1, RowFields DEF Typed
  <2>8. Typed'
    <3>1. seq' \in 0 .. Turn - 1
      BY <2>6
    <3> QED
      BY <1>1, <2>1, <2>5, <3>1 DEF Typed
  <2>9. Encoded'
    <3> SUFFICES ASSUME NEW i \in 1 .. n
                 PROVE  /\ rows'[i].key =
                             EncodeKey(EntryMicros(rows'[i].time), rows'[i].seq,
                                       NameBytes(SanitizeName(rows'[i].sample.name)))
                        /\ rows'[i].payload =
                             EncodeValue(MetricEntry(rows'[i].sample, rows'[i].time))
      BY <2>5 DEF Encoded
    <3>1. CASE i \in 1 .. Len(rows)
      BY <1>1, <2>4, <2>5, <3>1 DEF Encoded
    <3>2. CASE i = n
      BY <2>3, <2>5, <3>2
    <3> QED
      BY <2>4, <3>1, <3>2
  <2>10. Counted'
    <3>1. ASSUME NEW i \in 1 .. n
          PROVE  /\ rows'[i].run <= run'
                 /\ rows'[i].run = run' => seq' = (rows'[i].seq + (n + 1 - i)) % Turn
      <4>1. CASE i \in 1 .. Len(rows)
        <5>1. rows'[i] = rows[i] /\ rows[i].run <= run'
          BY <1>1, <2>1, <2>4, <2>5, <4>1 DEF Counted
        <5>2. ASSUME rows[i].run = run
              PROVE  seq' = (rows[i].seq + (n + 1 - i)) % Turn
          <6> DEFINE a == rows[i].seq + (Len(rows) + 1 - i)
          <6>1. seq = a % Turn
            BY <1>1, <2>4, <4>1, <5>2 DEF Counted
          <6>2. a \in Nat /\ a + 1 = rows[i].seq + (n + 1 - i)
            <7>1. i \in Nat /\ i <= Len(rows) /\ Len(rows) \in Nat /\ rows[i].seq \in Nat
              BY <2>4, <2>7, <4>1
            <7>2. /\ rows[i].seq + (Len(rows) + 1 - i) \in Nat
                  /\ (rows[i].seq + (Len(rows) + 1 - i)) + 1 =
                       rows[i].seq + ((Len(rows) + 1) + 1 - i)
              BY <7>1, NextPlace
            <7> QED
              BY <7>2
          <6> HIDE DEF a
          <6>3. ((a % Turn) + 1) % Turn = (a + 1) % Turn
            BY <2>6, <6>2, ModNext
          <6> QED
            BY <2>6, <6>1, <6>2, <6>3
        <5> QED
          BY <2>1, <5>1, <5>2
      <4>2. CASE i = n
        <5>1. n + 1 - i = 1
          BY <2>4, <4>2
        <5>2. run <= run
          BY <2>7
        <5> QED
          BY <2>1, <2>3, <2>5, <2>6, <4>2, <5>1, <5>2
      <4> QED
        BY <2>4, <4>1, <4>2
    <3>2. ASSUME NEW i \in 1 .. n, NEW j \in 1 .. n, i < j, rows'[i].run = rows'[j].run
          PROVE  rows'[j].seq = (rows'[i].seq + (j - i)) % Turn
      <4>1. i \in 1 .. Len(rows)
        BY <2>4, <3>2
      <4>2. CASE j \in 1 .. Len(rows)
        BY <1>1, <2>4, <2>5, <3>2, <4>1, <4>2 DEF Counted
      <4>3. CASE j = n
        <5>1. rows[i].run = run
          BY <2>3, <2>5, <3>2, <4>1, <4>3
        <5>2. seq = (rows[i].seq + (Len(rows) + 1 - i)) % Turn
          BY <1>1, <2>4, <4>1, <5>1 DEF Counted
        <5> QED
          BY <2>3, <2>5, <4>1, <4>3, <5>2
      <4> QED
        BY <2>4, <4>2, <4>3
    <3> QED
      BY <2>5, <3>1, <3>2 DEF Counted
  <2>11. Held'
    <3> SUFFICES ASSUME NEW i \in 1 .. n
                 PROVE  /\ rows'[i].key \in DOMAIN store'
                        /\ store'[rows'[i].key] \in i .. n
                        /\ rows'[store'[rows'[i].key]].key = rows'[i].key
      BY <2>5 DEF Held
    <3>1. DOMAIN store' = DOMAIN store \cup {r.key} /\ store'[r.key] = n
      BY <2>1 DEF r
    <3>2. CASE rows'[i].key = r.key
      <4>1. n \in i .. n
        BY <2>4
      <4> QED
        BY <2>5, <3>1, <3>2, <4>1
    <3>3. CASE rows'[i].key # r.key
      <4>1. i \in 1 .. Len(rows)
        BY <2>4, <2>5, <3>3
      <4>2. /\ rows[i].key \in DOMAIN store /\ store[rows[i].key] \in i .. Len(rows)
            /\ rows[store[rows[i].key]].key = rows[i].key
        BY <1>1, <2>4, <4>1 DEF Held
      <4>3. store'[rows[i].key] = store[rows[i].key]
        BY <2>1, <2>5, <3>3, <4>1, <4>2 DEF r
      <4>4. store[rows[i].key] \in i .. n /\ store[rows[i].key] \in 1 .. Len(rows)
        BY <2>4, <4>1, <4>2
      <4> QED
        BY <2>5, <3>1, <4>1, <4>2, <4>3, <4>4
    <3> QED
      BY <3>2, <3>3
  <2> QED
    BY <2>8, <2>9, <2>10, <2>11 DEF RowsInv
<1>6. CASE Restart
  <2>1. /\ UNCHANGED <<name, labels, rows, store>> /\ run' = run + 1 /\ seq' = 0
    BY <1>6 DEF Restart, input
  <2>2. seq' \in 0 .. Turn - 1 /\ run \in Nat /\ run' \in Nat
    BY <1>1, <2>1, TurnType DEF Typed
  <2>3. Typed' /\ Encoded' /\ Held'
    BY <1>1, <2>1, <2>2 DEF Typed, Encoded, Held
  <2>4. Counted'
    <3>1. \A i \in DOMAIN rows : rows[i].run \in Nat
      BY <1>1, RowFields
    <3>2. ASSUME NEW i \in DOMAIN rows PROVE rows[i].run <= run' /\ rows[i].run # run'
      BY <1>1, <2>1, <2>2, <3>1 DEF Counted
    <3> QED
      BY <1>1, <2>1, <3>2 DEF Counted
  <2> QED
    BY <2>3, <2>4 DEF RowsInv
<1> QED
  BY <1>2, <1>3, <1>4, <1>5, <1>6 DEF Next

(* The inductive invariant of the rows holds in every state.               *)
LEMMA RowsInvariant == Spec => []RowsInv
<1> QED
  BY RowsInit, RowsStep, PTL DEF Spec

(* The bytes and the numbers of a stored row.                              *)
LEMMA RowFacts ==
  ASSUME RowsInv, NEW i \in DOMAIN rows
  PROVE  /\ EntryMicros(rows[i].time) \in Nat
         /\ EntryMicros(rows[i].time) < Power[TsDigits]
         /\ rows[i].seq \in Nat /\ rows[i].seq < Power[SeqDigits]
         /\ NameBytes(SanitizeName(rows[i].sample.name)) \in Seq(Nat)
         /\ rows[i].key = EncodeKey(EntryMicros(rows[i].time), rows[i].seq,
                                    NameBytes(SanitizeName(rows[i].sample.name)))
         /\ Exported(rows[i]).ts = Column(EntryMicros(rows[i].time))
         /\ Exported(rows[i]).name = NameBytes(SanitizeName(rows[i].sample.name))
<1> DEFINE ts == EntryMicros(rows[i].time)
           metric == NameBytes(SanitizeName(rows[i].sample.name))
<1>1. Typed /\ Encoded
  BY DEF RowsInv
<1>2. /\ rows[i].time \in Int /\ rows[i].sample.name \in Seq(Chars)
      /\ rows[i].seq \in Nat /\ rows[i].seq \in 0 .. Turn - 1
  BY <1>1, RowFields, RowsAssumption
<1>3. ts \in Nat /\ ts < Power[TsDigits]
  BY <1>2, EntryType
<1>4. rows[i].seq < Power[SeqDigits]
  BY <1>2, TurnType DEF Turn
<1>5. metric \in Seq(Nat)
  BY <1>2, SanitizeNameFacts, NameBytesType
<1>6. rows[i].key = EncodeKey(ts, rows[i].seq, metric)
  BY <1>1 DEF Encoded
<1> HIDE DEF ts, metric
<1>7. DecodeKey(rows[i].key) = <<ts, metric>>
  BY <1>2, <1>3, <1>5, <1>6, Decode
<1>8. Exported(rows[i]).ts = Column(ts) /\ Exported(rows[i]).name = metric
  BY <1>7 DEF Exported
<1> QED
  BY <1>2, <1>3, <1>4, <1>5, <1>6, <1>8 DEF ts, metric

(* A name given to the registry always matches [a-zA-Z_:][a-zA-Z0-9_:]*,   *)
(* and a valid one is not changed, for names of every length               *)
(* (sanitize_metric_name).                                                 *)
THEOREM SanitizedNames == Spec => []NamesValid
<1>1. RowsInv => NamesValid
  BY SanitizeNameFacts DEF RowsInv, Typed, NamesValid
<1> QED
  BY <1>1, RowsInvariant, PTL

(* The wider a timestamp, the wider its column.                            *)
LEMMA ColumnGrows ==
  ASSUME NEW a \in Nat, NEW b \in Nat, a <= b
  PROVE  Column(a) <= Column(b)
<1> DEFINE p == Power[TsDigits]
           m == LastMicros
<1>1. p \in Nat
  BY KeyCodecAssumption, PowerDef
<1>2. m = p \div 2 - 1
  BY DEF LastMicros
<1> HIDE DEF p, m
<1>3. m \in Int
  BY <1>1, <1>2
<1>4. /\ Column(a) = IF a > m THEN m ELSE a
      /\ Column(b) = IF b > m THEN m ELSE b
  BY DEF Column, m
<1> QED
  BY <1>3, <1>4

(* A scan of the hot store meets the rows in the order of time and of      *)
(* sequence number, and the ts column of an export never falls, for every  *)
(* base, width and clock (encode_key, entry_micros, PendingBatch::push).   *)
THEOREM ScanOrder == Spec => []ScanInOrder
<1>1. RowsInv => ScanInOrder
  <2> SUFFICES ASSUME RowsInv, NEW i \in DOMAIN rows, NEW j \in DOMAIN rows,
                      \/ EntryMicros(rows[i].time) < EntryMicros(rows[j].time)
                      \/ /\ EntryMicros(rows[i].time) = EntryMicros(rows[j].time)
                         /\ rows[i].seq < rows[j].seq
               PROVE  /\ Precedes(rows[i].key, rows[j].key)
                      /\ Exported(rows[i]).ts <= Exported(rows[j]).ts
    BY DEF ScanInOrder
  <2> DEFINE ti == EntryMicros(rows[i].time)
             tj == EntryMicros(rows[j].time)
             mi == NameBytes(SanitizeName(rows[i].sample.name))
             mj == NameBytes(SanitizeName(rows[j].sample.name))
  <2>1. /\ ti \in Nat /\ ti < Power[TsDigits] /\ mi \in Seq(Nat)
        /\ rows[i].seq \in Nat /\ rows[i].seq < Power[SeqDigits]
        /\ rows[i].key = EncodeKey(ti, rows[i].seq, mi)
        /\ Exported(rows[i]).ts = Column(ti)
    BY RowFacts
  <2>2. /\ tj \in Nat /\ tj < Power[TsDigits] /\ mj \in Seq(Nat)
        /\ rows[j].seq \in Nat /\ rows[j].seq < Power[SeqDigits]
        /\ rows[j].key = EncodeKey(tj, rows[j].seq, mj)
        /\ Exported(rows[j]).ts = Column(tj)
    BY RowFacts
  <2>3. ti < tj \/ (ti = tj /\ rows[i].seq < rows[j].seq)
    OBVIOUS
  <2> HIDE DEF ti, tj, mi, mj
  <2>4. Precedes(rows[i].key, rows[j].key)
    <3>1. CASE ti < tj
      BY <2>1, <2>2, <3>1, TimeOrder
    <3>2. CASE ti = tj /\ rows[i].seq < rows[j].seq
      BY <2>1, <2>2, <3>2, SeqOrder
    <3> QED
      BY <2>3, <3>1, <3>2
  <2>5. ti <= tj
    BY <2>1, <2>2, <2>3
  <2> QED
    BY <2>1, <2>2, <2>4, <2>5, ColumnGrows
<1> QED
  BY <1>1, RowsInvariant, PTL

(* range(..cutoff_prefix(c)) yields exactly the rows older than c, for     *)
(* every base, width and clock, although ':' sorts among the digits.       *)
THEOREM CutoffIsExact == Spec => []CutoffExact
<1>1. RowsInv => CutoffExact
  <2> SUFFICES ASSUME RowsInv, NEW i \in DOMAIN rows, NEW t \in Times
               PROVE  Precedes(rows[i].key, CutoffPrefix(EntryMicros(t))) <=>
                        EntryMicros(rows[i].time) < EntryMicros(t)
    BY DEF CutoffExact
  <2>1. EntryMicros(t) \in Nat /\ EntryMicros(t) < Power[TsDigits]
    BY RowsAssumption, EntryType
  <2> QED
    BY <2>1, RowFacts, CutoffOrder
<1> QED
  BY <1>1, RowsInvariant, PTL

(* Within one run of the process no row replaces another one before the    *)
(* sequence numbers have turned over, for every width (flush_batch).       *)
THEOREM Overwrites == Spec => []OverwriteNeedsRestart
<1>1. RowsInv => OverwriteNeedsRestart
  <2> SUFFICES ASSUME RowsInv, NEW i \in DOMAIN rows, store[rows[i].key] # i
               PROVE  \E j \in i + 1 .. Len(rows) :
                        /\ rows[j].key = rows[i].key
                        /\ rows[j].run # rows[i].run \/ j - i >= Power[SeqDigits]
    BY DEF OverwriteNeedsRestart
  <2> DEFINE j == store[rows[i].key]
  <2>1. rows \in Seq(Row) /\ Len(rows) \in Nat /\ DOMAIN rows = 1 .. Len(rows)
    BY LenProperties DEF RowsInv, Typed
  <2>2. j \in i .. Len(rows) /\ rows[j].key = rows[i].key
    BY DEF RowsInv, Held
  <2> HIDE DEF j
  <2>3. j \in i + 1 .. Len(rows) /\ j \in DOMAIN rows /\ i < j
    <3>1. j # i
      BY DEF j
    <3> QED
      BY <2>1, <2>2, <3>1
  <2>4. ASSUME rows[j].run = rows[i].run PROVE j - i >= Power[SeqDigits]
    <3>1. rows[j].seq = (rows[i].seq + (j - i)) % Turn
      BY <2>3, <2>4 DEF RowsInv, Counted
    <3>2. rows[j].seq = rows[i].seq
      <4> DEFINE ki == rows[i].key
                 kj == rows[j].key
      <4>1. /\ Placed(ki, EntryMicros(rows[i].time), rows[i].seq,
                      NameBytes(SanitizeName(rows[i].sample.name)))
            /\ rows[i].seq \in Nat /\ rows[i].seq < Power[SeqDigits]
        BY RowFacts, KeyShape
      <4>2. /\ Placed(kj, EntryMicros(rows[j].time), rows[j].seq,
                      NameBytes(SanitizeName(rows[j].sample.name)))
            /\ rows[j].seq \in Nat /\ rows[j].seq < Power[SeqDigits]
        BY <2>3, RowFacts, KeyShape
      <4>3. ki = kj
        BY <2>2
      <4> HIDE DEF ki, kj
      <4> DEFINE a == Hex(rows[i].seq, SeqDigits)
                 b == Hex(rows[j].seq, SeqDigits)
      <4>4. \A k \in 1 .. SeqDigits : a[k] = b[k]
        BY <4>1, <4>2, <4>3 DEF Placed
      <4>5. SeqDigits \in Nat
        BY KeyCodecAssumption
      <4>6. a \in Seq(Nat) /\ b \in Seq(Nat) /\ Len(a) = SeqDigits /\ Len(b) = SeqDigits
        BY <4>1, <4>2, <4>5, HexFacts
      <4>7. a = b
        <5> HIDE DEF a, b
        <5> QED
          BY <4>4, <4>6, SeqEqual
      <4> QED
        BY <4>1, <4>2, <4>5, <4>7, HexInjective
    <3>3. rows[i].seq \in 0 .. Turn - 1 /\ j - i \in Nat \ {0} /\ Turn \in Nat \ {0}
      BY <2>1, <2>3, RowFields, TurnType DEF RowsInv
    <3>4. j - i >= Turn
      BY <3>1, <3>2, <3>3, ModTurn
    <3> QED
      BY <3>4 DEF Turn
  <2> QED
    BY <2>2, <2>3, <2>4
<1> QED
  BY <1>1, RowsInvariant, PTL

-----------------------------------------------------------------------------
(* Labels                                                                  *)

(* trim() leaves nothing only of a blank string.                           *)
LEMMA TrimFacts ==
  ASSUME NEW s \in Seq(Chars)
  PROVE  /\ Trim(s) \in Seq(Chars)
         /\ Trim(s) # <<>> <=> Solid(s) # {}
<1>1. DOMAIN s = 1 .. Len(s) /\ Len(s) \in Nat
  BY LenProperties
<1>2. CASE Solid(s) = {}
  <2>1. Trim(s) = <<>>
    BY <1>2 DEF Trim
  <2> QED
    BY <1>2, <2>1
<1>3. CASE Solid(s) # {}
  <2> DEFINE first == CHOOSE i \in Solid(s) : \A j \in Solid(s) : i <= j
             last == CHOOSE i \in Solid(s) : \A j \in Solid(s) : i >= j
             u == SubSeq(s, first, last)
  <2>1. Solid(s) \in SUBSET Nat /\ \A k \in Solid(s) : k \in 1 .. Len(s) /\ k <= Len(s)
    BY <1>1 DEF Solid
  <2>2. first \in Solid(s) /\ \A j \in Solid(s) : first <= j
    <3>1. \E i \in Solid(s) : \A j \in Solid(s) : i <= j
      BY <1>3, <2>1, Least
    <3> QED
      BY <3>1
  <2>3. last \in Solid(s)
    <3>1. \E i \in Solid(s) : \A j \in Solid(s) : j <= i
      BY <1>1, <1>3, <2>1, Greatest
    <3>2. PICK i \in Solid(s) : \A j \in Solid(s) : j <= i
      BY <3>1
    <3>3. \A j \in Solid(s) : i >= j
      BY <2>1, <3>2
    <3> QED
      BY <3>3
  <2> HIDE DEF first, last
  <2>4. /\ first \in 1 .. Len(s) /\ last \in 1 .. Len(s) /\ first <= last
        /\ first \in Int /\ last \in Int
    BY <1>1, <2>1, <2>2, <2>3
  <2>5. \A i \in first .. last : s[i] \in Chars
    BY <1>1, <2>4, ElementOfSeq
  <2>6. u \in Seq(Chars) /\ Len(u) = last - first + 1
    BY <2>4, <2>5, SubSeqProperties
  <2>7. Len(u) # 0
    BY <1>1, <2>4, <2>6
  <2>8. Trim(s) = u
    BY <1>3 DEF Trim, first, last
  <2> HIDE DEF u
  <2>9. u # <<>>
    BY <2>7
  <2> QED
    BY <1>3, <2>6, <2>8, <2>9
<1> QED
  BY <1>2, <1>3

(* Names have one byte per character.                                      *)
LEMMA NameBytesCount ==
  ASSUME NEW s \in Seq(Chars), \A i \in DOMAIN s : s[i] \in Later
  PROVE  Bytes(s) = Len(s)
<1>1. {i \in DOMAIN s : s[i] = "wide"} = {}
  BY DEF Later, First
<1>2. Cardinality({i \in DOMAIN s : s[i] = "wide"}) = 0
  BY <1>1, FS_EmptySet
<1>3. (Width - 1) * 0 = 0
  BY SanitizeAssumption
<1>4. Len(s) \in Nat
  BY LenProperties
<1> QED
  BY <1>2, <1>3, <1>4 DEF Bytes

(* A name cut after n characters.                                          *)
LEMMA NamePrefix ==
  ASSUME NEW s \in Seq(Chars), \A i \in DOMAIN s : s[i] \in Later, NEW n \in 0 .. Len(s)
  PROVE  /\ Prefix(s, n) \in Seq(Chars) /\ Len(Prefix(s, n)) = n
         /\ \A i \in 1 .. n : Prefix(s, n)[i] = s[i]
         /\ Bytes(Prefix(s, n)) = n
<1> DEFINE u == SubSeq(s, 1, n)
<1>1. Len(s) \in Nat /\ DOMAIN s = 1 .. Len(s) /\ n \in Nat
  BY LenProperties
<1>2. \A i \in 1 .. n : s[i] \in Chars
  BY <1>1, ElementOfSeq
<1>3. 1 \in Int /\ n \in Int /\ n - 1 + 1 = n
  OBVIOUS
<1>4. /\ u \in Seq(Chars) /\ Len(u) = (IF 1 <= n THEN n - 1 + 1 ELSE 0)
      /\ \A i \in 1 .. n - 1 + 1 : u[i] = s[1 + i - 1]
  BY <1>2, <1>3, SubSeqProperties
<1>5. u \in Seq(Chars) /\ Len(u) = n /\ \A i \in 1 .. n : u[i] = s[i]
  BY <1>1, <1>4
<1> HIDE DEF u
<1>6. DOMAIN u = 1 .. n
  BY <1>5, LenProperties
<1>7. \A i \in DOMAIN u : u[i] \in Later
  BY <1>1, <1>5, <1>6
<1>8. Bytes(u) = n
  BY <1>5, <1>7, NameBytesCount
<1> QED
  BY <1>5, <1>8 DEF u, Prefix

(* The key of a label that is kept.                                        *)
LEMMA LabelKeyFacts ==
  ASSUME NEW k \in Seq(Chars)
  PROVE  LabelKey(k) # Panic /\ IsName(LabelKey(k)) /\ Bytes(LabelKey(k)) <= MaxKey
<1> DEFINE u == SanitizeName(Trim(k))
<1>1. u \in Seq(Chars) /\ IsName(u)
  BY TrimFacts, SanitizeNameFacts
<1>2. LabelKey(k) = Truncate(u, MaxKey)
  BY DEF LabelKey
<1> HIDE DEF u
<1>3. /\ Len(u) \in Nat /\ Len(u) > 0 /\ DOMAIN u = 1 .. Len(u)
      /\ u[1] \in First /\ \A i \in DOMAIN u : u[i] \in Later
      /\ MaxKey \in Nat \ {0}
  BY <1>1, LenProperties, SanitizeAssumption DEF IsName
<1>4. Bytes(u) = Len(u)
  BY <1>1, <1>3, NameBytesCount
<1>5. CASE Bytes(u) <= MaxKey
  <2>1. LabelKey(k) = u
    BY <1>2, <1>5 DEF Truncate
  <2>2. u # Panic
    BY <1>1, SanitizeAssumption
  <2> QED
    BY <1>1, <1>5, <2>1, <2>2
<1>6. CASE ~(Bytes(u) <= MaxKey)
  <2>1. MaxKey \in 0 .. Len(u)
    BY <1>3, <1>4, <1>6
  <2>2. \A n \in 0 .. Len(u) : Bytes(Prefix(u, n)) = n
    BY <1>1, <1>3, NamePrefix
  <2>3. Cuts(u, MaxKey) = {MaxKey}
    BY <2>1, <2>2 DEF Cuts
  <2>4. (CHOOSE n \in {MaxKey} : TRUE) = MaxKey
    OBVIOUS
  <2> DEFINE v == Prefix(u, MaxKey)
  <2>5. LabelKey(k) = v
    BY <1>2, <1>6, <2>3, <2>4 DEF Truncate
  <2>6. /\ v \in Seq(Chars) /\ Len(v) = MaxKey /\ Bytes(v) = MaxKey
        /\ \A i \in 1 .. MaxKey : v[i] = u[i]
    BY <1>1, <1>3, <2>1, NamePrefix
  <2> HIDE DEF v
  <2>7. v # Panic
    BY <2>6, SanitizeAssumption
  <2>8. IsName(v)
    <3>1. DOMAIN v = 1 .. MaxKey /\ 1 \in 1 .. MaxKey
      BY <1>3, <2>6, LenProperties
    <3>2. \A i \in 1 .. MaxKey : i \in DOMAIN u
      BY <1>3, <2>1
    <3> QED
      BY <1>3, <2>6, <3>1, <3>2 DEF IsName
  <2> QED
    BY <1>3, <2>5, <2>6, <2>7, <2>8
<1> QED
  BY <1>5, <1>6

Pair == [key : Seq(Chars), value : Seq(Chars)]

(* filter_map() and take(), label by label.                                *)
LEMMA KeptDef ==
  ASSUME NEW pairs \in Seq(Pair)
  PROVE  \E k : /\ Kept(pairs) = k[Len(pairs)]
                /\ k[0] = <<>>
                /\ \A i \in 1 .. Len(pairs) :
                     k[i] = IF Usable(pairs[i]) /\ Len(k[i - 1]) < MaxPairs
                            THEN Append(k[i - 1], pairs[i])
                            ELSE k[i - 1]
<1> DEFINE len == Len(pairs)
           Take(i, s) == IF i \in 1 .. len /\ Usable(pairs[i]) /\ Len(s) < MaxPairs
                         THEN Append(s, pairs[i]) ELSE s
           S == Seq(Pair)
           step == [x \in Nat \X S |-> Take(x[1], x[2])]
           Next1(k) == [i \in 0 .. len |->
                          IF i = 0 THEN <<>>
                          ELSE IF Usable(pairs[i]) /\ Len(k[i - 1]) < MaxPairs
                               THEN Append(k[i - 1], pairs[i])
                               ELSE k[i - 1]]
<1>1. len \in Nat /\ \A i \in 1 .. len : pairs[i] \in Pair
  BY LenProperties, ElementOfSeq
<1>2. step \in [Nat \X S -> S]
  <2>1. ASSUME NEW i \in Nat, NEW s \in S PROVE Take(i, s) \in S
    BY <1>1, <2>1, AppendProperties
  <2>2. \A x \in Nat \X S : x[1] \in Nat /\ x[2] \in S
    OBVIOUS
  <2> HIDE DEF Take, S
  <2> QED
    BY <2>1, <2>2
<1>3. <<>> \in S
  OBVIOUS
<1>4. PICK f \in [Nat -> S] : Recursive(f, <<>>, step)
  <2> HIDE DEF step, S
  <2> QED
    BY <1>2, <1>3, Recursion
<1> DEFINE g == [i \in 0 .. len |-> f[i]]
<1>5. g = Next1(g)
  <2>1. ASSUME NEW i \in 0 .. len
        PROVE  g[i] = IF i = 0 THEN <<>>
                      ELSE IF Usable(pairs[i]) /\ Len(g[i - 1]) < MaxPairs
                           THEN Append(g[i - 1], pairs[i])
                           ELSE g[i - 1]
    <3>1. CASE i = 0
      <4>1. 0 \in Nat /\ f[0] = <<>>
        BY <1>4 DEF Recursive
      <4> QED
        BY <3>1, <4>1
    <3>2. CASE i # 0
      <4>1. i \in Nat /\ i - 1 \in Nat /\ i - 1 \in 0 .. len /\ i \in 1 .. len
        BY <1>1, <3>2
      <4>2. f[i] = step[<<i, f[i - 1]>>]
        BY <1>4, <3>2, <4>1 DEF Recursive
      <4>3. <<i, f[i - 1]>> \in Nat \X S
        BY <1>4, <4>1
      <4>4. step[<<i, f[i - 1]>>] = Take(i, f[i - 1])
        <5> HIDE DEF Take, S
        <5> QED
          BY <4>3
      <4>5. g[i] = f[i] /\ g[i - 1] = f[i - 1]
        BY <4>1
      <4> HIDE DEF g, step
      <4> QED
        BY <3>2, <4>1, <4>2, <4>4, <4>5
    <3> QED
      BY <3>1, <3>2
  <2>2. g = [i \in 0 .. len |-> g[i]]
    OBVIOUS
  <2> HIDE DEF g
  <2> QED
    BY <2>1, <2>2
<1> DEFINE k == CHOOSE u : u = Next1(u)
<1>6. k = Next1(k)
  <2> HIDE DEF g, Next1
  <2>1. \E u : u = Next1(u)
    BY <1>5
  <2> QED
    BY <2>1
<1>7. Kept(pairs) = k[len]
  BY DEF Kept
<1> HIDE DEF k
<1>8. /\ k[0] = <<>>
      /\ \A i \in 1 .. len : k[i] = IF Usable(pairs[i]) /\ Len(k[i - 1]) < MaxPairs
                                    THEN Append(k[i - 1], pairs[i])
                                    ELSE k[i - 1]
  <2>1. 0 \in 0 .. len
    BY <1>1
  <2>2. ASSUME NEW i \in 1 .. len PROVE i \in 0 .. len /\ i # 0
    BY <1>1
  <2> QED
    BY <1>6, <2>1, <2>2
<1> QED
  BY <1>7, <1>8


(* How many elements of U are no greater than i.                           *)
Rank(U, i) == Cardinality({j \in U : j <= i})

(* Ranks count up, one element at a time.                                  *)
LEMMA RankStep ==
  ASSUME NEW U, U \subseteq Nat \ {0}
  PROVE  /\ Rank(U, 0) = 0
         /\ \A i \in Nat :
              /\ Rank(U, i) \in Nat
              /\ Rank(U, i + 1) = IF i + 1 \in U THEN Rank(U, i) + 1 ELSE Rank(U, i)
<1> DEFINE V(i) == {j \in U : j <= i}
<1>1. V(0) = {}
  <2>1. \A j \in Nat \ {0} : ~(j <= 0)
    OBVIOUS
  <2> QED
    BY <2>1
<1>2. ASSUME NEW i \in Nat
      PROVE  /\ Rank(U, i) \in Nat
             /\ Rank(U, i + 1) = IF i + 1 \in U THEN Rank(U, i) + 1 ELSE Rank(U, i)
  <2>1. U \subseteq Nat
    OBVIOUS
  <2>2. IsFiniteSet(V(i)) /\ Cardinality(V(i)) \in Nat
    BY <2>1, UpToFinite
  <2>3. i + 1 \notin V(i)
    OBVIOUS
  <2>4. V(i + 1) = IF i + 1 \in U THEN V(i) \cup {i + 1} ELSE V(i)
    <3>1. \A j \in U : j <= i + 1 <=> j <= i \/ j = i + 1
      OBVIOUS
    <3> QED
      BY <3>1
  <2>5. Rank(U, i) = Cardinality(V(i)) /\ Rank(U, i + 1) = Cardinality(V(i + 1))
    BY DEF Rank
  <2> HIDE DEF V
  <2>6. Cardinality(V(i) \cup {i + 1}) = Cardinality(V(i)) + 1
    BY <2>2, <2>3, FS_AddElement
  <2> QED
    BY <2>2, <2>4, <2>5, <2>6
<1>3. Rank(U, 0) = 0
  BY <1>1, FS_EmptySet DEF Rank
<1> QED
  BY <1>2, <1>3

(* Ranks grow, and with every element of the set.                          *)
LEMMA RankGrows ==
  ASSUME NEW U, U \subseteq Nat \ {0}, NEW i \in Nat, NEW j \in Nat, i < j
  PROVE  /\ Rank(U, i) <= Rank(U, j)
         /\ j \in U => Rank(U, i) < Rank(U, j)
<1>0. \A n \in Nat :
        /\ Rank(U, n) \in Nat
        /\ Rank(U, n + 1) = IF n + 1 \in U THEN Rank(U, n) + 1 ELSE Rank(U, n)
  BY RankStep
<1> DEFINE T == {n \in Nat : Rank(U, i) <= Rank(U, i + n)}
<1>1. 0 \in T
  <2>1. i + 0 = i /\ Rank(U, i) <= Rank(U, i)
    BY <1>0
  <2> QED
    BY <2>1
<1>2. ASSUME NEW n \in Nat, n \in T PROVE n + 1 \in T
  <2>1. i + n \in Nat /\ i + (n + 1) = (i + n) + 1
    OBVIOUS
  <2>2. Rank(U, i) <= Rank(U, i + n)
    BY <1>2
  <2>3. Rank(U, i + n) <= Rank(U, (i + n) + 1) /\ Rank(U, i) \in Nat
        /\ Rank(U, i + n) \in Nat /\ Rank(U, (i + n) + 1) \in Nat
    <3> DEFINE k == i + n
    <3>1. k \in Nat /\ k + 1 \in Nat
      BY <2>1
    <3> HIDE DEF k
    <3>2. /\ Rank(U, k) \in Nat /\ Rank(U, k + 1) \in Nat
          /\ Rank(U, k + 1) = IF k + 1 \in U THEN Rank(U, k) + 1 ELSE Rank(U, k)
      BY <1>0, <3>1
    <3>3. Rank(U, k) <= Rank(U, k + 1) /\ Rank(U, i) \in Nat
      BY <1>0, <3>2
    <3> QED
      BY <3>2, <3>3 DEF k
  <2> QED
    BY <2>1, <2>2, <2>3
<1>3. \A n \in Nat : Rank(U, i) <= Rank(U, i + n)
  <2> HIDE DEF T
  <2>1. Nat \subseteq T
    BY <1>1, <1>2, Induction
  <2> QED
    BY <2>1 DEF T
<1>4. j - i \in Nat /\ i + (j - i) = j
  OBVIOUS
<1>5. j - 1 - i \in Nat /\ i + (j - 1 - i) = j - 1 /\ j - 1 \in Nat /\ (j - 1) + 1 = j
  OBVIOUS
<1>6. Rank(U, i) <= Rank(U, j) /\ Rank(U, i) <= Rank(U, j - 1)
  BY <1>3, <1>4, <1>5
<1>7. j \in U => Rank(U, j) = Rank(U, j - 1) + 1
  <2> DEFINE k == j - 1
  <2>1. k \in Nat /\ k + 1 = j
    BY <1>5
  <2> HIDE DEF k
  <2>2. Rank(U, k + 1) = IF k + 1 \in U THEN Rank(U, k) + 1 ELSE Rank(U, k)
    BY <1>0, <2>1
  <2>3. j \in U => Rank(U, j) = Rank(U, k) + 1
    BY <2>1, <2>2
  <2> QED
    BY <2>3 DEF k
<1>8. Rank(U, i) \in Nat /\ Rank(U, j - 1) \in Nat /\ Rank(U, j) \in Nat
  BY <1>0, <1>5
<1> QED
  BY <1>6, <1>7, <1>8

(* Every number up to the last rank is a rank.                             *)
LEMMA RankReaches ==
  ASSUME NEW U, U \subseteq Nat \ {0}, NEW n \in Nat
  PROVE  \A g \in 1 .. Rank(U, n) : \E j \in U : j <= n /\ Rank(U, j) = g
<1> DEFINE Reached(m) == \A g \in 1 .. Rank(U, m) : \E j \in U : j <= m /\ Rank(U, j) = g
           T == {m \in Nat : Reached(m)}
<1>1. 0 \in T
  <2>1. Rank(U, 0) = 0
    BY RankStep
  <2>2. 1 .. 0 = {}
    OBVIOUS
  <2> QED
    BY <2>1, <2>2
<1>2. ASSUME NEW m \in Nat, m \in T PROVE m + 1 \in T
  <2>1. Rank(U, m) \in Nat
        /\ Rank(U, m + 1) = IF m + 1 \in U THEN Rank(U, m) + 1 ELSE Rank(U, m)
    BY RankStep
  <2>2. SUFFICES ASSUME NEW g \in 1 .. Rank(U, m + 1)
                 PROVE  \E j \in U : j <= m + 1 /\ Rank(U, j) = g
    OBVIOUS
  <2>3. CASE g \in 1 .. Rank(U, m)
    <3>1. PICK j \in U : j <= m /\ Rank(U, j) = g
      BY <1>2, <2>3
    <3>2. j \in Nat /\ j <= m + 1
      BY <3>1
    <3> QED
      BY <3>1, <3>2
  <2>4. CASE g \notin 1 .. Rank(U, m)
    <3>1. m + 1 \in U
      BY <2>1, <2>4
    <3>2. g = Rank(U, m + 1)
      BY <2>1, <2>4, <3>1
    <3> QED
      BY <3>1, <3>2
  <2> QED
    BY <2>3, <2>4
<1> HIDE DEF T
<1>3. Nat \subseteq T
  BY <1>1, <1>2, Induction
<1> QED
  BY <1>3 DEF T

(* The first m elements: their ranks, and their number.                    *)
Leading(U, m) == {j \in U : Rank(U, j) <= m}

(* Ranks in a set that was cut after its first m numbers.                  *)
LEMMA RankCut ==
  ASSUME NEW U, U \subseteq Nat \ {0}, NEW m \in Nat
  PROVE  \A n \in Nat :
           Rank(Leading(U, m), n) = IF Rank(U, n) <= m THEN Rank(U, n) ELSE m
<1> DEFINE V == Leading(U, m)
<1>0. V = {j \in U : Rank(U, j) <= m}
  BY DEF Leading
<1> HIDE DEF V
<1>1. V \subseteq Nat \ {0}
  BY <1>0
<1> DEFINE T == {n \in Nat : Rank(V, n) = IF Rank(U, n) <= m THEN Rank(U, n) ELSE m}
<1>3. 0 \in T
  <2>1. Rank(V, 0) = 0 /\ Rank(U, 0) = 0
    BY <1>1, RankStep
  <2> QED
    BY <2>1
<1>4. ASSUME NEW n \in Nat, n \in T PROVE n + 1 \in T
  <2> DEFINE u == Rank(U, n)
             u1 == Rank(U, n + 1)
             v == Rank(V, n)
             v1 == Rank(V, n + 1)
  <2>1. n + 1 \in V <=> n + 1 \in U /\ u1 <= m
    BY <1>0
  <2>2. u \in Nat /\ u1 = IF n + 1 \in U THEN u + 1 ELSE u
    BY RankStep
  <2>3. v \in Nat /\ v1 = IF n + 1 \in V THEN v + 1 ELSE v
    BY <1>1, RankStep
  <2>4. v = IF u <= m THEN u ELSE m
    BY <1>4
  <2> HIDE DEF u, u1, v, v1
  <2>5. v1 = IF u1 <= m THEN u1 ELSE m
    BY <2>1, <2>2, <2>3, <2>4
  <2> QED
    BY <2>5 DEF u1, v1
<1>5. \A n \in Nat : Rank(V, n) = IF Rank(U, n) <= m THEN Rank(U, n) ELSE m
  <2> HIDE DEF T
  <2>1. Nat \subseteq T
    BY <1>3, <1>4, Induction
  <2> QED
    BY <2>1 DEF T
<1> QED
  BY <1>5 DEF V

(* The labels with a key that is not blank.                                *)
UsableAt(pairs) == {i \in DOMAIN pairs : Usable(pairs[i])}

(* The labels that count are the first MAX_PAIRS of them.                  *)
LEMMA CountingIs ==
  ASSUME NEW pairs \in Seq(Pair)
  PROVE  /\ UsableAt(pairs) \subseteq 1 .. Len(pairs)
         /\ Counting(pairs) = {i \in UsableAt(pairs) : Rank(UsableAt(pairs), i) <= MaxPairs}
<1> DEFINE U == {i \in DOMAIN pairs : \E j \in DOMAIN pairs[i].key :
                                        pairs[i].key[j] # "space"}
<1>1. DOMAIN pairs = 1 .. Len(pairs) /\ \A i \in DOMAIN pairs : pairs[i].key \in Seq(Chars)
  <2>1. DOMAIN pairs = 1 .. Len(pairs)
    BY LenProperties
  <2>2. \A i \in 1 .. Len(pairs) : pairs[i] \in Pair
    BY ElementOfSeq
  <2>3. \A x \in Pair : x.key \in Seq(Chars)
    BY DEF Pair
  <2> QED
    BY <2>1, <2>2, <2>3
<1>2. ASSUME NEW i \in DOMAIN pairs
      PROVE  Usable(pairs[i]) <=> \E j \in DOMAIN pairs[i].key : pairs[i].key[j] # "space"
  <2>1. Usable(pairs[i]) <=> Solid(pairs[i].key) # {}
    BY <1>1, TrimFacts DEF Usable
  <2> QED
    BY <2>1 DEF Solid
<1>3. U = UsableAt(pairs)
  BY <1>2 DEF UsableAt
<1>4. Counting(pairs) = {i \in U : Cardinality({j \in U : j <= i}) <= MaxPairs}
  BY DEF Counting
<1> HIDE DEF U
<1> QED
  BY <1>1, <1>3, <1>4 DEF Rank, UsableAt

(* What is kept are the labels that count, each at its rank.               *)
LEMMA KeptFacts ==
  ASSUME NEW pairs \in Seq(Pair)
  PROVE  /\ Counting(pairs) \subseteq 1 .. Len(pairs)
         /\ Kept(pairs) \in Seq(Pair)
         /\ Len(Kept(pairs)) = Rank(Counting(pairs), Len(pairs))
         /\ \A j \in Counting(pairs) : Kept(pairs)[Rank(Counting(pairs), j)] = pairs[j]
<1> DEFINE len == Len(pairs)
           U == UsableAt(pairs)
           V == Counting(pairs)
<1>1. /\ U \subseteq 1 .. len /\ len \in Nat /\ MaxPairs \in Nat
      /\ DOMAIN pairs = 1 .. len
      /\ \A i \in 1 .. len : pairs[i] \in Pair /\ (Usable(pairs[i]) <=> i \in U)
  <2>1. len \in Nat /\ DOMAIN pairs = 1 .. len /\ \A i \in 1 .. len : pairs[i] \in Pair
    BY LenProperties, ElementOfSeq
  <2>2. U \subseteq 1 .. len
    BY CountingIs
  <2>3. \A i \in 1 .. len : Usable(pairs[i]) <=> i \in U
    BY <2>1 DEF UsableAt
  <2> QED
    BY <2>1, <2>2, <2>3, SanitizeAssumption
<1>2. V = {i \in U : Rank(U, i) <= MaxPairs}
  BY CountingIs
<1> HIDE DEF U, V
<1>3. U \subseteq Nat \ {0} /\ V \subseteq Nat \ {0} /\ V \subseteq 1 .. len
  <2> HIDE DEF len
  <2>1. 1 .. len \subseteq Nat \ {0}
    BY <1>1
  <2>2. U \subseteq Nat \ {0} /\ V \subseteq U
    BY <1>1, <1>2, <2>1
  <2> QED
    BY <1>1, <2>2
<1>4. \A n \in Nat : Rank(V, n) = IF Rank(U, n) <= MaxPairs THEN Rank(U, n) ELSE MaxPairs
  <2>1. MaxPairs \in Nat /\ U \subseteq Nat \ {0}
    BY <1>1, <1>3
  <2>2. V = Leading(U, MaxPairs)
    BY <1>2 DEF Leading
  <2> QED
    BY <2>1, <2>2, RankCut
<1>5. \A n \in Nat :
        /\ Rank(U, n) \in Nat /\ Rank(V, n) \in Nat
        /\ Rank(U, n + 1) = IF n + 1 \in U THEN Rank(U, n) + 1 ELSE Rank(U, n)
        /\ Rank(V, n + 1) = IF n + 1 \in V THEN Rank(V, n) + 1 ELSE Rank(V, n)
  BY <1>3, RankStep
<1>6. PICK k : /\ Kept(pairs) = k[len]
               /\ k[0] = <<>>
               /\ \A i \in 1 .. len :
                    k[i] = IF Usable(pairs[i]) /\ Len(k[i - 1]) < MaxPairs
                           THEN Append(k[i - 1], pairs[i])
                           ELSE k[i - 1]
  BY KeptDef
<1> DEFINE Good(s, i) == /\ s \in Seq(Pair)
                         /\ Len(s) = Rank(V, i)
                         /\ \A j \in V : j <= i => s[Rank(V, j)] = pairs[j]
<1>7. Good(k[0], 0)
  <2>1. Len(<<>>) = 0 /\ <<>> \in Seq(Pair)
    OBVIOUS
  <2>0. Rank(V, 0) = 0
    BY <1>3, RankStep
  <2>2. \A j \in V : ~(j <= 0)
    <3>1. \A j \in Nat \ {0} : ~(j <= 0)
      OBVIOUS
    <3> QED
      BY <1>3, <3>1
  <2> QED
    BY <1>6, <2>0, <2>1, <2>2
<1>8. ASSUME NEW i \in Nat, i + 1 <= len, Good(k[i], i) PROVE Good(k[i + 1], i + 1)
  <2> DEFINE s == k[i]
             n == i + 1
  <2>1. n \in 1 .. len /\ n - 1 = i /\ n \in Nat
    <3>1. i + 1 <= len
      BY <1>8
    <3> HIDE DEF len
    <3> QED
      BY <1>1, <3>1
  <2>2. k[n] = IF Usable(pairs[n]) /\ Len(s) < MaxPairs THEN Append(s, pairs[n]) ELSE s
    BY <1>6, <2>1
  <2>3. pairs[n] \in Pair /\ (Usable(pairs[n]) <=> n \in U)
    BY <1>1, <2>1
  <2>4. n \in V <=> n \in U /\ Rank(V, i) < MaxPairs
    <3> DEFINE u == Rank(U, i)
               v == Rank(V, i)
    <3>1. u \in Nat /\ v = IF u <= MaxPairs THEN u ELSE MaxPairs
      BY <1>4, <1>5
    <3>2. n \in U => Rank(U, n) = u + 1
      BY <1>5
    <3>3. n \in V <=> n \in U /\ Rank(U, n) <= MaxPairs
      BY <1>2
    <3> HIDE DEF n, u, v
    <3>4. n \in V <=> n \in U /\ v < MaxPairs
      BY <1>1, <3>1, <3>2, <3>3
    <3> QED
      BY <3>4 DEF v
  <2>5. \A j \in V : j <= n => j <= i \/ j = n
    BY <1>3
  <2>6. /\ s \in Seq(Pair) /\ Len(s) = Rank(V, i)
        /\ \A j \in V : j <= i => s[Rank(V, j)] = pairs[j]
    BY <1>8
  <2>7. Rank(V, i) \in Nat /\ Rank(V, n) = IF n \in V THEN Rank(V, i) + 1 ELSE Rank(V, i)
    BY <1>5
  <2> HIDE DEF s, n
  <2>8. CASE n \in V
    <3>1. k[n] = Append(s, pairs[n])
      BY <2>2, <2>3, <2>4, <2>6, <2>8
    <3>2. /\ Append(s, pairs[n]) \in Seq(Pair)
          /\ Len(Append(s, pairs[n])) = Len(s) + 1
          /\ \A g \in 1 .. Len(s) : Append(s, pairs[n])[g] = s[g]
          /\ Append(s, pairs[n])[Len(s) + 1] = pairs[n]
      BY <2>3, <2>6, AppendProperties
    <3>3. ASSUME NEW j \in V, j <= i PROVE Rank(V, j) \in 1 .. Len(s)
      <4>1. j \in Nat /\ Rank(V, j) \in Nat
        BY <1>3, <1>5
      <4>2. Rank(V, j) <= Rank(V, i)
        <5>1. CASE j = i
          BY <4>1, <5>1
        <5>2. CASE j # i
          <6>1. j < i
            BY <3>3, <4>1, <5>2
          <6> QED
            BY <1>3, <4>1, <6>1, RankGrows
        <5> QED
          BY <5>1, <5>2
      <4>3. Rank(V, j) > 0
        <5>1. 0 < j /\ 0 \in Nat
          BY <1>3
        <5>2. Rank(V, 0) < Rank(V, j) /\ Rank(V, 0) = 0
          BY <1>3, <4>1, <5>1, RankGrows, RankStep
        <5> QED
          BY <5>2
      <4> QED
        BY <2>6, <2>7, <4>1, <4>2, <4>3
    <3> DEFINE t == Append(s, pairs[n])
    <3>4. ASSUME NEW j \in V, j <= n PROVE t[Rank(V, j)] = pairs[j]
      <4> HIDE DEF t
      <4>1. CASE j <= i
        <5>1. t[Rank(V, j)] = s[Rank(V, j)]
          BY <3>2, <3>3, <4>1 DEF t
        <5> QED
          BY <2>6, <4>1, <5>1
      <4>2. CASE j = n
        <5>1. Rank(V, j) = Len(s) + 1
          BY <2>6, <2>7, <2>8, <4>2
        <5> QED
          BY <3>2, <4>2, <5>1 DEF t
      <4> QED
        BY <2>5, <3>4, <4>1, <4>2
    <3>5. Len(t) = Rank(V, n)
      BY <2>6, <2>7, <2>8, <3>2
    <3>6. Good(t, n)
      <4> HIDE DEF t
      <4> QED
        BY <3>2, <3>4, <3>5 DEF t
    <3>7. Good(k[n], n)
      BY <3>1, <3>6
    <3> QED
      BY <3>7 DEF n
  <2>9. CASE n \notin V
    <3>1. k[n] = s
      BY <2>2, <2>3, <2>4, <2>6, <2>9
    <3>2. \A j \in V : j <= n => s[Rank(V, j)] = pairs[j]
      BY <2>5, <2>6, <2>9
    <3>3. Good(s, n)
      BY <2>6, <2>7, <2>9, <3>2
    <3>4. Good(k[n], n)
      BY <3>1, <3>3
    <3> QED
      BY <3>4 DEF n
  <2> QED
    BY <2>8, <2>9
<1> HIDE DEF Good
<1> DEFINE T == {i \in Nat : i <= len => Good(k[i], i)}
<1>9. Nat \subseteq T
  <2>1. 0 \in T
    BY <1>7
  <2>2. ASSUME NEW i \in Nat, i \in T PROVE i + 1 \in T
    <3>1. i + 1 \in Nat /\ (i + 1 <= len => i <= len)
      BY <1>1
    <3> QED
      BY <1>8, <2>2, <3>1
  <2> HIDE DEF T
  <2> QED
    BY <2>1, <2>2, Induction
<1>10. Good(k[len], len)
  <2>1. len \in T /\ len <= len
    BY <1>1, <1>9
  <2> QED
    BY <2>1
<1>11. \A j \in V : j <= len
  BY <1>1, <1>3
<1>12. Good(Kept(pairs), len)
  BY <1>6, <1>10
<1>13. /\ Kept(pairs) \in Seq(Pair)
       /\ Len(Kept(pairs)) = Rank(V, len)
       /\ \A j \in V : Kept(pairs)[Rank(V, j)] = pairs[j]
  BY <1>11, <1>12 DEF Good
<1> QED
  BY <1>3, <1>13 DEF V

(* A label key that is kept is a valid name of at most MAX_KEY bytes, for  *)
(* every limit and every list of labels: a name can be cut anywhere        *)
(* (sanitize_labels).                                                      *)
THEOREM CutKeys == Spec => []KeysValid
<1>1. RowsInv => KeysValid
  <2> SUFFICES ASSUME RowsInv, NEW i \in DOMAIN SanitizeLabels(labels)
               PROVE  LET k == SanitizeLabels(labels)[i].key
                      IN k # Panic /\ IsName(k) /\ Bytes(k) <= MaxKey
    BY DEF KeysValid
  <2> DEFINE kept == Kept(labels)
  <2>1. labels \in Seq(Pair)
    BY DEF RowsInv, Typed, Pair
  <2>2. kept \in Seq(Pair)
    BY <2>1, KeptFacts
  <2>3. i \in DOMAIN kept /\ SanitizeLabels(labels)[i].key = LabelKey(kept[i].key)
    BY DEF SanitizeLabels
  <2> HIDE DEF kept
  <2>4. kept[i].key \in Seq(Chars)
    <3>1. DOMAIN kept = 1 .. Len(kept) /\ \A g \in 1 .. Len(kept) : kept[g] \in Pair
      BY <2>2, LenProperties, ElementOfSeq
    <3>2. kept[i] \in Pair
      BY <2>3, <3>1
    <3> QED
      BY <3>2 DEF Pair
  <2> QED
    BY <2>3, <2>4, LabelKeyFacts
<1> QED
  BY <1>1, RowsInvariant, PTL


(* The ranks in a set of numbers up to n, and how many there are.          *)
LEMMA RankIn ==
  ASSUME NEW n \in Nat, NEW U, U \subseteq 1 .. n
  PROVE  /\ U \subseteq Nat \ {0}
         /\ Rank(U, n) = Cardinality(U) /\ Rank(U, n) \in Nat
         /\ \A j \in U : Rank(U, j) \in 1 .. Rank(U, n)
<1>1. U \subseteq Nat \ {0} /\ \A j \in U : j \in Nat /\ 0 < j /\ j <= n
  BY SMTT(30)
<1>2. {j \in U : j <= n} = U
  BY <1>1
<1>3. Rank(U, 0) = 0 /\ Rank(U, n) \in Nat
  BY <1>1, RankStep
<1>4. ASSUME NEW j \in U PROVE Rank(U, j) \in 1 .. Rank(U, n)
  <2>1. 0 \in Nat /\ j \in Nat /\ 0 < j /\ j <= n /\ Rank(U, j) \in Nat
    BY <1>1, RankStep
  <2>2. Rank(U, 0) < Rank(U, j)
    BY <1>1, <2>1, RankGrows
  <2>3. Rank(U, j) <= Rank(U, n)
    <3>1. CASE j = n
      BY <2>1, <3>1
    <3>2. CASE j # n
      <4>1. j < n
        BY <2>1, <3>2
      <4> QED
        BY <1>1, <2>1, <4>1, RankGrows
    <3> QED
      BY <3>1, <3>2
  <2> QED
    BY <1>3, <2>1, <2>2, <2>3
<1> QED
  BY <1>1, <1>2, <1>3, <1>4 DEF Rank

(* The sanitized labels, one by one.                                       *)
LEMMA LabelsAre ==
  ASSUME NEW pairs \in Seq(Pair)
  PROVE  LET V == Counting(pairs) clean == SanitizeLabels(pairs)
         IN /\ DOMAIN clean = 1 .. Cardinality(V)
            /\ Len(clean) = Cardinality(V)
            /\ Cardinality(V) \in Nat
            /\ V \subseteq 1 .. Len(pairs)
            /\ \A j \in V :
                 /\ Rank(V, j) \in 1 .. Cardinality(V)
                 /\ clean[Rank(V, j)] = [key |-> LabelKey(pairs[j].key),
                                         value |-> LabelValue(pairs[j].value)]
<1> DEFINE V == Counting(pairs)
           kept == Kept(pairs)
           len == Len(pairs)
           clean == SanitizeLabels(pairs)
<1>1. len \in Nat
  BY LenProperties
<1>2. /\ V \subseteq 1 .. len
      /\ kept \in Seq(Pair) /\ Len(kept) = Rank(V, len)
      /\ \A j \in V : kept[Rank(V, j)] = pairs[j]
  BY KeptFacts
<1>3. clean = [i \in DOMAIN kept |-> [key |-> LabelKey(kept[i].key),
                                      value |-> LabelValue(kept[i].value)]]
  BY DEF SanitizeLabels
<1> HIDE DEF V, kept, len, clean
<1>4. /\ Rank(V, len) = Cardinality(V) /\ Rank(V, len) \in Nat
      /\ \A j \in V : Rank(V, j) \in 1 .. Rank(V, len)
  BY <1>1, <1>2, RankIn
<1>5. DOMAIN kept = 1 .. Cardinality(V)
  BY <1>2, <1>4, LenProperties
<1>6. DOMAIN clean = 1 .. Cardinality(V)
  BY <1>3, <1>5
<1>7. Len(clean) = Cardinality(V)
  <2> DEFINE n == Cardinality(V)
             e(i) == [key |-> LabelKey(kept[i].key), value |-> LabelValue(kept[i].value)]
  <2>1. n \in Nat /\ clean = [i \in 1 .. n |-> e(i)]
    BY <1>3, <1>4, <1>5
  <2> HIDE DEF n, e
  <2>2. Len(clean) = n
    BY <2>1
  <2> QED
    BY <2>2 DEF n
<1>8. ASSUME NEW j \in V
      PROVE  /\ Rank(V, j) \in 1 .. Cardinality(V)
             /\ clean[Rank(V, j)] = [key |-> LabelKey(pairs[j].key),
                                     value |-> LabelValue(pairs[j].value)]
  <2> DEFINE g == Rank(V, j)
  <2>1. g \in DOMAIN kept /\ kept[g] = pairs[j] /\ g \in 1 .. Cardinality(V)
    BY <1>2, <1>4, <1>5
  <2> HIDE DEF g
  <2>2. clean[g] = [key |-> LabelKey(pairs[j].key), value |-> LabelValue(pairs[j].value)]
    BY <1>3, <2>1
  <2> QED
    BY <2>1, <2>2 DEF g
<1> QED
  BY <1>2, <1>4, <1>6, <1>7, <1>8 DEF V, clean, len

(* Blank keys cost no other label its place, however many there are: the   *)
(* first MAX_PAIRS labels with a key are kept, in their order              *)
(* (sanitize_labels).                                                      *)
THEOREM CapCounts == Spec => []CapCountsUsable
<1>1. RowsInv => CapCountsUsable
  <2> SUFFICES ASSUME RowsInv PROVE CapCountsUsable
    OBVIOUS
  <2> DEFINE V == Counting(labels)
             clean == SanitizeLabels(labels)
  <2>1. labels \in Seq(Pair)
    BY DEF RowsInv, Typed, Pair
  <2>2. /\ Len(clean) = Cardinality(V)
        /\ \A j \in V : clean[Rank(V, j)] = [key |-> LabelKey(labels[j].key),
                                             value |-> LabelValue(labels[j].value)]
    BY <2>1, LabelsAre
  <2> HIDE DEF V, clean
  <2>3. ASSUME NEW j \in V PROVE clean[Rank(V, j)].value = LabelValue(labels[j].value)
    <3>1. clean[Rank(V, j)] = [key |-> LabelKey(labels[j].key),
                               value |-> LabelValue(labels[j].value)]
      BY <2>2
    <3> QED
      BY <3>1
  <2> QED
    BY <2>2, <2>3 DEF CapCountsUsable, V, clean, Rank
<1> QED
  BY <1>1, RowsInvariant, PTL


(* The last of several labels with one key stands, and no other key is in  *)
(* the map.                                                                *)
LEMMA LabelMapFacts ==
  ASSUME NEW pairs \in Seq(Pair)
  PROVE  LET map == LabelMap(SanitizeLabels(pairs))
         IN /\ \A j \in Counting(pairs) :
                 \/ map[LabelKey(pairs[j].key)] = LabelValue(pairs[j].value)
                 \/ \E k \in Counting(pairs) :
                      k > j /\ LabelKey(pairs[k].key) = LabelKey(pairs[j].key)
            /\ \A k \in DOMAIN map :
                 \E j \in Counting(pairs) : LabelKey(pairs[j].key) = k
<1> DEFINE V == Counting(pairs)
           clean == SanitizeLabels(pairs)
           map == LabelMap(clean)
           n == Cardinality(V)
           len == Len(pairs)
           key(j) == LabelKey(pairs[j].key)
           val(j) == LabelValue(pairs[j].value)
<1>1. /\ DOMAIN clean = 1 .. n /\ n \in Nat /\ V \subseteq 1 .. len /\ len \in Nat
      /\ \A j \in V : Rank(V, j) \in 1 .. n
                      /\ clean[Rank(V, j)] = [key |-> key(j), value |-> val(j)]
  BY LabelsAre, LenProperties
<1>2. map = [k \in KeysOf(clean) |->
               clean[CHOOSE i \in At(clean, k) : \A j \in At(clean, k) : j <= i].value]
  BY DEF LabelMap
<1> HIDE DEF V, clean, map, n, len, key, val
<1>3. V \subseteq Nat \ {0} /\ Rank(V, len) = Cardinality(V)
  BY <1>1, RankIn
<1>4. ASSUME NEW j \in V
      PROVE  /\ Rank(V, j) \in 1 .. n
             /\ clean[Rank(V, j)].key = key(j) /\ clean[Rank(V, j)].value = val(j)
  <2>1. clean[Rank(V, j)] = [key |-> key(j), value |-> val(j)]
    BY <1>1
  <2> QED
    BY <1>1, <2>1
<1>5. ASSUME NEW h \in 1 .. n PROVE \E j \in V : Rank(V, j) = h
  <2>1. h \in 1 .. Rank(V, len)
    BY <1>3 DEF n
  <2>2. \A g \in 1 .. Rank(V, len) : \E j \in V : j <= len /\ Rank(V, j) = g
    <3>1. len \in Nat /\ V \subseteq Nat \ {0}
      BY <1>1, <1>3
    <3> QED
      BY <3>1, RankReaches
  <2> QED
    BY <2>1, <2>2
<1>6. ASSUME NEW j \in V
      PROVE  map[key(j)] = val(j) \/ \E k \in V : k > j /\ key(k) = key(j)
  <2> DEFINE g == Rank(V, j)
             T == At(clean, key(j))
             m == CHOOSE i \in T : \A h \in T : h <= i
  <2>1. g \in 1 .. n /\ clean[g].key = key(j) /\ clean[g].value = val(j)
    BY <1>4
  <2>2. T = {h \in 1 .. n : clean[h].key = key(j)}
    BY <1>1 DEF At
  <2>3. key(j) \in KeysOf(clean)
    <3> HIDE DEF g
    <3>1. g \in DOMAIN clean
      BY <1>1, <2>1
    <3> QED
      BY <2>1, <3>1 DEF KeysOf
  <2>4. map[key(j)] = clean[m].value
    BY <1>2, <2>3
  <2> HIDE DEF g, T
  <2>5. g \in T /\ T \in SUBSET Nat /\ \A h \in T : h <= n
    <3>1. \A h \in 1 .. n : h \in Nat /\ h <= n
      BY <1>1
    <3> QED
      BY <2>1, <2>2, <3>1
  <2>6. \E i \in T : \A h \in T : h <= i
    BY <1>1, <2>5, Greatest
  <2>7. m \in T /\ \A h \in T : h <= m
    BY <2>6
  <2> HIDE DEF m
  <2>8. CASE m = g
    BY <2>1, <2>4, <2>8
  <2>9. CASE m # g
    <3>1. m \in 1 .. n /\ clean[m].key = key(j) /\ g <= m
      BY <2>2, <2>5, <2>7
    <3>2. PICK k \in V : Rank(V, k) = m
      BY <1>5, <3>1
    <3>3. key(k) = key(j)
      BY <1>4, <3>1, <3>2
    <3>4. k > j
      <4>1. k \in Nat /\ j \in Nat
        BY <1>3
      <4>2. g < m /\ g \in Nat /\ m \in Nat
        BY <1>1, <2>1, <2>9, <3>1
      <4>3. CASE k = j
        BY <2>9, <3>2, <4>3 DEF g
      <4>4. CASE k < j
        <5>1. Rank(V, k) < Rank(V, j)
          BY <1>3, <4>1, <4>4, RankGrows
        <5>2. m < g
          BY <3>2, <5>1 DEF g
        <5> QED
          BY <4>2, <5>2
      <4> QED
        BY <4>1, <4>3, <4>4
    <3> QED
      BY <3>3, <3>4
  <2> QED
    BY <2>8, <2>9
<1>7. ASSUME NEW k \in DOMAIN map PROVE \E j \in V : key(j) = k
  <2>1. k \in KeysOf(clean)
    BY <1>2
  <2>2. PICK h \in DOMAIN clean : clean[h].key = k
    BY <2>1 DEF KeysOf
  <2>3. PICK j \in V : Rank(V, j) = h
    BY <1>1, <1>5, <2>2
  <2> QED
    BY <1>4, <2>2, <2>3
<1> QED
  BY <1>6, <1>7 DEF V, map, clean, key, val

(* The payload of an exported row.                                         *)
LEMMA PayloadFacts ==
  ASSUME RowsInv, NEW i \in DOMAIN rows
  PROVE  LET s == rows[i].sample payload == Exported(rows[i]).payload
         IN /\ payload.metric_type = s.kind
            /\ payload.value \in Finite
            /\ s.value \in Short => payload.value = s.value
            /\ s.value \notin Finite => payload.value = Zero
            /\ payload.labels = LabelMap(SanitizeLabels(s.labels))
<1> DEFINE s == rows[i].sample
           e == MetricEntry(s, rows[i].time)
           payload == Exported(rows[i]).payload
           v == IF s.value \in Finite THEN s.value ELSE Null
           map == LabelMap(SanitizeLabels(s.labels))
           raw == [value |-> v, metric_type |-> s.kind, labels |-> map]
<1>1. rows[i].payload = EncodeValue(e)
  BY DEF RowsInv, Encoded
<1>2. /\ e.value = s.value /\ e.kind = s.kind
      /\ e.labels = SanitizeLabels(s.labels)
  BY DEF MetricEntry
<1>3. EncodeValue(e) = raw
  <2> HIDE DEF e, s
  <2> QED
    BY <1>2 DEF EncodeValue
<1>4. payload = DecodeValue(rows[i].payload)
  BY DEF Exported
<1> HIDE DEF s, e, payload, map, v
<1>5. payload = [raw EXCEPT !.value = IF v = Null THEN Zero ELSE Parsed[v]]
  BY <1>1, <1>3, <1>4 DEF DecodeValue
<1>6. /\ payload.value = IF v = Null THEN Zero ELSE Parsed[v]
      /\ payload.metric_type = s.kind /\ payload.labels = map
  BY <1>5
<1>7. /\ Null \notin Finite /\ Zero \in Finite /\ Short \subseteq Finite
      /\ Parsed \in [Finite -> Finite] /\ \A x \in Short : Parsed[x] = x
  BY RowsAssumption
<1>8. CASE s.value \in Finite
  <2>1. payload.value = Parsed[s.value] /\ Parsed[s.value] \in Finite
    BY <1>6, <1>7, <1>8 DEF v
  <2> QED
    BY <1>6, <1>7, <1>8, <2>1 DEF s, payload, map
<1>9. CASE s.value \notin Finite
  <2>1. payload.value = Zero
    BY <1>6, <1>9 DEF v
  <2> QED
    BY <1>6, <1>7, <1>9, <2>1 DEF s, payload, map
<1> QED
  BY <1>8, <1>9

(* An exported row still is the observation that was made, for every name, *)
(* label list, value of few digits, clock, width and limit                 *)
(* (MetricEntry::new, encode_value, decode_key, decode_value,              *)
(* PendingBatch::push).                                                    *)
THEOREM RowsFaithful == Spec => []RowFaithful
<1>1. RowsInv => RowFaithful
  <2> SUFFICES ASSUME RowsInv, NEW i \in DOMAIN rows
               PROVE  LET s == rows[i].sample
                          row == Exported(rows[i])
                          key(j) == LabelKey(s.labels[j].key)
                      IN /\ row.ts = Column(EntryMicros(rows[i].time))
                         /\ row.name = NameBytes(SanitizeName(s.name))
                         /\ row.payload.metric_type = s.kind
                         /\ row.payload.value \in Finite
                         /\ s.value \in Short => row.payload.value = s.value
                         /\ s.value \notin Finite => row.payload.value = Zero
                         /\ \A j \in Counting(s.labels) :
                              \/ row.payload.labels[key(j)] = LabelValue(s.labels[j].value)
                              \/ \E k \in Counting(s.labels) : k > j /\ key(k) = key(j)
                         /\ \A k \in DOMAIN row.payload.labels :
                              \E j \in Counting(s.labels) : key(j) = k
    BY DEF RowFaithful
  <2> DEFINE s == rows[i].sample
             row == Exported(rows[i])
             map == LabelMap(SanitizeLabels(s.labels))
  <2>1. /\ row.ts = Column(EntryMicros(rows[i].time))
        /\ row.name = NameBytes(SanitizeName(s.name))
    BY RowFacts
  <2>2. /\ row.payload.metric_type = s.kind
        /\ row.payload.value \in Finite
        /\ s.value \in Short => row.payload.value = s.value
        /\ s.value \notin Finite => row.payload.value = Zero
        /\ row.payload.labels = map
    BY PayloadFacts
  <2>3. s.labels \in Seq(Pair)
    <3>1. s \in Samples
      BY RowFields DEF RowsInv
    <3> QED
      BY <3>1, RowsAssumption DEF Pair
  <2> HIDE DEF s, row, map
  <2>4. /\ \A j \in Counting(s.labels) :
             \/ map[LabelKey(s.labels[j].key)] = LabelValue(s.labels[j].value)
             \/ \E k \in Counting(s.labels) :
                  k > j /\ LabelKey(s.labels[k].key) = LabelKey(s.labels[j].key)
        /\ \A k \in DOMAIN map :
             \E j \in Counting(s.labels) : LabelKey(s.labels[j].key) = k
    BY <2>3, LabelMapFacts DEF map
  <2>5. /\ \A j \in Counting(s.labels) :
             \/ row.payload.labels[LabelKey(s.labels[j].key)] = LabelValue(s.labels[j].value)
             \/ \E k \in Counting(s.labels) :
                  k > j /\ LabelKey(s.labels[k].key) = LabelKey(s.labels[j].key)
        /\ \A k \in DOMAIN row.payload.labels :
             \E j \in Counting(s.labels) : LabelKey(s.labels[j].key) = k
    BY <2>2, <2>4
  <2> QED
    BY <2>1, <2>2, <2>5 DEF s, row
<1> QED
  BY <1>1, RowsInvariant, PTL
=============================================================================
