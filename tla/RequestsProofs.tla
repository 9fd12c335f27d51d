--------------------------- MODULE RequestsProofs ---------------------------
(***************************************************************************)
(* Proofs that the tracker and the middleware around it keep their         *)
(* promises for any number of visits, requests, snapshot tasks and regions,*)
(* and any hash.                                                           *)
(***************************************************************************)
EXTENDS RequestsProperties, FiniteSetTheorems, PowersProofs

all == <<vars, web>>

(* Visits and tasks keep to their own places.                              *)
Places ==
  /\ \A v \in Visits : pc[v] \in {"idle", "lock", "fold", "folded", "missed"}
  /\ \A t \in Tasks : pc[t] \in {"idle", "export", "panicked"}

(* What a task is about to record is the sketch of its region, and no      *)
(* gauge is ahead of its sketch.                                           *)
Exporting ==
  /\ \A t \in Tasks : value[t] # None =>
       /\ pc[t] = "export" /\ value[t].region \in Held
       /\ value[t].sketch = sketches[value[t].region]
  /\ \A r \in Regions : gauge[r] # None =>
       r \in Held /\ Below(gauge[r], sketches[r])

(* A visit is counted under its own region, at its first step.             *)
Totals ==
  /\ \A v \in Visits, r \in Regions : v \in total[r] => r = Region(v)
  /\ engine = "on" =>
       \A v \in Visits : pc[v] # "idle" => v \in total[Region(v)]
  /\ \A q \in Requests : visit[q].region = ParseRegion(shape[q].country)

(* Where a request stands tells which series have it.                      *)
Series ==
  /\ \A q \in Requests : stage[q] # "service" => pc[q] # "idle"
  /\ engine = "on" => \A q \in Requests : stage[q] = "time" => q \in counted

Inductive ==
  /\ TypeOK /\ Places /\ Exporting /\ Totals /\ Series /\ SeriesAgree
  /\ IsFiniteSet(Held) /\ RegionsCapped

-----------------------------------------------------------------------------
(* The numbers of the sketch                                               *)

Rest == W - P

(* The widths of a hash and of its index, and the powers of two.           *)
LEMMA Widths ==
  /\ W \in Nat /\ P \in Nat /\ Rest \in Nat \ {0} /\ W = Rest + P
  /\ Power \in [Nat -> Nat \ {0}] /\ Power[0] = 1
  /\ \A n \in Nat : Power[n + 1] = 2 * Power[n]
  /\ \A n \in 0 .. Rest : Power[n + P] = Power[n] * Power[P]
<1>1. W \in Nat /\ P \in Nat /\ Rest \in Nat \ {0} /\ W = Rest + P
  BY HllAssumption DEF Rest
<1>2. 2 \in Nat \ {0}
  OBVIOUS
<1>3. /\ Power \in [Nat -> Nat \ {0}] /\ Power[0] = 1
      /\ \A n \in Nat : Power[n + 1] = 2 * Power[n]
  BY <1>2, PowersDef DEF Power
<1>4. ASSUME NEW n \in 0 .. Rest PROVE Power[n + P] = Power[n] * Power[P]
  <2>1. n \in Nat
    BY <1>1
  <2> QED
    BY <1>1, <1>2, <2>1, PowersSum DEF Power
<1> QED
  BY <1>1, <1>3, <1>4

(* Powers of two in their order.                                           *)
LEMMA PowersOrder ==
  ASSUME NEW m \in Nat, NEW n \in Nat, m <= n
  PROVE  Power[m] <= Power[n]
<1>1. 2 \in Nat \ {0}
  OBVIOUS
<1> QED
  BY <1>1, PowersGrow DEF Power

(* The number of leading zeros is the only one with that property.         *)
LEMMA LeadingZerosAre ==
  ASSUME NEW x \in Nat, NEW n \in 0 .. W,
         x < Power[W - n], n = W \/ x >= Power[W - n - 1]
  PROVE  LeadingZeros(x) = n
<1>1. W \in Nat /\ Power \in [Nat -> Nat \ {0}]
  BY Widths
<1> DEFINE Is(m) == x < Power[W - m] /\ (m = W \/ x >= Power[W - m - 1])
<1>2. ASSUME NEW k \in 0 .. W, NEW m \in 0 .. W, k < m, Is(k), Is(m) PROVE FALSE
  <2>1. /\ W - m \in Nat /\ W - k - 1 \in Nat /\ W - m <= W - k - 1
        /\ k # W
    BY <1>1, <1>2
  <2>2. Power[W - m] <= Power[W - k - 1]
    BY <2>1, PowersOrder
  <2>3. Power[W - m] \in Nat /\ Power[W - k - 1] \in Nat
    BY <1>1, <2>1
  <2>4. x < Power[W - m] /\ x >= Power[W - k - 1]
    BY <1>2, <2>1
  <2> QED
    BY <2>2, <2>3, <2>4
<1>3. Is(n)
  OBVIOUS
<1>4. LeadingZeros(x) = CHOOSE m \in 0 .. W : Is(m)
  BY DEF LeadingZeros
<1> HIDE DEF Is
<1>5. ASSUME NEW m \in 0 .. W, Is(m) PROVE m = n
  <2>1. m \in Int /\ n \in Int
    OBVIOUS
  <2>2. ~(m < n) /\ ~(n < m)
    BY <1>2, <1>3, <1>5
  <2> QED
    BY <2>1, <2>2
<1> QED
  BY <1>3, <1>4, <1>5

(* What is left of a hash below its index.                                 *)
LEMMA TailFacts ==
  ASSUME NEW h \in Hash
  PROVE  /\ h \in Nat
         /\ Index(h) \in Register
         /\ h % Power[Rest] \in 0 .. Power[Rest] - 1
         /\ h = Power[Rest] * Index(h) + (h % Power[Rest])
         /\ (h * Power[P]) % Power[W] = (h % Power[Rest]) * Power[P]
<1> DEFINE n == Power[Rest]
           p == Power[P]
           q == h \div n
           r == h % n
<1>1. Power[W] = n * p /\ n \in Nat \ {0} /\ p \in Nat \ {0}
  <2>1. Rest \in 0 .. Rest /\ Rest \in Nat /\ P \in Nat
    BY Widths
  <2> QED
    BY <2>1, Widths
<1>2. h \in Nat /\ h < Power[W] /\ Power[W] \in Nat
  BY <1>1, Widths DEF Hash
<1>3. Index(h) = q
  BY DEF Index, Rest
<1> HIDE DEF n, p
<1>4. q \in Nat /\ r \in 0 .. n - 1 /\ h = n * q + r
  BY <1>1, <1>2, Division
<1> HIDE DEF q, r
<1>5. q < p
  <2> SUFFICES ASSUME p <= q PROVE FALSE
    BY <1>1, <1>4
  <2>1. n * p <= n * q
    BY <1>1, <1>4
  <2>2. n * p \in Nat /\ n * q \in Nat
    BY <1>1, <1>4
  <2> QED
    BY <1>1, <1>2, <1>4, <2>1, <2>2
<1>6. (h * p) % (n * p) = r * p
  <2>1. h * p = (n * p) * q + r * p
    <3>1. (n * q + r) * p = (n * p) * q + r * p
      BY <1>1, <1>4
    <3> QED
      BY <1>4, <3>1
  <2>2. r * p < n * p /\ r * p \in Nat
    <3>1. r \in Nat /\ r + 1 <= n
      BY <1>1, <1>4
    <3>2. (r + 1) * p <= n * p
      BY <1>1, <3>1
    <3>3. (r + 1) * p = r * p + p /\ r * p \in Nat /\ n * p \in Nat
      BY <1>1, <3>1
    <3> QED
      BY <1>1, <3>2, <3>3
  <2>3. h * p \in Nat /\ n * p \in Nat \ {0}
    BY <1>1, <1>2
  <2> QED
    BY <1>4, <2>1, <2>2, <2>3, ModUnique
<1>7. q \in Register
  BY <1>1, <1>4, <1>5 DEF Register, p
<1> QED
  BY <1>1, <1>2, <1>3, <1>4, <1>6, <1>7 DEF n, p, r

(* The bits below the index are those of what is left.                     *)
LEMMA BitsOfTail ==
  ASSUME NEW h \in Hash, NEW k \in 1 .. Rest
  PROVE  Bit(h, k) = ((h % Power[Rest]) \div Power[Rest - k]) % 2
<1> DEFINE d == Power[Rest - k]
           e == Power[k - 1]
           q == Index(h)
           r == h % Power[Rest]
           s == r \div d
<1>1. Rest - k \in Nat /\ k - 1 \in Nat /\ k \in Nat /\ (k - 1) + 1 = k
      /\ Rest = k + (Rest - k)
  BY Widths
<1>2. Power[k] = 2 * e /\ e \in Nat /\ d \in Nat \ {0}
  BY <1>1, Widths
<1>3. Power[Rest] = Power[k] * d
  <2> DEFINE c == Rest - k
  <2>1. 2 \in Nat \ {0} /\ c \in Nat /\ k \in Nat /\ Rest = k + c
    BY <1>1
  <2> HIDE DEF c
  <2>2. PowersOf(2)[k + c] = PowersOf(2)[k] * PowersOf(2)[c]
    BY <2>1, PowersSum
  <2> QED
    BY <2>1, <2>2 DEF Power, c
<1>4. /\ h \in Nat /\ r \in Nat /\ h = Power[Rest] * q + r /\ q \in Nat
  BY TailFacts, Widths DEF Register
<1>5. Bit(h, k) = (h \div d) % 2
  BY DEF Bit, Rest
<1> HIDE DEF d, e, q, r
<1>6. s \in Nat /\ r % d \in 0 .. d - 1 /\ r = d * s + (r % d)
  BY <1>2, <1>4, Division
<1> DEFINE t == r % d
<1> HIDE DEF s, t
<1>7. h \div d = (2 * (e * q)) + s
  <2>1. h = ((2 * e) * d) * q + (d * s + t)
    BY <1>2, <1>3, <1>4, <1>6 DEF t
  <2>2. ((2 * e) * d) * q + (d * s + t) = d * ((2 * (e * q)) + s) + t
    <3>1. t \in Nat
      BY <1>2, <1>6 DEF t
    <3>2. ((2 * e) * d) * q = d * (2 * (e * q))
      BY <1>2, <1>4
    <3>3. d * ((2 * (e * q)) + s) = d * (2 * (e * q)) + d * s
      BY <1>2, <1>4, <1>6
    <3>4. d * (2 * (e * q)) \in Nat /\ d * s \in Nat
      BY <1>2, <1>4, <1>6
    <3> QED
      BY <3>1, <3>2, <3>3, <3>4
  <2>3. (2 * (e * q)) + s \in Nat /\ t \in Nat /\ t < d
    BY <1>2, <1>4, <1>6 DEF t
  <2> QED
    BY <1>2, <1>4, <2>1, <2>2, <2>3, DivisionUnique
<1>8. ((2 * (e * q)) + s) % 2 = s % 2
  <2> DEFINE x == e * q
  <2>1. x \in Nat
    BY <1>2, <1>4
  <2> HIDE DEF x
  <2>2. (2 * x + s) % 2 = s % 2
    BY <1>6, <2>1
  <2> QED
    BY <2>2 DEF x
<1>9. Bit(h, k) = s % 2
  BY <1>5, <1>7, <1>8
<1> QED
  BY <1>9 DEF s, r, d

(* The rank that the code computes from the leading zeros is the place of  *)
(* the first one among the bits, for every width.                          *)
LEMMA RhoIsFirstOne ==
  ASSUME NEW h \in Hash
  PROVE  Rho(h) = FirstOne(h) /\ FirstOne(h) \in 1 .. W + 1
<1> DEFINE r == h % Power[Rest]
           p == Power[P]
<1>1. /\ r \in 0 .. Power[Rest] - 1 /\ Power[Rest] \in Nat \ {0} /\ p \in Nat \ {0}
      /\ Rho(h) = LeadingZeros(r * p) + 1
      /\ \A k \in 1 .. Rest : Bit(h, k) = (r \div Power[Rest - k]) % 2
  BY TailFacts, BitsOfTail, Widths DEF Rho
<1>2. r \in Nat /\ r < Power[Rest]
  BY <1>1
<1>3. OneBits(h) = {k \in 1 .. Rest : Bit(h, k) = 1}
  BY DEF OneBits, Rest
<1>4. /\ W \in Nat /\ P \in Nat /\ Rest \in Nat \ {0} /\ W = Rest + P
      /\ \A n \in Nat : Power[n] \in Nat \ {0} /\ Power[n + 1] = 2 * Power[n]
      /\ \A n \in 0 .. Rest : Power[n + P] = Power[n] * p
      /\ Power[0] = 1
  BY Widths
<1> HIDE DEF r, p
<1>5. CASE r = 0
  <2>1. LeadingZeros(0) = W
    <3>1. W \in 0 .. W /\ W - W = 0 /\ 0 \in Nat /\ 0 < Power[0]
      BY <1>4
    <3> QED
      BY <3>1, LeadingZerosAre
  <2>2. r * p = 0
    BY <1>1, <1>5
  <2>3. ASSUME NEW k \in 1 .. Rest PROVE Bit(h, k) # 1
    <3> DEFINE d == Power[Rest - k]
    <3>1. d \in Nat \ {0}
      BY <1>4
    <3>2. Bit(h, k) = (0 \div d) % 2
      BY <1>1, <1>5
    <3> HIDE DEF d
    <3>3. (0 \div d) % 2 = 0
      <4>1. 0 \div d = 0
        BY <3>1
      <4> QED
        BY <4>1
    <3> QED
      BY <3>2, <3>3
  <2>4. FirstOne(h) = W + 1
    BY <1>3, <2>3 DEF FirstOne
  <2> QED
    BY <1>1, <1>4, <2>1, <2>2, <2>4
<1>6. CASE r # 0
  <2> DEFINE T == {k \in 1 .. Rest : r >= Power[Rest - k]}
  <2>1. T \in SUBSET Nat /\ T # {}
    <3>1. Rest \in 1 .. Rest /\ Rest - Rest = 0 /\ r >= Power[0]
      BY <1>2, <1>4, <1>6
    <3>2. 1 .. Rest \subseteq Nat
      BY <1>4
    <3> QED
      BY <3>1, <3>2
  <2>2. PICK k \in T : \A j \in T : k <= j
    BY <2>1, Least
  <2>3. k \in 1 .. Rest /\ k \in Nat /\ k > 0 /\ k <= Rest /\ r >= Power[Rest - k]
    BY <1>4, <2>2
  <2> HIDE DEF T
  <2>4. r < Power[Rest - (k - 1)]
    <3>1. CASE k = 1
      <4>1. Rest - (k - 1) = Rest
        BY <1>4, <3>1
      <4> QED
        BY <1>2, <4>1
    <3>2. CASE k # 1
      <4>1. k - 1 \in 1 .. Rest /\ ~(k <= k - 1) /\ Rest - (k - 1) \in Nat
        BY <1>4, <2>3, <3>2
      <4>2. k - 1 \notin T
        BY <2>2, <4>1
      <4>3. ~(r >= Power[Rest - (k - 1)])
        BY <4>1, <4>2 DEF T
      <4> QED
        BY <1>2, <1>4, <4>1, <4>3
    <3> QED
      BY <3>1, <3>2
  <2>5. Bit(h, k) = 1
    <3> DEFINE d == Power[Rest - k]
    <3>1. Rest - k \in Nat /\ Rest - (k - 1) = (Rest - k) + 1
      BY <1>4, <2>3
    <3>2. d \in Nat \ {0} /\ r < 2 * d /\ r >= d
      BY <1>4, <2>3, <2>4, <3>1
    <3>3. Bit(h, k) = (r \div d) % 2
      BY <1>1, <2>3
    <3> HIDE DEF d
    <3>4. r \div d = 1
      BY <1>2, <3>2
    <3>5. 1 % 2 = 1
      OBVIOUS
    <3> QED
      BY <3>3, <3>4, <3>5
  <2>6. ASSUME NEW j \in 1 .. Rest, j < k PROVE Bit(h, j) # 1
    <3> DEFINE d == Power[Rest - j]
    <3>1. /\ Rest - j \in Nat /\ Rest - (k - 1) \in Nat /\ Rest - (k - 1) <= Rest - j
      BY <1>4, <2>3, <2>6
    <3>2. Power[Rest - (k - 1)] <= d
      BY <3>1, PowersOrder
    <3>3. d \in Nat \ {0} /\ Power[Rest - (k - 1)] \in Nat
      BY <1>4, <3>1
    <3>4. Bit(h, j) = (r \div d) % 2
      BY <1>1
    <3> HIDE DEF d
    <3>5. r < d
      BY <1>2, <2>4, <3>2, <3>3
    <3>6. r \div d = 0
      BY <1>2, <3>3, <3>5
    <3>7. 0 % 2 = 0
      OBVIOUS
    <3> QED
      BY <3>4, <3>6, <3>7
  <2>7. FirstOne(h) = k
    <3>1. k \in OneBits(h)
      BY <1>3, <2>3, <2>5
    <3>2. \A j \in OneBits(h) : j \in 1 .. Rest /\ k <= j
      <4> SUFFICES ASSUME NEW j \in OneBits(h) PROVE j \in 1 .. Rest /\ k <= j
        OBVIOUS
      <4>1. j \in 1 .. Rest /\ Bit(h, j) = 1
        BY <1>3
      <4>2. j \in Nat /\ ~(j < k)
        BY <1>4, <2>6, <4>1
      <4> QED
        BY <2>3, <4>1, <4>2
    <3>3. FirstOne(h) = CHOOSE i \in OneBits(h) : \A j \in OneBits(h) : i <= j
      BY <3>1 DEF FirstOne
    <3>4. \A i \in OneBits(h) : (\A j \in OneBits(h) : i <= j) => i = k
      <4> SUFFICES ASSUME NEW i \in OneBits(h), \A j \in OneBits(h) : i <= j PROVE i = k
        OBVIOUS
      <4>1. i <= k /\ k <= i /\ i \in Nat
        BY <1>4, <3>1, <3>2
      <4> QED
        BY <2>3, <4>1
    <3> QED
      BY <3>1, <3>2, <3>3, <3>4
  <2>8. LeadingZeros(r * p) = k - 1
    <3> DEFINE n == k - 1
               a == Rest - n
               c == Rest - k
    <3>1. /\ n \in 0 .. W /\ a \in 0 .. Rest /\ c \in 0 .. Rest
          /\ W - n = a + P /\ W - n - 1 = c + P /\ a \in Nat /\ c \in Nat
      BY <1>4, <2>3
    <3> HIDE DEF n, a, c
    <3>2. Power[W - n] = Power[a] * p /\ Power[W - n - 1] = Power[c] * p
      BY <1>4, <3>1
    <3>3. r < Power[a] /\ r >= Power[c]
      BY <2>3, <2>4 DEF a, c, n
    <3>4. Power[a] \in Nat /\ Power[c] \in Nat
      BY <1>4, <3>1
    <3> DEFINE x == Power[a]
               y == Power[c]
    <3> HIDE DEF x, y
    <3>5. r * p < x * p /\ r * p >= y * p /\ r * p \in Nat
      <4>1. r < x /\ y <= r /\ x \in Nat /\ y \in Nat
        BY <3>3, <3>4 DEF x, y
      <4>2. (r + 1) * p <= x * p /\ y * p <= r * p
        BY <1>1, <1>2, <4>1
      <4>3. (r + 1) * p = r * p + p /\ r * p \in Nat /\ x * p \in Nat /\ y * p \in Nat
        BY <1>1, <1>2, <4>1
      <4> QED
        BY <1>1, <4>2, <4>3
    <3>6. r * p < Power[W - n] /\ r * p >= Power[W - n - 1] /\ r * p \in Nat
      BY <3>2, <3>5 DEF x, y
    <3>7. LeadingZeros(r * p) = n
      BY <3>1, <3>6, LeadingZerosAre
    <3> QED
      BY <3>7 DEF n
  <2> QED
    BY <1>1, <1>4, <2>3, <2>7, <2>8
<1> QED
  BY <1>5, <1>6

-----------------------------------------------------------------------------
(* Folding a hash keeps a sketch a sketch, and only raises it.             *)
LEMMA AddRaises ==
  ASSUME NEW s \in Sketch, NEW h \in Hash
  PROVE  Add(s, h) \in Sketch /\ Below(s, Add(s, h))
<1>1. Rho(h) \in 0 .. W + 1 /\ W \in Nat
  BY RhoIsFirstOne, HllAssumption
<1> DEFINE rank == Rho(h)
<1> HIDE DEF rank
<1>2. Add(s, h) = [s EXCEPT ![Index(h)] = IF rank > @ THEN rank ELSE @]
  BY DEF Add, rank
<1>3. rank \in 0 .. W + 1
  BY <1>1 DEF rank
<1>4. /\ DOMAIN s = Register /\ DOMAIN Add(s, h) = Register
      /\ \A i \in Register : s[i] \in 0 .. W + 1
  BY <1>2 DEF Sketch
<1>5. \A i \in Register : Add(s, h)[i] \in 0 .. W + 1 /\ s[i] <= Add(s, h)[i]
  BY <1>1, <1>2, <1>3, <1>4
<1> QED
  BY <1>2, <1>4, <1>5 DEF Sketch, Below

(* Sketches are compared register by register.                             *)
LEMMA BelowOrder ==
  /\ \A s \in Sketch : Below(s, s)
  /\ \A s, t, u \in Sketch : Below(s, t) /\ Below(t, u) => Below(s, u)
<1>1. \A s \in Sketch : \A i \in Register : s[i] \in Nat
  BY HllAssumption DEF Sketch
<1> QED
  BY <1>1 DEF Below

(* A region is one that the series know, whatever the caller passed.       *)
LEMMA RegionKnown == \A region : Normal(region) \in Regions
BY DEF Normal, Regions

(* The sketch of no visit is a sketch.                                     *)
LEMMA EmptySketch == Empty \in Sketch
BY HllAssumption DEF Empty, Sketch

(* The first of three headers that holds a code, found from the set of all *)
(* that do, is the first one met on the way from the left.                 *)
LEMMA FirstOfThree ==
  ASSUME NEW s \in Shapes
  PROVE  FirstCode(s.country, Normal(ParseRegion(s.country)))
<1> DEFINE country == s.country
           valid == {i \in DOMAIN country : country[i] \in Codes}
<1>1. DOMAIN country = 1 .. 3
  BY RequestsAssumption
<1> HIDE DEF country
<1>2. CASE valid = {}
  <2>1. Normal(ParseRegion(country)) = Unknown
    BY <1>2 DEF ParseRegion, Normal
  <2>2. \A j \in 1 .. 3 : country[j] \notin Codes
    BY <1>1, <1>2
  <2> QED
    BY <2>1, <2>2 DEF FirstCode, country
<1>3. CASE valid # {}
  <2> DEFINE First(i) == \A j \in valid : i <= j
  <2>1. \E i \in valid : First(i)
    BY <1>1, <1>3
  <2>2. PICK i \in valid : First(i) /\ ParseRegion(country) = country[i]
    BY <2>1, <1>3 DEF ParseRegion
  <2>3. i \in 1 .. 3 /\ country[i] \in Codes
    BY <1>1
  <2>4. Normal(ParseRegion(country)) = country[i]
    BY <2>2, <2>3 DEF Normal
  <2>5. \A j \in 1 .. i - 1 : country[j] \notin Codes
    BY <1>1, <2>2, <2>3
  <2> QED
    BY <2>3, <2>4, <2>5 DEF FirstCode, country
<1> QED
  BY <1>2, <1>3

-----------------------------------------------------------------------------
(* At first nothing is held, counted or exported.                          *)
LEMMA InductiveInit == WebInit => Inductive
<1> SUFFICES ASSUME WebInit PROVE Inductive
  OBVIOUS
<1> USE VisitorsAssumption, RequestsAssumption DEF WebInit, Init
<1>1. PICK direct \in [Visits \ Requests -> Arrivals] :
        visit = [v \in Visits |-> CASE v \in Axum -> AxumVisit(shape[v])
                                    [] v \in Actix -> ActixVisit(shape[v])
                                    [] OTHER -> direct[v]]
  OBVIOUS
<1>2. \A s \in Shapes : /\ AxumVisit(s).hash \in Hash /\ ActixVisit(s).hash \in Hash
                        /\ AxumVisit(s).region = ParseRegion(s.country)
                        /\ ActixVisit(s).region = ParseRegion(s.country)
  BY DigestAssumption DEF AxumVisit, ActixVisit
<1>3. \A s \in Shapes : ParseRegion(s.country) \in Codes \cup {Unknown}
  <2> SUFFICES ASSUME NEW s \in Shapes
               PROVE  ParseRegion(s.country) \in Codes \cup {Unknown}
    OBVIOUS
  <2> DEFINE valid == {i \in DOMAIN s.country : s.country[i] \in Codes}
  <2>1. CASE valid = {}
    BY <2>1 DEF ParseRegion
  <2>2. CASE valid # {}
    <3>1. DOMAIN s.country = 1 .. 3
      OBVIOUS
    <3>2. \E i \in valid : \A j \in valid : i <= j
      BY <2>2, <3>1
    <3> QED
      BY <2>2, <3>2 DEF ParseRegion
  <2> QED
    BY <2>1, <2>2
<1>4. \A q \in Requests : /\ visit[q] \in [hash : Hash, region : Regions]
                          /\ visit[q].region = ParseRegion(shape[q].country)
  BY <1>1, <1>2, <1>3 DEF Requests, Regions, AxumVisit, ActixVisit
<1>5. \A v \in Visits \ Requests : visit[v] \in [hash : Hash, region : Regions \cup {Junk}]
  BY <1>1 DEF Requests, Regions
<1>6. visit \in [Visits -> [hash : Hash, region : Regions \cup {Junk}]]
  BY <1>1, <1>4, <1>5
<1>7. TypeOK
  <2>1. Held = {} /\ sketches \in [Held -> Sketch]
    BY DEF Held
  <2>2. \A x \in Visits \cup Tasks :
          pc[x] = "idle" /\ lock # x
    OBVIOUS
  <2>3. /\ total \in [Regions -> SUBSET Visits]
        /\ gauge \in [Regions -> Sketch \cup {None}]
        /\ value \in [Tasks -> [region : Regions, sketch : Sketch] \cup {None}]
        /\ stage \in [Requests -> {"service", "count", "time", "done", "dropped"}]
        /\ todo \in [Tasks -> SUBSET Held]
    OBVIOUS
  <2> QED
    BY <1>6, <2>1, <2>2, <2>3 DEF TypeOK
<1>8. Held = {} /\ IsFiniteSet(Held) /\ IsFiniteSet(Held \ {Other})
  BY FS_EmptySet DEF Held
<1>9. RegionsCapped
  <2>1. Held \ {Other} = {} /\ Folded = {}
    BY <1>8 DEF Folded
  <2>2. Cardinality(Held \ {Other}) = 0
    BY <2>1, FS_EmptySet
  <2> QED
    BY <2>1, <2>2 DEF RegionsCapped
<1> QED
  BY <1>4, <1>7, <1>8, <1>9
     DEF Inductive, Places, Exporting, Totals, Series, SeriesAgree

(* No step changes what a visit is or where its request comes from.        *)
LEMMA Fixed == [Next]_all => visit' = visit /\ shape' = shape
BY DEF Next, all, vars, web, Observe, ObserveCount, ObserveLock, ObserveFold,
       Snapshot, SnapshotLock, SnapshotEstimate, SnapshotRecord, SnapshotEnd,
       Track, EngineShutdown

(* The first step of observe().                                            *)
LEMMA CountStep ==
  ASSUME Inductive, NEW v \in Visits, ObserveCount(v), UNCHANGED web
  PROVE  Inductive'
<1> USE VisitorsAssumption, RequestsAssumption
<1>1. /\ pc[v] = "idle" /\ pc' = [pc EXCEPT ![v] = "lock"]
      /\ total' = IF engine = "on" THEN [total EXCEPT ![Region(v)] = @ \cup {v}]
                  ELSE total
      /\ UNCHANGED <<sketches, lock, poisoned, engine, gauge, visit, clash, todo,
                     value, shape, stage, counted, timed>>
  BY DEF ObserveCount, Goto, web
<1>2. Region(v) \in Regions /\ \A u \in Visits : Region(u)' = Region(u)
  BY <1>1, RegionKnown DEF Region
<1>3. \A r \in Regions : total[r] \subseteq total'[r] /\ total'[r] \subseteq total[r] \cup {v}
  BY <1>1, <1>2 DEF Inductive, TypeOK
<1>4. Held' = Held
  BY <1>1 DEF Held
<1>5. TypeOK'
  BY <1>1, <1>2, <1>4 DEF Inductive, TypeOK
<1>6. Places' /\ Exporting'
  BY <1>1, <1>4 DEF Inductive, TypeOK, Places, Exporting
<1>7. Totals'
  BY <1>1, <1>2 DEF Inductive, TypeOK, Totals
<1>8. Series' /\ SeriesAgree'
  BY <1>1, <1>3 DEF Inductive, TypeOK, Series, SeriesAgree
<1>9. Folded' = Folded
  BY <1>1 DEF Folded, Inductive, TypeOK
<1> QED
  BY <1>2, <1>4, <1>5, <1>6, <1>7, <1>8, <1>9 DEF Inductive, RegionsCapped, Folded

(* The lock is taken, or the visit goes unseen.                            *)
LEMMA LockStep ==
  ASSUME Inductive, NEW v \in Visits, ObserveLock(v), UNCHANGED web
  PROVE  Inductive'
<1> USE VisitorsAssumption, RequestsAssumption
<1>1. /\ pc[v] = "lock"
      /\ \/ lock = None /\ lock' = v /\ pc' = [pc EXCEPT ![v] = "fold"]
         \/ lock' = lock /\ pc' = [pc EXCEPT ![v] = "missed"]
      /\ UNCHANGED <<sketches, poisoned, engine, total, gauge, visit, clash, todo,
                     value, shape, stage, counted, timed>>
  BY DEF ObserveLock, Lockable, Goto, web
<1>2. \A u \in Visits : Region(u)' = Region(u)
  BY <1>1 DEF Region
<1>3. Held' = Held
  BY <1>1 DEF Held
<1>4. TypeOK'
  <2>1. \A x \in Visits \cup Tasks : (pc[x] \in {"fold", "export"} <=> lock = x)'
    BY <1>1 DEF Inductive, TypeOK
  <2>2. lock' \in Visits \cup Tasks \cup {None}
    BY <1>1 DEF Inductive, TypeOK
  <2>3. pc' \in [Visits \cup Tasks -> {"idle", "lock", "fold", "folded", "missed",
                                       "export", "panicked"}]
    BY <1>1 DEF Inductive, TypeOK
  <2> QED
    BY <1>1, <1>3, <2>1, <2>2, <2>3 DEF Inductive, TypeOK
<1>5. Places' /\ Exporting'
  <2>1. \A t \in Tasks : pc'[t] = pc[t]
    BY <1>1 DEF Inductive, TypeOK
  <2>2. Places'
    BY <1>1, <2>1 DEF Inductive, TypeOK, Places
  <2> QED
    BY <1>1, <1>3, <2>1, <2>2 DEF Inductive, Exporting
<1>6. Totals'
  BY <1>1, <1>2 DEF Inductive, TypeOK, Totals
<1>7. Series' /\ SeriesAgree'
  BY <1>1 DEF Inductive, TypeOK, Series, SeriesAgree
<1>8. Folded' = Folded
  BY <1>1 DEF Folded, Inductive, TypeOK
<1> QED
  BY <1>2, <1>3, <1>4, <1>5, <1>6, <1>7, <1>8 DEF Inductive, RegionsCapped, Folded

(* Only the holder of the lock changes a sketch, and it exports none.      *)
LEMMA FoldStep ==
  ASSUME Inductive, NEW v \in Visits, ObserveFold(v), UNCHANGED web
  PROVE  Inductive'
<1> USE VisitorsAssumption, RequestsAssumption
<1> DEFINE b == Bucket(v)
           old == IF b \in Held THEN sketches[b] ELSE Empty
           new == Add(old, visit[v].hash)
<1>1. /\ pc[v] = "fold" /\ pc' = [pc EXCEPT ![v] = "folded"] /\ lock' = None
      /\ sketches' = [r \in Held \cup {b} |-> IF r = b THEN new ELSE sketches[r]]
      /\ UNCHANGED <<poisoned, engine, total, gauge, visit, clash, todo, value,
                     shape, stage, counted, timed>>
  BY DEF ObserveFold, Goto, web
<1>2. /\ lock = v /\ v \notin Tasks
      /\ \A t \in Tasks : pc[t] # "export" /\ value[t] = None
  BY <1>1 DEF Inductive, TypeOK, Places, Exporting
<1>3. Region(v) \in Regions /\ \A u \in Visits : Region(u)' = Region(u)
  BY <1>1, RegionKnown DEF Region
<1>4. b \in {Region(v), Other} /\ b \in Regions
  BY <1>3 DEF Bucket, Regions
<1>5. old \in Sketch /\ visit[v].hash \in Hash
  BY EmptySketch DEF Inductive, TypeOK
<1>6. new \in Sketch /\ Below(old, new)
  BY <1>5, AddRaises
<1> HIDE DEF b, old, new
<1>7. Held' = Held \cup {b}
  BY <1>1 DEF Held
<1>8. TypeOK'
  <2>1. \A x \in Visits \cup Tasks : (pc[x] \in {"fold", "export"} <=> lock = x)'
    BY <1>1, <1>2 DEF Inductive, TypeOK
  <2>2. sketches' \in [Held' -> Sketch]
    BY <1>1, <1>6, <1>7 DEF Inductive, TypeOK
  <2>3. Held' \subseteq Regions
    BY <1>4, <1>7 DEF Inductive, TypeOK
  <2>4. pc' \in [Visits \cup Tasks -> {"idle", "lock", "fold", "folded", "missed",
                                       "export", "panicked"}]
    BY <1>1 DEF Inductive, TypeOK
  <2>5. todo' \in [Tasks -> SUBSET Held']
    BY <1>1, <1>7 DEF Inductive, TypeOK
  <2> QED
    BY <1>1, <2>1, <2>2, <2>3, <2>4, <2>5 DEF Inductive, TypeOK
<1>9. Places'
  BY <1>1, <1>2 DEF Inductive, TypeOK, Places
<1>10. Exporting'
  <2>1. ASSUME NEW r \in Regions, gauge[r] # None
        PROVE  r \in Held' /\ Below(gauge[r], sketches'[r])
    <3>1. r \in Held /\ Below(gauge[r], sketches[r])
      BY <2>1 DEF Inductive, Exporting
    <3>2. gauge[r] \in Sketch /\ sketches[r] \in Sketch
      BY <2>1, <3>1 DEF Inductive, TypeOK
    <3>3. CASE r = b
      <4>1. old = sketches[r] /\ sketches'[r] = new
        BY <1>1, <3>1, <3>3 DEF old
      <4> QED
        BY <1>6, <1>7, <3>1, <3>2, <4>1, BelowOrder
    <3>4. CASE r # b
      BY <1>1, <1>7, <3>1, <3>4
    <3> QED
      BY <3>3, <3>4
  <2> QED
    BY <1>1, <1>2, <2>1 DEF Exporting
<1>11. Totals'
  BY <1>1, <1>3 DEF Inductive, TypeOK, Totals
<1>12. Series' /\ SeriesAgree'
  BY <1>1 DEF Inductive, TypeOK, Series, SeriesAgree
<1>13. IsFiniteSet(Held')
  BY <1>7, FS_AddElement DEF Inductive
<1>14. RegionsCapped'
  <2>1. Cardinality(Held' \ {Other}) <= MaxRegions
    <3>1. CASE b \in Held \cup {Other}
      <4>1. Held' \ {Other} = Held \ {Other}
        BY <1>7, <3>1
      <4> QED
        BY <4>1 DEF Inductive, RegionsCapped
    <3>2. CASE b \notin Held \cup {Other}
      <4>1. ~(Cardinality(Held) >= MaxRegions)
        BY <3>2 DEF b, Bucket
      <4>2. Cardinality(Held) \in Nat /\ Cardinality(Held') = Cardinality(Held) + 1
        BY <1>7, <3>2, FS_AddElement, FS_CardinalityType DEF Inductive
      <4>3. Cardinality(Held' \ {Other}) <= Cardinality(Held')
        BY <1>13, FS_Subset
      <4>4. Cardinality(Held' \ {Other}) \in Nat
        BY <1>13, FS_Subset, FS_CardinalityType
      <4> QED
        BY <4>1, <4>2, <4>3, <4>4
    <3> QED
      BY <3>1, <3>2
  <2>2. Folded' \subseteq Folded \cup {v}
    BY <1>1 DEF Folded, Inductive, TypeOK
  <2>3. \A u \in Folded' : Region(u)' \in Held' \/ Other \in Held'
    BY <1>3, <1>4, <1>7, <2>2 DEF Inductive, RegionsCapped, Folded
  <2> QED
    BY <2>1, <2>3 DEF RegionsCapped
<1> QED
  BY <1>8, <1>9, <1>10, <1>11, <1>12, <1>13, <1>14 DEF Inductive

-----------------------------------------------------------------------------
(* A snapshot changes neither a sketch nor what is said of the requests.   *)
LEMMA SnapshotFrame ==
  ASSUME Inductive, NEW t \in Tasks, Snapshot(t), UNCHANGED web, TypeOK',
         Exporting', \A x \in Visits : pc'[x] = pc[x],
         pc'[t] \in {"idle", "export", "panicked"},
         \A x \in Tasks \ {t} : pc'[x] = pc[x]
  PROVE  Inductive'
<1> USE VisitorsAssumption, RequestsAssumption
<1>1. UNCHANGED <<sketches, engine, total, visit, shape, stage, counted, timed>>
  BY DEF Snapshot, SnapshotLock, SnapshotEstimate, SnapshotRecord, SnapshotEnd,
         web
<1>2. Held' = Held /\ \A u \in Visits : Region(u)' = Region(u)
  BY <1>1 DEF Held, Region
<1>3. Places'
  BY DEF Inductive, Places
<1>4. Totals' /\ Series' /\ SeriesAgree'
  BY <1>1, <1>2 DEF Inductive, Totals, Series, SeriesAgree
<1>5. Folded' = Folded
  BY DEF Folded
<1> QED
  BY <1>2, <1>3, <1>4, <1>5 DEF Inductive, RegionsCapped, Folded

(* snapshot() records what the sketches are while it holds the lock.       *)
LEMMA SnapshotStep ==
  ASSUME Inductive, NEW t \in Tasks, Snapshot(t), UNCHANGED web
  PROVE  Inductive'
<1> USE VisitorsAssumption, RequestsAssumption
<1> DEFINE Places7 == {"idle", "lock", "fold", "folded", "missed", "export",
                       "panicked"}
<1>0. /\ pc \in [Visits \cup Tasks -> Places7] /\ t \notin Visits
      /\ value \in [Tasks -> [region : Regions, sketch : Sketch] \cup {None}]
      /\ todo \in [Tasks -> SUBSET Held] /\ Held \subseteq Regions
      /\ sketches \in [Held -> Sketch]
      /\ \A x \in Visits \cup Tasks : pc[x] \in {"fold", "export"} <=> lock = x
  BY DEF Inductive, TypeOK
<1>1. ASSUME SnapshotLock(t) PROVE Inductive'
  <2>1. /\ lock = None /\ lock' = t /\ pc' = [pc EXCEPT ![t] = "export"]
        /\ todo' = [todo EXCEPT ![t] = Held]
        /\ UNCHANGED <<sketches, poisoned, engine, total, gauge, visit, clash,
                       value, shape, stage, counted, timed>>
    BY <1>1 DEF SnapshotLock, Lockable, Goto, web
  <2>2. Held' = Held
    BY <2>1 DEF Held
  <2>3. \A x \in Visits \cup Tasks : (pc[x] \in {"fold", "export"} <=> lock = x)'
    BY <1>0, <2>1
  <2>4. TypeOK'
    BY <2>1, <2>2, <2>3 DEF Inductive, TypeOK
  <2>5. Exporting'
    BY <1>0, <2>1, <2>2 DEF Inductive, Exporting
  <2> QED
    BY <1>0, <2>1, <2>4, <2>5, SnapshotFrame
<1>2. ASSUME SnapshotEstimate(t) PROVE Inductive'
  <2>1. PICK r \in todo[t] :
          /\ value' = [value EXCEPT ![t] = [region |-> r, sketch |-> sketches[r]]]
          /\ todo' = [todo EXCEPT ![t] = @ \ {r}]
    BY <1>2 DEF SnapshotEstimate
  <2>2. /\ pc[t] = "export"
        /\ UNCHANGED <<sketches, lock, poisoned, engine, total, gauge, pc, visit,
                       clash, shape, stage, counted, timed>>
    BY <1>2 DEF SnapshotEstimate, web
  <2>3. Held' = Held /\ r \in Held /\ sketches[r] \in Sketch
    BY <1>0, <2>2 DEF Held
  <2>4. /\ value' \in [Tasks -> [region : Regions, sketch : Sketch] \cup {None}]
        /\ todo' \in [Tasks -> SUBSET Held]
    BY <1>0, <2>1, <2>3
  <2>5. TypeOK'
    BY <2>2, <2>3, <2>4 DEF Inductive, TypeOK
  <2>6. Exporting'
    BY <1>0, <2>1, <2>2, <2>3 DEF Inductive, Exporting
  <2>7. /\ \A x \in Visits \cup Tasks : pc'[x] = pc[x] /\ pc'[t] = "export"
    BY <2>2
  <2> QED
    BY <2>5, <2>6, <2>7, SnapshotFrame
<1>3. ASSUME SnapshotRecord(t) PROVE Inductive'
  <2>1. /\ pc[t] = "export" /\ lock = t /\ value[t] # None
        /\ value' = [value EXCEPT ![t] = None]
        /\ \/ /\ lock' = None /\ pc' = [pc EXCEPT ![t] = "panicked"]
              /\ gauge' = gauge /\ poisoned' = TRUE
           \/ /\ UNCHANGED <<lock, pc, poisoned>>
              /\ \/ gauge' = gauge
                 \/ gauge' = [gauge EXCEPT ![value[t].region] = value[t].sketch]
        /\ UNCHANGED <<sketches, engine, total, visit, clash, todo, shape, stage,
                       counted, timed>>
    BY <1>0, <1>3 DEF SnapshotRecord, Goto, web
  <2>2. Held' = Held
    BY <2>1 DEF Held
  <2>3. /\ value[t].region \in Held /\ value[t].sketch = sketches[value[t].region]
        /\ value[t].region \in Regions /\ value[t].sketch \in Sketch
    BY <1>0, <2>1 DEF Inductive, Exporting
  <2>4. \A x \in Visits \cup Tasks : (pc[x] \in {"fold", "export"} <=> lock = x)'
    BY <1>0, <2>1
  <2>5. pc' \in [Visits \cup Tasks -> Places7]
    BY <1>0, <2>1
  <2>6. gauge' \in [Regions -> Sketch \cup {None}]
    BY <2>1, <2>3 DEF Inductive, TypeOK
  <2>7. value' \in [Tasks -> [region : Regions, sketch : Sketch] \cup {None}]
    BY <1>0, <2>1
  <2>8. lock' \in Visits \cup Tasks \cup {None} /\ poisoned' \in BOOLEAN
    BY <2>1 DEF Inductive, TypeOK
  <2>9. TypeOK'
    BY <2>1, <2>2, <2>4, <2>5, <2>6, <2>7, <2>8 DEF Inductive, TypeOK
  <2>10. \A x \in Tasks \ {t} : pc[x] # "export" /\ value'[x] = None
    BY <1>0, <2>1 DEF Inductive, Exporting
  <2>11. Below(sketches[value[t].region], sketches[value[t].region])
    BY <1>0, <2>3, BelowOrder
  <2>12. \A r \in Regions : gauge'[r] # None =>
           r \in Held /\ Below(gauge'[r], sketches[r])
    BY <2>1, <2>3, <2>11 DEF Inductive, TypeOK, Exporting
  <2>13. value'[t] = None
    BY <1>0, <2>1
  <2>14. Exporting'
    BY <2>1, <2>2, <2>10, <2>12, <2>13 DEF Exporting
  <2>15. /\ \A x \in Visits : pc'[x] = pc[x]
         /\ \A x \in Tasks \ {t} : pc'[x] = pc[x]
         /\ pc'[t] \in {"export", "panicked"}
    BY <1>0, <2>1
  <2> QED
    BY <2>9, <2>14, <2>15, SnapshotFrame
<1>4. ASSUME SnapshotEnd(t) PROVE Inductive'
  <2>1. /\ pc[t] = "export" /\ value[t] = None /\ lock' = None
        /\ pc' = [pc EXCEPT ![t] = "idle"]
        /\ UNCHANGED <<sketches, poisoned, engine, total, gauge, visit, clash,
                       todo, value, shape, stage, counted, timed>>
    BY <1>0, <1>4 DEF SnapshotEnd, Goto, web
  <2>2. Held' = Held
    BY <2>1 DEF Held
  <2>3. \A x \in Visits \cup Tasks : (pc[x] \in {"fold", "export"} <=> lock = x)'
    BY <1>0, <2>1
  <2>4. TypeOK'
    BY <2>1, <2>2, <2>3 DEF Inductive, TypeOK
  <2>5. Exporting'
    BY <1>0, <2>1, <2>2 DEF Inductive, Exporting
  <2> QED
    BY <1>0, <2>1, <2>4, <2>5, SnapshotFrame
<1> QED
  BY <1>1, <1>2, <1>3, <1>4 DEF Snapshot

(* The steps of the tracking layers.                                       *)
LEMMA TrackStep == ASSUME Inductive, NEW q \in Requests, Track(q) PROVE Inductive'
<1> USE RequestsAssumption
<1>1. UNCHANGED <<vars, shape>>
  BY DEF Track
<1>2. /\ Held' = Held /\ Folded' = Folded
      /\ \A u \in Visits : Region(u)' = Region(u)
  BY <1>1 DEF vars, Held, Folded, Region
<1>3. Places' /\ Exporting' /\ Totals'
  BY <1>1, <1>2 DEF vars, Inductive, Places, Exporting, Totals
<1>4. ASSUME stage' \in [Requests -> {"service", "count", "time", "done", "dropped"}],
             counted' \subseteq Requests, timed' \subseteq Requests
      PROVE  TypeOK'
  BY <1>1, <1>2, <1>4 DEF vars, Inductive, TypeOK
<1>5. CASE Return(q) \/ Err(q) \/ Drop(q)
  <2>1. /\ pc[q] # "idle" /\ UNCHANGED <<counted, timed>>
        /\ \/ stage' = [stage EXCEPT ![q] = "count"]
           \/ stage' = [stage EXCEPT ![q] = "dropped"]
    BY <1>5 DEF Return, Err, Drop, Step
  <2>2. TypeOK'
    BY <2>1, <1>4 DEF Inductive, TypeOK
  <2>3. Series' /\ SeriesAgree'
    BY <2>1, <1>1 DEF vars, Inductive, TypeOK, Series, SeriesAgree
  <2> QED
    BY <1>2, <1>3, <2>2, <2>3 DEF Inductive, RegionsCapped, Folded
<1>6. CASE Count(q)
  <2>1. /\ stage[q] = "count" /\ stage' = [stage EXCEPT ![q] = "time"]
        /\ counted' = IF engine = "on" THEN counted \cup {q} ELSE counted
        /\ timed' = timed
    BY <1>6 DEF Count, Step
  <2>2. TypeOK'
    BY <2>1, <1>4 DEF Inductive, TypeOK
  <2>3. engine = "on" => \E r \in Regions : q \in total[r]
    BY <2>1, RegionKnown DEF Inductive, Series, Totals, Region
  <2>4. Series' /\ SeriesAgree'
    BY <2>1, <2>3, <1>1 DEF vars, Inductive, TypeOK, Series, SeriesAgree
  <2> QED
    BY <1>2, <1>3, <2>2, <2>4 DEF Inductive, RegionsCapped, Folded
<1>7. CASE Time(q)
  <2>1. /\ stage[q] = "time" /\ stage' = [stage EXCEPT ![q] = "done"]
        /\ timed' = IF engine = "on" THEN timed \cup {q} ELSE timed
        /\ counted' = counted
    BY <1>7 DEF Time, Step
  <2>2. TypeOK'
    BY <2>1, <1>4 DEF Inductive, TypeOK
  <2>3. Series' /\ SeriesAgree'
    BY <2>1, <1>1 DEF vars, Inductive, TypeOK, Series, SeriesAgree
  <2> QED
    BY <1>2, <1>3, <2>2, <2>3 DEF Inductive, RegionsCapped, Folded
<1> QED
  BY <1>5, <1>6, <1>7 DEF Track

(* shutdown(), and a step that changes nothing.                            *)
LEMMA QuietStep ==
  ASSUME Inductive, EngineShutdown \/ UNCHANGED all
  PROVE  Inductive'
<1>1. /\ UNCHANGED <<sketches, lock, poisoned, total, gauge, pc, visit, clash,
                     todo, value, shape, stage, counted, timed>>
      /\ engine' = engine \/ engine' = "down"
  BY DEF EngineShutdown, all, vars, web
<1>2. /\ Held' = Held /\ Folded' = Folded
      /\ \A u \in Visits : Region(u)' = Region(u)
  BY <1>1 DEF Held, Folded, Region
<1>3. TypeOK'
  BY <1>1, <1>2 DEF Inductive, TypeOK
<1>4. Places' /\ Exporting' /\ Totals' /\ Series' /\ SeriesAgree'
  BY <1>1, <1>2
     DEF Inductive, Places, Exporting, Totals, Series, SeriesAgree
<1> QED
  BY <1>2, <1>3, <1>4 DEF Inductive, RegionsCapped, Folded

(* Every step keeps the invariant.                                         *)
LEMMA InductiveStep == ASSUME Inductive, [Next]_all PROVE Inductive'
BY CountStep, LockStep, FoldStep, SnapshotStep, TrackStep, QuietStep
   DEF Next, Observe

-----------------------------------------------------------------------------
(* Every variable keeps its type, and the tracker's mutex is held by       *)
(* whoever is inside observe() or snapshot().                              *)
THEOREM TrackerTypes == Spec => []TypeOK
<1>1. Inductive => TypeOK
  BY DEF Inductive
<1> QED
  BY InductiveInit, InductiveStep, <1>1, PTL DEF Spec, all

(* max_regions bounds the map of VisitorsTracker::observe() however visits *)
(* of however many countries interleave, and no folded visit falls out.    *)
THEOREM CapHolds == Spec => []RegionsCapped
<1>1. Inductive => RegionsCapped
  BY DEF Inductive
<1> QED
  BY InductiveInit, InductiveStep, <1>1, PTL DEF Spec, all

(* snapshot() exports no older sketch of a region after a newer one, with  *)
(* any number of snapshot tasks.                                           *)
THEOREM GaugesInOrder == Spec => GaugeNeverStale
<1> DEFINE Ordered == \A r \in Regions :
      gauge[r] # None => gauge'[r] # None /\ Below(gauge[r], gauge'[r])
<1>1. ASSUME Inductive, [Next]_all PROVE [Ordered]_vars
  <2>1. CASE gauge' = gauge
    <3>1. \A r \in Regions : gauge[r] # None => gauge[r] \in Sketch
      BY <1>1 DEF Inductive, TypeOK
    <3> QED
      BY <2>1, <3>1, BelowOrder
  <2>2. CASE gauge' # gauge
    <3>1. PICK t \in Tasks : SnapshotRecord(t)
      BY <1>1, <2>2
         DEF Next, all, vars, Observe, ObserveCount, ObserveLock, ObserveFold,
             Snapshot, SnapshotLock, SnapshotEstimate, SnapshotEnd, Track,
             EngineShutdown
    <3>2. /\ value[t] # None
          /\ gauge' = [gauge EXCEPT ![value[t].region] = value[t].sketch]
      BY <2>2, <3>1 DEF SnapshotRecord
    <3>3. /\ value[t].region \in Held /\ value[t].sketch \in Sketch
          /\ value[t].sketch = sketches[value[t].region]
      BY <1>1, <3>2 DEF Inductive, TypeOK, Exporting
    <3>4. \A r \in Regions : gauge[r] # None =>
            gauge[r] \in Sketch /\ Below(gauge[r], sketches[r])
      BY <1>1 DEF Inductive, TypeOK, Exporting
    <3>5. gauge \in [Regions -> Sketch \cup {None}] /\ None \notin Sketch
      BY <1>1, VisitorsAssumption DEF Inductive, TypeOK
    <3> QED
      BY <3>2, <3>3, <3>4, <3>5, BelowOrder
  <2> QED
    BY <2>1, <2>2
<1> QED
  BY InductiveInit, InductiveStep, <1>1, PTL DEF Spec, all, GaugeNeverStale

(* Every visit is in visitors_total once, that of a request under the      *)
(* first code among the country headers (parse_region).                    *)
THEOREM CountedOnce == Spec => []VisitsByCountry
<1>1. Inductive => VisitsByCountry
  <2> SUFFICES ASSUME Inductive PROVE VisitsByCountry
    OBVIOUS
  <2>1. ASSUME engine = "on", NEW v \in Visits, pc[v] # "idle"
        PROVE  Cardinality({r \in Regions : v \in total[r]}) = 1
    <3>1. {r \in Regions : v \in total[r]} = {Region(v)}
      BY <2>1, RegionKnown DEF Inductive, Totals, Region
    <3> QED
      BY <3>1, FS_Singleton
  <2>2. ASSUME NEW r \in Regions, NEW q \in Requests, q \in total[r]
        PROVE  FirstCode(shape[q].country, r)
    <3>1. r = Normal(ParseRegion(shape[q].country))
      BY <2>2, RequestsAssumption DEF Inductive, Totals, Region
    <3>2. shape[q] \in Shapes
      BY DEF Inductive, TypeOK
    <3> QED
      BY <3>1, <3>2, FirstOfThree
  <2> QED
    BY <2>1, <2>2 DEF VisitsByCountry
<1> QED
  BY InductiveInit, InductiveStep, <1>1, PTL DEF Spec, all

(* The series of track(), TonggeretService::call() and track_visitors()    *)
(* agree, whatever requests are dropped and whenever shutdown() comes.     *)
THEOREM SeriesTogether == Spec => []SeriesAgree
<1>1. Inductive => SeriesAgree
  BY DEF Inductive
<1> QED
  BY InductiveInit, InductiveStep, <1>1, PTL DEF Spec, all


-----------------------------------------------------------------------------
(* The sketches                                                            *)

Highest(R) == CHOOSE m \in R \cup {0} : \A n \in R : n <= m

(* A bounded set of ranks has one highest.                                 *)
LEMMA HighestIs ==
  ASSUME NEW R, R \subseteq 1 .. W + 1
  PROVE  /\ Highest(R) \in R \cup {0} /\ Highest(R) \in Nat
         /\ \A n \in R : n <= Highest(R)
         /\ \A m \in R \cup {0} : (\A n \in R : n <= m) => Highest(R) = m
<1>1. W + 1 \in Nat /\ \A n \in R : n \in Nat /\ n <= W + 1 /\ 0 <= n
  BY Widths
<1>2. \E m \in R \cup {0} : \A n \in R : n <= m
  <2>1. CASE R = {}
    BY <2>1
  <2>2. CASE R # {}
    <3>1. R \in SUBSET Nat
      BY <1>1
    <3> QED
      BY <1>1, <2>2, <3>1, Greatest
  <2> QED
    BY <2>1, <2>2
<1>3. Highest(R) \in R \cup {0} /\ \A n \in R : n <= Highest(R)
  BY <1>2 DEF Highest
<1> DEFINE g == Highest(R)
<1>4. g \in Nat
  <2>1. \A n \in R \cup {0} : n \in Nat
    BY <1>1
  <2>2. g \in R \cup {0}
    BY <1>3
  <2> HIDE DEF g
  <2> QED
    BY <2>1, <2>2
<1>5. ASSUME NEW m \in R \cup {0}, \A n \in R : n <= m PROVE Highest(R) = m
  <2>1. m \in Nat
    BY <1>1
  <2>2. m <= Highest(R)
    BY <1>1, <1>3, <1>4
  <2>3. g <= m
    <3>1. g \in R \cup {0} /\ 0 <= m
      BY <1>3, <2>1
    <3> HIDE DEF g
    <3> QED
      BY <1>5, <3>1
  <2> QED
    BY <1>4, <2>1, <2>2, <2>3
<1> QED
  BY <1>3, <1>4, <1>5

(* The ranks a set of hashes has for one register.                         *)
Ranks(H, i) == {FirstOne(h) : h \in {h \in H : h \div Power[W - P] = i}}

(* The reference sketch by its registers.                                  *)
LEMMA SketchIs ==
  ASSUME NEW H, H \subseteq Hash
  PROVE  /\ SketchOf(H) = [i \in Register |-> Highest(Ranks(H, i))]
         /\ \A i \in Register : Ranks(H, i) \subseteq 1 .. W + 1
<1>1. SketchOf(H) = [i \in Register |-> Highest(Ranks(H, i))]
  BY DEF SketchOf, Highest, Ranks
<1>2. \A h \in H : FirstOne(h) \in 1 .. W + 1
  BY RhoIsFirstOne
<1> QED
  BY <1>1, <1>2 DEF Ranks

(* A sketch of no visits is empty.                                         *)
LEMMA SketchOfNone == SketchOf({}) = Empty
<1>1. \A i : Ranks({}, i) = {}
  BY DEF Ranks
<1>2. Highest({}) = 0
  BY DEF Highest
<1> QED
  BY <1>1, <1>2, SketchIs DEF Empty

(* Folding one more hash gives the sketch of one more, whatever the order. *)
LEMMA SketchOfMore ==
  ASSUME NEW H, H \subseteq Hash, NEW h \in Hash
  PROVE  SketchOf(H \cup {h}) = Add(SketchOf(H), h)
<1> DEFINE s == SketchOf(H)
           t == SketchOf(H \cup {h})
           f == FirstOne(h)
<1>1. /\ s = [i \in Register |-> Highest(Ranks(H, i))]
      /\ \A i \in Register : Ranks(H, i) \subseteq 1 .. W + 1
  BY SketchIs
<1>2. /\ t = [i \in Register |-> Highest(Ranks(H \cup {h}, i))]
      /\ \A i \in Register : Ranks(H \cup {h}, i) \subseteq 1 .. W + 1
  <2>1. H \cup {h} \subseteq Hash
    OBVIOUS
  <2> QED
    BY <2>1, SketchIs
<1>3. /\ Rho(h) = f /\ f \in Nat /\ Index(h) \in Register
      /\ Index(h) = h \div Power[W - P]
  BY RhoIsFirstOne, TailFacts, Widths DEF Index
<1>4. Add(s, h) = [s EXCEPT ![Index(h)] = IF Rho(h) > @ THEN Rho(h) ELSE @]
  BY DEF Add
<1> HIDE DEF s, t, f
<1>5. ASSUME NEW i \in Register, i # Index(h) PROVE t[i] = s[i]
  <2>1. Ranks(H \cup {h}, i) = Ranks(H, i)
    BY <1>3, <1>5 DEF Ranks
  <2> QED
    BY <1>1, <1>2, <2>1
<1>6. t[Index(h)] = IF f > s[Index(h)] THEN f ELSE s[Index(h)]
  <2> DEFINE i == Index(h)
             R == Ranks(H, i)
             m == Highest(R)
  <2>1. Ranks(H \cup {h}, i) = R \cup {f}
    BY <1>3 DEF Ranks, f
  <2>2. i \in Register /\ R \subseteq 1 .. W + 1 /\ R \cup {f} \subseteq 1 .. W + 1
    BY <1>1, <1>2, <1>3, <2>1
  <2>3. s[i] = m /\ t[i] = Highest(R \cup {f})
    BY <1>1, <1>2, <2>1, <2>2
  <2> HIDE DEF i, R
  <2>4. m \in R \cup {0} /\ m \in Nat /\ \A n \in R : n <= m
    BY <2>2, HighestIs
  <2> HIDE DEF m
  <2>5. \A n \in R : n \in Nat
    BY <2>2, Widths
  <2>6. CASE f > m
    <3>1. \A n \in R \cup {f} : n <= f
      BY <1>3, <2>4, <2>5, <2>6
    <3>2. f \in (R \cup {f}) \cup {0}
      OBVIOUS
    <3>3. Highest(R \cup {f}) = f
      BY <2>2, <3>1, <3>2, HighestIs
    <3> QED
      BY <2>3, <2>6, <3>3 DEF i
  <2>7. CASE ~(f > m)
    <3>1. \A n \in R \cup {f} : n <= m
      BY <1>3, <2>4, <2>5, <2>7
    <3>2. m \in (R \cup {f}) \cup {0}
      BY <2>4
    <3>3. Highest(R \cup {f}) = m
      BY <2>2, <3>1, <3>2, HighestIs
    <3> QED
      BY <2>3, <2>7, <3>3 DEF i
  <2> QED
    BY <2>6, <2>7
<1>7. Add(s, h) = t
  <2>1. /\ DOMAIN s = Register /\ DOMAIN t = Register
        /\ t = [i \in Register |-> t[i]]
    BY <1>1, <1>2
  <2>2. \A i \in Register : t[i] = IF i = Index(h) THEN (IF f > s[i] THEN f ELSE s[i])
                                   ELSE s[i]
    BY <1>5, <1>6
  <2>3. Add(s, h) = [i \in Register |-> IF i = Index(h) THEN (IF f > s[i] THEN f ELSE s[i])
                                        ELSE s[i]]
    BY <1>3, <1>4, <2>1
  <2> QED
    BY <2>1, <2>2, <2>3
<1> QED
  BY <1>7 DEF s, t

(* A region without a sketch whose visits were folded met a full map.      *)
CapMet == \A v \in Folded : Region(v) \notin Held => Cardinality(Held) >= MaxRegions

(* The visits that the sketch of a region stands for.                      *)
VisitsOf(r) ==
  {v \in Folded : Region(v) = r \/ (r = Other /\ Region(v) \notin Held)}

Exact == SketchesExact /\ CapMet

(* Nothing has been folded at the start.                                   *)
LEMMA ExactInit == WebInit => Exact
<1> SUFFICES ASSUME WebInit PROVE Exact
  OBVIOUS
<1>1. Held = {} /\ pc = [x \in Visits \cup Tasks |-> "idle"]
  BY DEF WebInit, Init, Held
<1>2. Folded = {}
  BY <1>1 DEF Folded
<1> QED
  BY <1>1, <1>2 DEF Exact, SketchesExact, CapMet

(* What keeps the sketches and the folded visits keeps the invariant.      *)
LEMMA ExactKept ==
  ASSUME Exact, sketches' = sketches, visit' = visit, Folded' = Folded
  PROVE  Exact'
<1>1. Held' = Held
  BY DEF Held
<1>2. \A v \in Visits : Region(v)' = Region(v)
  BY DEF Region
<1>3. \A V : HashesOf(V)' = HashesOf(V)
  BY DEF HashesOf
<1>4. \A r : {v \in Folded : Region(v) = r \/ (r = Other /\ Region(v) \notin Held)}'
             = {v \in Folded : Region(v) = r \/ (r = Other /\ Region(v) \notin Held)}
  BY <1>1, <1>2 DEF Folded
<1> QED
  BY <1>1, <1>2, <1>3, <1>4 DEF Exact, SketchesExact, CapMet, Folded


(* Folding adds the visit to the one sketch that stands for it, and takes  *)
(* none from another.                                                      *)
LEMMA ExactFold ==
  ASSUME Inductive, Exact, NEW v \in Visits, ObserveFold(v)
  PROVE  Exact'
<1> PICK b : b = Bucket(v)
  OBVIOUS
<1> DEFINE old == IF b \in Held THEN sketches[b] ELSE Empty
           h == visit[v].hash
<1>1. /\ pc[v] = "fold" /\ pc' = [pc EXCEPT ![v] = "folded"] /\ visit' = visit
      /\ sketches' = [r \in Held \cup {b} |-> IF r = b THEN Add(old, h) ELSE sketches[r]]
  BY DEF ObserveFold, Goto
<1>2. /\ b \in {Region(v), Other}
      /\ Region(v) \notin Held =>
           IF Cardinality(Held) >= MaxRegions THEN b = Other ELSE b = Region(v)
      /\ Region(v) \in Held => b = Region(v)
  BY DEF Bucket
<1> HIDE DEF old, h
<1>3. Held' = Held \cup {b}
  BY <1>1 DEF Held
<1>4. Folded' = Folded \cup {v} /\ v \notin Folded
  BY <1>1 DEF Inductive, TypeOK, Folded
<1>5. \A u \in Visits : Region(u)' = Region(u)
  BY <1>1 DEF Region
<1>6. /\ \A u \in Folded : Region(u) \notin Held => Cardinality(Held) >= MaxRegions
      /\ \A u \in Folded : Region(u) \in Held \/ Other \in Held
      /\ Folded \subseteq Visits
  BY DEF Exact, CapMet, Inductive, RegionsCapped, Folded
<1>7. \A u \in Folded : Region(u) = b \/ (b = Other /\ Region(u) \notin Held) => b \in Held
  BY <1>2, <1>6
<1>7a. \A r : VisitsOf(r)' = {u \in Folded' : Region(u)' = r
                                             \/ (r = Other /\ Region(u)' \notin Held')}
  BY DEF VisitsOf
<1>8. VisitsOf(b)' = (IF b \in Held THEN VisitsOf(b) ELSE {}) \cup {v}
  <2>1. VisitsOf(b)' = {u \in Folded' : Region(u)' = b \/ (b = Other /\ Region(u)' \notin Held')}
    BY <1>7a
  <2>2. \A u \in Folded' : Region(u)' = Region(u)
    BY <1>4, <1>5, <1>6
  <2>3. VisitsOf(b)' = {u \in Folded' : Region(u) = b \/ (b = Other /\ Region(u) \notin Held')}
    BY <2>1, <2>2
  <2>4. v \in VisitsOf(b)'
    BY <1>2, <1>3, <1>4, <2>3
  <2>5. CASE b \in Held
    <3>1. Held' = Held
      BY <1>3, <2>5
    <3> QED
      BY <1>4, <2>3, <2>4, <2>5, <3>1 DEF VisitsOf
  <2>6. CASE b \notin Held
    <3>1. \A u \in Folded : u \notin VisitsOf(b)'
      BY <1>3, <1>7, <2>3, <2>6
    <3> QED
      BY <1>4, <2>3, <2>4, <2>6, <3>1
  <2> QED
    BY <2>5, <2>6
<1>9. ASSUME NEW r \in Held, r # b PROVE VisitsOf(r)' = VisitsOf(r)
  <2>1. VisitsOf(r)' = {u \in Folded' : Region(u)' = r \/ (r = Other /\ Region(u)' \notin Held')}
    BY <1>7a
  <2>2. \A u \in Folded' : Region(u)' = Region(u)
    BY <1>4, <1>5, <1>6
  <2>3. VisitsOf(r)' = {u \in Folded' : Region(u) = r \/ (r = Other /\ Region(u) \notin Held')}
    BY <2>1, <2>2
  <2>4. v \notin VisitsOf(r)'
    BY <1>2, <1>3, <1>9, <2>3
  <2>5. ASSUME NEW u \in Folded, r = Other, Region(u) \notin Held
        PROVE  Region(u) \notin Held'
    <3> SUFFICES ASSUME Region(u) = b PROVE FALSE
      BY <1>3, <2>5
    <3>1. b \notin Held /\ b # Other
      BY <1>9, <2>5
    <3>2. Region(v) = b /\ Cardinality(Held) >= MaxRegions
      BY <1>2, <1>6, <2>5, <3>1
    <3> QED
      BY <1>2, <3>1, <3>2
  <2>6. VisitsOf(r) = {u \in Folded : Region(u) = r \/ (r = Other /\ Region(u) \notin Held)}
    BY DEF VisitsOf
  <2> QED
    BY <1>3, <1>4, <2>3, <2>4, <2>5, <2>6
<1>10. \A V : HashesOf(V)' = HashesOf(V)
  BY <1>1 DEF HashesOf
<1>11. h \in Hash /\ \A r : VisitsOf(r) \subseteq Visits /\ HashesOf(VisitsOf(r)) \subseteq Hash
  BY DEF h, Inductive, TypeOK, VisitsOf, Folded, HashesOf
<1>12. \A r \in Held : sketches[r] = SketchOf(HashesOf(VisitsOf(r)))
  BY DEF Exact, SketchesExact, VisitsOf
<1>13. sketches'[b] = SketchOf(HashesOf(VisitsOf(b)'))
  <2> DEFINE V == IF b \in Held THEN VisitsOf(b) ELSE {}
  <2>1. HashesOf(V \cup {v}) = HashesOf(V) \cup {h} /\ HashesOf({}) = {}
    BY DEF HashesOf, h
  <2>2. HashesOf(V) \subseteq Hash
    BY <1>11, <2>1
  <2>3. old = SketchOf(HashesOf(V))
    BY <1>12, <2>1, SketchOfNone DEF old
  <2>4. VisitsOf(b)' = V \cup {v}
    BY <1>8
  <2> HIDE DEF V
  <2>5. SketchOf(HashesOf(V) \cup {h}) = Add(SketchOf(HashesOf(V)), h)
    BY <1>11, <2>2, SketchOfMore
  <2>6. sketches'[b] = Add(old, h)
    BY <1>1
  <2> QED
    BY <2>1, <2>3, <2>4, <2>5, <2>6
<1>14. ASSUME NEW r \in Held'
       PROVE  sketches'[r] = SketchOf(HashesOf(VisitsOf(r)'))
  <2>1. CASE r = b
    BY <1>13, <2>1
  <2>2. CASE r # b
    <3>1. r \in Held /\ sketches'[r] = sketches[r]
      BY <1>1, <1>3, <2>2
    <3> QED
      BY <1>9, <1>12, <2>2, <3>1
  <2> QED
    BY <2>1, <2>2
<1>15. SketchesExact'
  <2>1. ASSUME NEW r \in Held'
        PROVE  sketches'[r] = SketchOf(HashesOf(VisitsOf(r))')
    BY <1>10, <1>14
  <2>2. \A r \in Held' : sketches'[r] = SketchOf(HashesOf(VisitsOf(r))')
    BY <2>1
  <2> QED
    BY <2>2 DEF SketchesExact, VisitsOf
<1>16. CapMet'
  <2>1. IsFiniteSet(Held) /\ IsFiniteSet(Held') /\ Cardinality(Held) \in Nat
    BY <1>3, FS_AddElement, FS_CardinalityType DEF Inductive
  <2>2. Cardinality(Held) <= Cardinality(Held') /\ Cardinality(Held') \in Nat
    BY <1>3, <2>1, FS_Subset, FS_CardinalityType
  <2>3. ASSUME NEW u \in Folded', Region(u) \notin Held' PROVE Cardinality(Held) >= MaxRegions
    <3>1. CASE u \in Folded
      BY <1>3, <1>6, <2>3, <3>1
    <3>2. CASE u = v
      BY <1>2, <1>3, <2>3, <3>2
    <3> QED
      BY <1>4, <3>1, <3>2
  <2>4. \A u \in Folded' : Region(u)' = Region(u)
    BY <1>4, <1>5, <1>6
  <2>5. \A u \in Folded' : Region(u)' \notin Held' => Cardinality(Held') >= MaxRegions
    BY <2>1, <2>2, <2>3, <2>4, VisitorsAssumption
  <2> QED
    BY <2>5 DEF CapMet
<1> QED
  BY <1>15, <1>16 DEF Exact

(* Every step keeps the sketches exact.                                    *)
LEMMA ExactStep ==
  ASSUME Inductive, Exact, [Next]_all
  PROVE  Exact'
<1>1. visit' = visit
  BY Fixed
<1>2. ASSUME NEW v \in Visits, ObserveFold(v) PROVE Exact'
  BY <1>2, ExactFold
<1>3. ASSUME sketches' = sketches, Folded' = Folded PROVE Exact'
  BY <1>1, <1>3, ExactKept
<1>4. ASSUME NEW v \in Visits, ObserveCount(v) \/ ObserveLock(v) PROVE Exact'
  <2>1. sketches' = sketches
    BY <1>4 DEF ObserveCount, ObserveLock
  <2>2. \E place \in {"lock", "fold", "missed"} :
          pc[v] \in {"idle", "lock"} /\ pc' = [pc EXCEPT ![v] = place]
    BY <1>4 DEF ObserveCount, ObserveLock, Goto
  <2>3. Folded' = Folded
    BY <2>2 DEF Folded, Inductive, TypeOK
  <2> QED
    BY <1>3, <2>1, <2>3
<1>5. ASSUME NEW t \in Tasks, Snapshot(t) PROVE Exact'
  <2>1. sketches' = sketches
    BY <1>5 DEF Snapshot, SnapshotLock, SnapshotEstimate, SnapshotRecord, SnapshotEnd
  <2>2. pc' = pc \/ \E place : pc' = [pc EXCEPT ![t] = place]
    BY <1>5 DEF Snapshot, SnapshotLock, SnapshotEstimate, SnapshotRecord, SnapshotEnd,
                Goto
  <2>3. \A v \in Visits : pc'[v] = pc[v]
    BY <2>2, VisitorsAssumption DEF Inductive, TypeOK
  <2>4. Folded' = Folded
    BY <2>3 DEF Folded
  <2> QED
    BY <1>3, <2>1, <2>4
<1>6. ASSUME UNCHANGED <<sketches, pc>> PROVE Exact'
  BY <1>3, <1>6 DEF Folded
<1> QED
  BY <1>2, <1>4, <1>5, <1>6 DEF Next, all, vars, Observe, Track, EngineShutdown

(* Each sketch is that of exactly the visits it should stand for, for any  *)
(* hash of any width, any number of registers, visits, regions and tasks,  *)
(* and every order and repetition of visits (Hll::add_hash,                *)
(* VisitorsTracker::observe).                                              *)
THEOREM SketchesStand == Spec => []SketchesExact
<1>1. Exact => SketchesExact
  BY DEF Exact
<1> QED
  BY InductiveInit, InductiveStep, ExactInit, ExactStep, <1>1, PTL DEF Spec, all
=============================================================================
