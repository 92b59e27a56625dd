---------------------------- MODULE PacingProofs ----------------------------
(***************************************************************************)
(* Proofs about Pacing, for any number of workers, any intervals and any   *)
(* durations: the penalty stays within its bounds however updates overtake *)
(* each other, polls keep their intervals whatever was learnt, and the     *)
(* percentiles of the buckets are those of the durations but for the width *)
(* of one bucket.                                                          *)
(*                                                                         *)
(* Induction rules take an operator, which no prover here can instantiate; *)
(* where one is needed, it is a least counterexample (LeastNatural).       *)
(***************************************************************************)
EXTENDS Pacing, FiniteSetTheorems, WellFoundedInduction, TLAPS

-----------------------------------------------------------------------------
(* Natural numbers.                                                         *)

(* Every nonempty set of natural numbers has a least element: the provers   *)
(* cannot apply an induction rule, but they can use this.                   *)
LEMMA LeastNatural ==
    ASSUME NEW S \in SUBSET Nat, S # {}
    PROVE  \E x \in S : \A y \in S : x <= y
<1> DEFINE R == {ss \in Nat \X Nat : ss[1] < ss[2]}
<1>1. IsWellFoundedOn(R, Nat)
  BY NatLessThanWellFounded DEF OpToRel
<1>2. PICK x \in S : \A y \in S : <<y, x>> \notin R
  BY <1>1, WFMin
<1>3. ASSUME NEW y \in S PROVE x <= y
  <2>1. <<y, x>> \in Nat \X Nat /\ <<y, x>>[1] = y /\ <<y, x>>[2] = x
    OBVIOUS
  <2>2. ~(<<y, x>>[1] < <<y, x>>[2])
    BY <1>2, <2>1
  <2> QED BY <2>1, <2>2
<1> QED BY <1>3

LEMMA MinIsLeast ==
    ASSUME NEW S \in SUBSET Nat, S # {}
    PROVE  Min(S) \in S /\ \A y \in S : Min(S) <= y
BY LeastNatural DEF Min

(* A bounded one has a greatest.                                            *)
LEMMA GreatestNatural ==
    ASSUME NEW S \in SUBSET Nat, S # {}, NEW n \in Nat, \A s \in S : s <= n
    PROVE  \E x \in S : \A y \in S : y <= x
<1> DEFINE G == {k \in Nat : \E s \in S : k = n - s}
<1>1. \A s \in S : n - s \in G
  OBVIOUS
<1>2. PICK g \in G : \A k \in G : g <= k
  BY <1>1, LeastNatural
<1>3. PICK x \in S : g = n - x
  BY <1>2
<1>4. ASSUME NEW y \in S PROVE y <= x
  <2>1. n - x <= n - y
    BY <1>1, <1>2, <1>3
  <2> QED BY <2>1
<1> QED BY <1>4

LEMMA TwoMax ==
    ASSUME NEW a \in Nat, NEW b \in Nat
    PROVE  Max({a, b}) = IF a >= b THEN a ELSE b
<1>1. \A x \in {a, b} : (\A y \in {a, b} : x >= y) <=> x = IF a >= b THEN a ELSE b
  OBVIOUS
<1> QED
  BY <1>1 DEF Max

LEMMA TwoMin ==
    ASSUME NEW a \in Nat, NEW b \in Nat
    PROVE  Min({a, b}) = IF a <= b THEN a ELSE b
<1>1. \A x \in {a, b} : (\A y \in {a, b} : x <= y) <=> x = IF a <= b THEN a ELSE b
  OBVIOUS
<1> QED
  BY <1>1 DEF Min

(* Products grow with their factors.                                        *)
LEMMA ProductGrows ==
    ASSUME NEW a \in Nat, NEW b \in Nat, NEW c \in Nat, a <= b
    PROVE  a * c \in Nat /\ b * c \in Nat /\ a * c <= b * c
<1>1. PICK d \in Nat : b = a + d
  BY b - a \in Nat
<1>2. b * c = a * c + d * c /\ d * c \in Nat /\ a * c \in Nat
  BY <1>1
<1> QED BY <1>2

(* Division rounds down.                                                    *)
LEMMA Quotient ==
    ASSUME NEW a \in Nat, NEW b \in Nat \ {0}
    PROVE  /\ a \div b \in Nat
           /\ (a \div b) * b \in Nat /\ (a \div b) * b <= a
           /\ a < (a \div b) * b + b
<1>1. a \div b \in Nat
  OBVIOUS
<1>2. (a \div b) * b <= a /\ a < (a \div b) * b + b
  BY Z3T(30)
<1> QED BY <1>1, <1>2, ProductGrows

LEMMA QuotientGrows ==
    ASSUME NEW a \in Nat, NEW c \in Nat, NEW b \in Nat \ {0}, a <= c
    PROVE  a \div b <= c \div b
<1> DEFINE p == a \div b
           r == c \div b
<1>1. /\ p \in Nat /\ r \in Nat /\ p * b \in Nat /\ r * b \in Nat
      /\ p * b <= a /\ c < r * b + b
  BY Quotient
<1> HIDE DEF p, r
<1>2. ASSUME r + 1 <= p PROVE FALSE
  <2>1. (r + 1) * b <= p * b
    BY <1>1, <1>2, ProductGrows
  <2>2. (r + 1) * b = r * b + b
    BY <1>1
  <2> QED BY <1>1, <2>1, <2>2
<1>3. p <= r
  BY <1>1, <1>2
<1> QED BY <1>3 DEF p, r

-----------------------------------------------------------------------------
(* The histogram.                                                           *)

LEMMA Labelled ==
    ASSUME NEW d \in Nat
    PROVE  Label(d) \in Nat /\ Label(d) <= d /\ d < Label(d) + Bucket
BY IntervalsAssumption, Quotient DEF Label

LEMMA LabelGrows ==
    ASSUME NEW c \in Nat, NEW d \in Nat, c <= d
    PROVE  Label(c) <= Label(d)
<1>1. /\ c \div Bucket \in Nat /\ d \div Bucket \in Nat /\ Bucket \in Nat
      /\ c \div Bucket <= d \div Bucket
  BY IntervalsAssumption, Quotient, QuotientGrows
<1> QED BY <1>1, ProductGrows DEF Label

LEMMA Counted ==
    ASSUME NEW h \in Seq(Durations), NEW S, NEW T,
           \A i \in DOMAIN h : h[i] \in S => h[i] \in T
    PROVE  /\ Count(h, S) \in Nat /\ Count(h, T) \in Nat
           /\ Count(h, S) <= Count(h, T)
<1> DEFINE In(U) == {i \in DOMAIN h : h[i] \in U}
<1>1. IsFiniteSet(DOMAIN h)
  <2>1. DOMAIN h = 1 .. Len(h) /\ Len(h) \in Nat
    OBVIOUS
  <2> QED BY <2>1, FS_Interval
<1>2. IsFiniteSet(In(T))
  BY <1>1, FS_Subset
<1>3. In(S) \in SUBSET In(T)
  OBVIOUS
<1>4. IsFiniteSet(In(S)) /\ Cardinality(In(S)) <= Cardinality(In(T))
  BY <1>2, <1>3, FS_Subset
<1> QED BY <1>2, <1>4, FS_CardinalityType DEF Count

LEMMA CountedAll ==
    ASSUME NEW h \in Seq(Durations), NEW S, \A i \in DOMAIN h : h[i] \in S
    PROVE  Count(h, S) = Total(h)
<1>1. DOMAIN h = 1 .. Len(h) /\ Len(h) \in Nat
  OBVIOUS
<1>2. {i \in DOMAIN h : h[i] \in S} = 1 .. Len(h)
  BY <1>1
<1>3. Cardinality(1 .. Len(h)) = Len(h)
  BY <1>1, FS_Interval
<1> QED BY <1>2, <1>3 DEF Count, Total

(* There is a longest of the durations recorded.                            *)
LEMMA GreatestOf ==
    ASSUME NEW k \in Nat \ {0}, NEW f \in [1 .. k -> Nat]
    PROVE  \E m \in 1 .. k : \A i \in 1 .. k : f[i] <= f[m]
<1> DEFINE Top(n) == \E m \in 1 .. n : \A i \in 1 .. n : f[i] <= f[m]
           Bad == {n \in 1 .. k : ~Top(n)}
<1>1. ASSUME Bad # {} PROVE FALSE
  <2>0. Bad \in SUBSET Nat
    OBVIOUS
  <2>1. PICK n \in Bad : \A j \in Bad : n <= j
    BY <1>1, <2>0, LeastNatural
  <2>2. n \in 1 .. k /\ n \in Nat /\ ~Top(n)
    BY <2>1
  <2>3. CASE n = 1
    <3>1. \A i \in 1 .. 1 : i = 1 /\ f[i] \in Nat
      OBVIOUS
    <3>2. Top(1)
      BY <3>1
    <3> QED BY <2>2, <2>3, <3>2
  <2>4. CASE n # 1
    <3>1. n - 1 \in 1 .. k /\ n - 1 \in Nat /\ n - 1 < n
      BY <2>2, <2>4
    <3>2. Top(n - 1)
      <4>1. n - 1 \notin Bad
        <5> HIDE DEF Bad
        <5> QED BY <2>1, <2>2, <3>1
      <4> QED BY <3>1, <4>1
    <3>3. PICK m \in 1 .. (n - 1) : \A i \in 1 .. (n - 1) : f[i] <= f[m]
      BY <3>2
    <3>4. f[m] \in Nat /\ f[n] \in Nat /\ m \in 1 .. n /\ n \in 1 .. n
      BY <2>2, <3>1
    <3>5. \A i \in 1 .. n : f[i] \in Nat /\ (i \in 1 .. (n - 1) \/ i = n)
      BY <2>2
    <3>6. CASE f[n] <= f[m]
      <4>1. \A i \in 1 .. n : f[i] <= f[m]
        BY <3>3, <3>5, <3>6
      <4> QED BY <2>2, <3>4, <4>1
    <3>7. CASE f[m] <= f[n]
      <4>1. \A i \in 1 .. n : f[i] <= f[n]
        BY <3>3, <3>4, <3>5, <3>7
      <4> QED BY <2>2, <3>4, <4>1
    <3> QED BY <3>4, <3>6, <3>7
  <2> QED BY <2>3, <2>4
<1>2. k \in 1 .. k
  OBVIOUS
<1>3. Top(k)
  BY <1>1, <1>2
<1> QED BY <1>3

LEMMA Samples ==
    ASSUME NEW h \in Seq(Durations)
    PROVE  /\ Total(h) \in Nat /\ DOMAIN h = 1 .. Total(h)
           /\ \A i \in DOMAIN h : h[i] \in Durations /\ h[i] \in Nat
           /\ h \in [1 .. Total(h) -> Nat]
<1>1. Len(h) \in Nat /\ DOMAIN h = 1 .. Len(h) /\ h \in [1 .. Len(h) -> Durations]
  OBVIOUS
<1>2. Durations \subseteq Nat
  BY IntervalsAssumption
<1> QED BY <1>1, <1>2 DEF Total

LEMMA LongestSample ==
    ASSUME NEW h \in Seq(Durations), Total(h) > 0
    PROVE  \E m \in DOMAIN h : \A i \in DOMAIN h : h[i] <= h[m]
<1>1. Total(h) \in Nat \ {0} /\ h \in [1 .. Total(h) -> Nat]
  BY Samples
<1>2. \E m \in 1 .. Total(h) : \A i \in 1 .. Total(h) : h[i] <= h[m]
  BY <1>1, GreatestOf
<1> QED BY <1>2, Samples

(* The labels up to which q percent of the samples lie.                     *)
Reached(h, q) ==
    {l \in Labels : 100 * Count(h, {d \in Durations : Label(d) <= l})
                        >= q * Total(h)}

(* The durations up to which they lie.                                      *)
ReachedBy(h, q) ==
    {d \in Durations : 100 * Count(h, {c \in Durations : c <= d})
                           >= q * Total(h)}

LEMMA LabelsNatural == Labels \in SUBSET Nat
BY IntervalsAssumption, Labelled DEF Labels

LEMMA SomeReached ==
    ASSUME NEW h \in Seq(Durations), Total(h) > 0, NEW q \in 0 .. 100
    PROVE  /\ Reached(h, q) # {} /\ Reached(h, q) \in SUBSET Nat
           /\ ReachedBy(h, q) # {} /\ ReachedBy(h, q) \in SUBSET Nat
<1>0. /\ Total(h) \in Nat
      /\ \A i \in DOMAIN h : h[i] \in Durations /\ h[i] \in Nat
  BY Samples
<1>1. PICK m \in DOMAIN h : \A i \in DOMAIN h : h[i] <= h[m]
  BY LongestSample
<1>2. 100 * Total(h) >= q * Total(h)
  BY <1>0, ProductGrows
<1>3. Label(h[m]) \in Reached(h, q)
  <2>1. \A i \in DOMAIN h : h[i] \in {d \in Durations : Label(d) <= Label(h[m])}
    BY <1>0, <1>1, LabelGrows
  <2>2. Count(h, {d \in Durations : Label(d) <= Label(h[m])}) = Total(h)
    BY <2>1, CountedAll
  <2> QED BY <1>0, <1>2, <2>2 DEF Reached, Labels
<1>4. h[m] \in ReachedBy(h, q)
  <2>1. \A i \in DOMAIN h : h[i] \in {c \in Durations : c <= h[m]}
    BY <1>0, <1>1
  <2>2. Count(h, {c \in Durations : c <= h[m]}) = Total(h)
    BY <2>1, CountedAll
  <2> QED BY <1>0, <1>2, <2>2 DEF ReachedBy
<1> QED BY <1>3, <1>4, LabelsNatural, IntervalsAssumption DEF Reached, ReachedBy

LEMMA PercentileOf ==
    ASSUME NEW h \in Seq(Durations), Total(h) > 0, NEW q \in 0 .. 100
    PROVE  /\ Min(Reached(h, q)) \in Nat
           /\ Percentile(h, q) = IF Bucket >= Min(Reached(h, q)) THEN Bucket
                                 ELSE Min(Reached(h, q))
<1>1. Min(Reached(h, q)) \in Nat
  BY SomeReached, MinIsLeast
<1>2. Percentile(h, q) = Max({Bucket, Min(Reached(h, q))})
  BY Samples DEF Percentile, Reached
<1> QED BY <1>1, <1>2, TwoMax, IntervalsAssumption

LEMMA StatsType ==
    ASSUME NEW h \in Seq(Durations)
    PROVE  Stats(h) \in AllStats
<1>1. \A q \in 0 .. 100 : Percentile(h, q) \in Nat
  <2>1. CASE Total(h) = 0
    BY <2>1, IntervalsAssumption DEF Percentile
  <2>2. CASE Total(h) > 0
    BY <2>2, PercentileOf, IntervalsAssumption
  <2>3. Total(h) = 0 \/ Total(h) > 0
    BY Samples
  <2> QED BY <2>1, <2>2, <2>3
<1> QED BY <1>1 DEF Stats, AllStats

(* The label of the quantile is the label the percentile is taken from.     *)
LEMMA Close ==
    ASSUME NEW h \in Seq(Durations), Total(h) > 0, NEW q \in 0 .. 100
    PROVE  /\ Percentile(h, q) <= Quantile(h, q) + Bucket
           /\ Quantile(h, q) <= Percentile(h, q) + Bucket
<1> DEFINE l == Min(Reached(h, q))
           d == Min(ReachedBy(h, q))
<1>1. /\ l \in Reached(h, q) /\ \A k \in Reached(h, q) : l <= k
      /\ d \in ReachedBy(h, q) /\ \A c \in ReachedBy(h, q) : d <= c
      /\ l \in Nat /\ d \in Nat
  BY SomeReached, MinIsLeast
<1>2. Quantile(h, q) = d
  BY DEF Quantile, ReachedBy
<1>3. /\ Bucket \in Nat /\ Durations \subseteq Nat /\ q \in Nat
      /\ Total(h) \in Nat /\ q * Total(h) \in Nat
  BY IntervalsAssumption, Samples, ProductGrows
<1> HIDE DEF l, d
<1>4. Label(d) \in Reached(h, q)
  <2>1. d \in Durations /\ 100 * Count(h, {c \in Durations : c <= d}) >= q * Total(h)
    BY <1>1 DEF ReachedBy
  <2>2. \A c \in {e \in Durations : e <= d} :
           c \in {e \in Durations : Label(e) <= Label(d)}
    BY <1>1, <1>3, LabelGrows
  <2>3. /\ Count(h, {c \in Durations : c <= d}) \in Nat
        /\ Count(h, {c \in Durations : Label(c) <= Label(d)}) \in Nat
        /\ Count(h, {c \in Durations : c <= d})
              <= Count(h, {c \in Durations : Label(c) <= Label(d)})
    BY <2>2, Counted
  <2>4. 100 * Count(h, {c \in Durations : Label(c) <= Label(d)}) >= q * Total(h)
    BY <1>3, <2>1, <2>3
  <2> QED BY <2>1, <2>4 DEF Reached, Labels
<1>5. l <= d
  BY <1>1, <1>4, Labelled
<1>6. d < l + Bucket
  <2> DEFINE Within == {c \in Durations : Label(c) <= l}
  <2>1. l \in Labels /\ 100 * Count(h, Within) >= q * Total(h)
    BY <1>1 DEF Reached
  <2>2. PICK e \in Durations : l = Label(e)
    BY <2>1 DEF Labels
  <2>3. e \in Within /\ Within \in SUBSET Nat
    BY <1>1, <1>3, <2>2
  <2>4. \A c \in Within : c < l + Bucket
    <3>1. \A c \in Within : c \in Nat /\ Label(c) \in Nat /\ Label(c) <= l
                            /\ c < Label(c) + Bucket
      BY <1>3, Labelled
    <3> QED BY <1>1, <1>3, <3>1
  <2>5. \A c \in Within : c <= l + Bucket
    BY <1>1, <1>3, <2>3, <2>4
  <2>6. PICK m \in Within : \A c \in Within : c <= m
    <3>1. l + Bucket \in Nat /\ Within # {}
      BY <1>1, <1>3, <2>3
    <3> HIDE DEF Within
    <3> QED BY <2>3, <2>5, <3>1, GreatestNatural
  <2>7. /\ Count(h, Within) \in Nat /\ Count(h, {c \in Durations : c <= m}) \in Nat
        /\ Count(h, Within) <= Count(h, {c \in Durations : c <= m})
    <3>1. \A i \in DOMAIN h : h[i] \in Within => h[i] \in {c \in Durations : c <= m}
      BY <2>6
    <3> HIDE DEF Within
    <3> QED BY <3>1, Counted
  <2>8. 100 * Count(h, {c \in Durations : c <= m}) >= q * Total(h)
    BY <1>3, <2>1, <2>7
  <2>9. m \in ReachedBy(h, q)
    BY <2>6, <2>8 DEF ReachedBy
  <2> QED BY <1>1, <1>3, <2>3, <2>4, <2>6, <2>9
<1>7. Percentile(h, q) = IF Bucket >= l THEN Bucket ELSE l
  BY PercentileOf DEF l
<1> QED BY <1>1, <1>2, <1>3, <1>5, <1>6, <1>7

-----------------------------------------------------------------------------
(* The multiplier.                                                          *)

LEMMA CapBound == Cap \in Nat /\ Unit <= Cap
<1>1. /\ Base \in Nat /\ Base > 0 /\ Unit \in Nat /\ Maximum \in Nat
      /\ Base <= Maximum
  BY IntervalsAssumption
<1>2. PICK d \in Nat : Maximum = Base + d
  BY <1>1, Maximum - Base \in Nat
<1>3. Maximum * Unit = Base * Unit + d * Unit /\ d * Unit \in Nat
      /\ Base * Unit \in Nat
  BY <1>1, <1>2
<1>4. \A n \in Nat : n \div Base \in Nat
  BY <1>1
<1>5. Maximum * Unit \in Nat /\ Base * Unit <= Maximum * Unit
  BY <1>3
<1>6. \A n \in Nat : Base * Unit <= n => Unit <= n \div Base
  BY <1>1, Z3T(30)
<1> QED BY <1>4, <1>5, <1>6 DEF Cap

LEMMA AimdBounded ==
    ASSUME NEW m \in Unit .. Cap
    PROVE  AimdUp(m) \in Unit .. Cap /\ AimdDown(m) \in Unit .. Cap
<1>1. Unit \in Nat /\ Cap \in Nat /\ Unit <= Cap /\ m \in Nat /\ 2 * m \in Nat
  BY IntervalsAssumption, CapBound
<1>2. (9 * m) \div 10 \in Nat /\ (9 * m) \div 10 <= m
  BY <1>1
<1>3. Max({Unit, 2 * m}) \in Nat /\ Max({Unit, 2 * m}) >= Unit
  BY <1>1, TwoMax
<1>4. AimdUp(m) \in Unit .. Cap
  BY <1>1, <1>3, TwoMin DEF AimdUp
<1>5. AimdDown(m) \in Unit .. Cap
  BY <1>1, <1>2, TwoMax DEF AimdDown
<1> QED BY <1>4, <1>5

-----------------------------------------------------------------------------
(* Intervals.                                                               *)

LEMMA Clamped ==
    ASSUME NEW v \in Nat
    PROVE  /\ Clamp(v) \in Minimum .. Maximum
           /\ v \in Minimum .. Maximum => Clamp(v) = v
<1>1. /\ Minimum \in Nat /\ Maximum \in Nat /\ Minimum <= Maximum
      /\ Min({Maximum, v}) = (IF Maximum <= v THEN Maximum ELSE v)
  BY IntervalsAssumption, TwoMin
<1> DEFINE m == Min({Maximum, v})
<1>2. m \in Nat /\ m <= Maximum /\ (v <= Maximum => m = v)
  BY <1>1
<1> HIDE DEF m
<1>3. Max({Minimum, m}) = IF Minimum >= m THEN Minimum ELSE m
  BY <1>1, <1>2, TwoMax
<1>4. Clamp(v) = IF Minimum >= m THEN Minimum ELSE m
  BY <1>3 DEF Clamp, m
<1> QED BY <1>1, <1>2, <1>4

LEMMA ClampGrows ==
    ASSUME NEW u \in Nat, NEW v \in Nat, u <= v
    PROVE  Clamp(u) <= Clamp(v)
<1>1. /\ Minimum \in Nat /\ Maximum \in Nat /\ Minimum <= Maximum
      /\ Min({Maximum, u}) = (IF Maximum <= u THEN Maximum ELSE u)
      /\ Min({Maximum, v}) = (IF Maximum <= v THEN Maximum ELSE v)
  BY IntervalsAssumption, TwoMin
<1> QED BY <1>1, TwoMax DEF Clamp

LEMMA Powers ==
    ASSUME NEW n \in 0 .. 8
    PROVE  \/ (n = 0 /\ 2^n = 1) \/ (n = 1 /\ 2^n = 2) \/ (n = 2 /\ 2^n = 4)
           \/ (n = 3 /\ 2^n = 8) \/ (n = 4 /\ 2^n = 16) \/ (n = 5 /\ 2^n = 32)
           \/ (n = 6 /\ 2^n = 64) \/ (n = 7 /\ 2^n = 128)
           \/ (n = 8 /\ 2^n = 256)
<1>0. n = 0 => 2^n = 2^0
  BY Zenon
<1>1. n = 1 => 2^n = 2^1
  BY Zenon
<1>2. n = 2 => 2^n = 2^2
  BY Zenon
<1>3. n = 3 => 2^n = 2^3
  BY Zenon
<1>4. n = 4 => 2^n = 2^4
  BY Zenon
<1>5. n = 5 => 2^n = 2^5
  BY Zenon
<1>6. n = 6 => 2^n = 2^6
  BY Zenon
<1>7. n = 7 => 2^n = 2^7
  BY Zenon
<1>8. n = 8 => 2^n = 2^8
  BY Zenon
<1>9. /\ 2^0 = 1 /\ 2^1 = 2 /\ 2^2 = 4 /\ 2^3 = 8 /\ 2^4 = 16
      /\ 2^5 = 32 /\ 2^6 = 64 /\ 2^7 = 128 /\ 2^8 = 256
  OBVIOUS
<1>10. n \in {0, 1, 2, 3, 4, 5, 6, 7, 8}
  OBVIOUS
<1> QED BY <1>0, <1>1, <1>2, <1>3, <1>4, <1>5, <1>6, <1>7, <1>8, <1>9, <1>10

LEMMA PowerGrows ==
    ASSUME NEW m \in 0 .. 8, NEW n \in 0 .. 8, m <= n
    PROVE  2^m \in Nat /\ 2^n \in Nat /\ 2^m <= 2^n
<1> DEFINE a == 2^m
           b == 2^n
<1>1. /\ \/ (m = 0 /\ a = 1) \/ (m = 1 /\ a = 2) \/ (m = 2 /\ a = 4)
         \/ (m = 3 /\ a = 8) \/ (m = 4 /\ a = 16) \/ (m = 5 /\ a = 32)
         \/ (m = 6 /\ a = 64) \/ (m = 7 /\ a = 128) \/ (m = 8 /\ a = 256)
      /\ \/ (n = 0 /\ b = 1) \/ (n = 1 /\ b = 2) \/ (n = 2 /\ b = 4)
         \/ (n = 3 /\ b = 8) \/ (n = 4 /\ b = 16) \/ (n = 5 /\ b = 32)
         \/ (n = 6 /\ b = 64) \/ (n = 7 /\ b = 128) \/ (n = 8 /\ b = 256)
  BY Powers
<1> HIDE DEF a, b
<1>2. a \in Nat /\ b \in Nat /\ a <= b
  BY <1>1
<1> QED BY <1>2 DEF a, b

(* How often the interval has doubled.                                      *)
Doublings(s, e) == Min({8, e \div Max({s.p50, Minimum})})

LEMMA DoublingsGrow ==
    ASSUME NEW s \in AllStats, NEW f \in Nat, NEW e \in Nat, f <= e
    PROVE  /\ Doublings(s, f) \in 0 .. 8 /\ Doublings(s, e) \in 0 .. 8
           /\ Doublings(s, f) <= Doublings(s, e)
<1> DEFINE p == Max({s.p50, Minimum})
<1>1. p \in Nat \ {0}
  BY TwoMax, IntervalsAssumption DEF AllStats
<1> HIDE DEF p
<1>2. /\ f \div p \in Nat /\ e \div p \in Nat /\ f \div p <= e \div p
  BY <1>1, Quotient, QuotientGrows
<1>3. /\ Doublings(s, f) = Min({8, f \div p})
      /\ Doublings(s, e) = Min({8, e \div p})
  BY DEF Doublings, p
<1> DEFINE i == f \div p
           j == e \div p
<1> HIDE DEF i, j
<1>4. i \in Nat /\ j \in Nat /\ i <= j /\ 8 \in Nat
  BY <1>2 DEF i, j
<1>5. /\ Min({8, i}) = (IF 8 <= i THEN 8 ELSE i)
      /\ Min({8, j}) = (IF 8 <= j THEN 8 ELSE j)
  BY <1>4, TwoMin
<1>6. Doublings(s, f) = Min({8, i}) /\ Doublings(s, e) = Min({8, j})
  BY <1>3 DEF i, j
<1> QED BY <1>4, <1>5, <1>6

(* Without the penalty, intervals are in bounds and grow with the time a    *)
(* task has been running.                                                   *)
LEMMA IntervalsGrow ==
    ASSUME NEW s \in AllStats, NEW f \in Nat, NEW e \in Nat, f <= e,
           NEW first \in BOOLEAN
    PROVE  /\ ComputeInterval(f, s, first) \in Minimum .. Maximum
           /\ ComputeInterval(e, s, first) \in Minimum .. Maximum
           /\ ComputeInterval(f, s, first) <= ComputeInterval(e, s, first)
<1>0. /\ Minimum \in Nat /\ Maximum \in Nat /\ Initial \in Nat /\ Base \in Nat
      /\ s.p10 \in Nat
  BY IntervalsAssumption DEF AllStats
<1>1. Max({Initial, Minimum}) \in Nat /\ Max({s.p10, Minimum}) \in Nat
  BY <1>0, TwoMax
<1>2. CASE ~s.warm
  BY <1>0, <1>1, <1>2, Clamped DEF ComputeInterval
<1>3. CASE s.warm /\ first
  BY <1>0, <1>1, <1>3, Clamped DEF ComputeInterval
<1>4. CASE s.warm /\ ~first
  <2>1. /\ 2^Doublings(s, f) \in Nat /\ 2^Doublings(s, e) \in Nat
        /\ 2^Doublings(s, f) <= 2^Doublings(s, e)
    BY DoublingsGrow, PowerGrows
  <2>2. /\ ComputeInterval(f, s, first) = Clamp(Base * 2^Doublings(s, f))
        /\ ComputeInterval(e, s, first) = Clamp(Base * 2^Doublings(s, e))
    BY <1>4 DEF ComputeInterval, Doublings
  <2> DEFINE a == 2^Doublings(s, f)
             b == 2^Doublings(s, e)
  <2> HIDE DEF a, b
  <2>3. a \in Nat /\ b \in Nat /\ a <= b
    BY <2>1 DEF a, b
  <2>4. Base * a \in Nat /\ Base * b \in Nat /\ Base * a <= Base * b
    <3>1. a * Base \in Nat /\ b * Base \in Nat /\ a * Base <= b * Base
      BY <1>0, <2>3, ProductGrows
    <3>2. a * Base = Base * a /\ b * Base = Base * b
      BY <1>0, <2>3
    <3> QED BY <3>1, <3>2
  <2>5. /\ Clamp(Base * a) \in Minimum .. Maximum
        /\ Clamp(Base * b) \in Minimum .. Maximum
        /\ Clamp(Base * a) <= Clamp(Base * b)
    BY <2>4, Clamped, ClampGrows
  <2> QED BY <2>2, <2>5 DEF a, b
<1> QED BY <1>2, <1>3, <1>4

(* The penalty stretches an interval, and keeps the order of two.           *)
LEMMA PenaltyGrows ==
    ASSUME NEW i \in Nat, NEW j \in Nat, i <= j, NEW m \in Unit .. Cap
    PROVE  /\ (i * m) \div Unit \in Nat /\ (j * m) \div Unit \in Nat
           /\ (i * m) \div Unit <= (j * m) \div Unit
           /\ j <= (j * m) \div Unit
<1>0. Unit \in Nat \ {0} /\ Cap \in Nat /\ m \in Nat /\ Unit <= m
  BY IntervalsAssumption, CapBound
<1>1. i * m \in Nat /\ j * m \in Nat /\ i * m <= j * m
  BY <1>0, ProductGrows
<1>2. /\ (i * m) \div Unit \in Nat /\ (j * m) \div Unit \in Nat
      /\ (i * m) \div Unit <= (j * m) \div Unit
  BY <1>0, <1>1, Quotient, QuotientGrows
<1>3. j * Unit \in Nat /\ j * Unit <= j * m
  <2>1. Unit * j <= m * j /\ Unit * j \in Nat
    BY <1>0, ProductGrows
  <2>2. Unit * j = j * Unit /\ m * j = j * m
    BY <1>0
  <2> QED BY <2>1, <2>2
<1>4. (j * Unit) \div Unit <= (j * m) \div Unit
  BY <1>0, <1>1, <1>3, QuotientGrows
<1>5. j <= (j * Unit) \div Unit
  <2> DEFINE k == (j * Unit) \div Unit
  <2>1. k \in Nat /\ k * Unit \in Nat /\ j * Unit < k * Unit + Unit
    BY <1>0, <1>3, Quotient
  <2> HIDE DEF k
  <2>2. ASSUME k + 1 <= j PROVE FALSE
    <3>1. (k + 1) * Unit <= j * Unit
      BY <1>0, <2>1, <2>2, ProductGrows
    <3>2. (k + 1) * Unit = k * Unit + Unit
      BY <1>0, <2>1
    <3> QED BY <1>0, <1>3, <2>1, <3>1, <3>2
  <2>3. j <= k
    BY <2>1, <2>2
  <2> QED BY <2>3 DEF k
<1> QED BY <1>0, <1>1, <1>2, <1>3, <1>4, <1>5, Quotient

-----------------------------------------------------------------------------
(* The specification.                                                       *)

LEMMA TypeNext == TypeOK /\ [Next]_vars => TypeOK'
<1> SUFFICES ASSUME TypeOK, [Next]_vars PROVE TypeOK'
  OBVIOUS
<1>0. Unit \in Unit .. Cap
  BY IntervalsAssumption, CapBound
<1>E. <<>> \in Seq(Durations)
  OBVIOUS
<1>1. ASSUME NEW w \in Workers, Handles(w) PROVE TypeOK'
  <2>1. CASE PushedBack(w)
    <3>1. AimdUp(mult) \in Unit .. Cap
      BY AimdBounded DEF TypeOK
    <3>2. pushback + 1 \in Nat
      BY DEF TypeOK
    <3> QED BY <2>1, <3>1, <3>2 DEF TypeOK, PushedBack, Plans, penalty, learnt
  <2>2. CASE Healthy(w)
    BY <1>0, <2>2 DEF TypeOK, Healthy, Idles, Plans, Goto, penalty, learnt
  <2>3. CASE Raise(w)
    BY <1>0, <2>3 DEF TypeOK, Raise, Plans, learnt
  <2>4. CASE Stamp(w)
    BY <1>0, <2>4 DEF TypeOK, Stamp, Idles, Plans, learnt
  <2>5. CASE Lower(w)
    BY <2>5, AimdBounded DEF TypeOK, Lower, Plans, penalty, learnt
  <2>6. CASE Lowered(w)
    BY <1>0, <2>6 DEF TypeOK, Lowered, Idles, Plans, learnt
  <2> QED
    BY <1>1, <2>1, <2>2, <2>3, <2>4, <2>5, <2>6 DEF Handles, Answered
<1>2. ASSUME NEW w \in Workers, Fails(w) \/ \E k \in {"poll", "submit"} : Call(w, k)
      PROVE  TypeOK'
  BY <1>0, <1>2 DEF TypeOK, Fails, Call, Idles, Plans, Goto, penalty, learnt
<1>3. CASE QuietPasses \/ PauseEnds \/ PenaltyExpires
  BY <1>0, <1>3 DEF TypeOK, QuietPasses, PauseEnds, PenaltyExpires, learnt
<1>4. CASE (\E d \in Durations : RecordTerminal(d)) \/ SamplesExpire
  <2>1. CASE SamplesExpire
    BY <1>E, <2>1 DEF TypeOK, SamplesExpire, penalty
  <2>2. ASSUME NEW d \in Durations, RecordTerminal(d) PROVE TypeOK'
    <3>1. Append(durs, d) \in Seq(Durations)
      BY DEF TypeOK
    <3> QED BY <2>2, <3>1 DEF TypeOK, RecordTerminal, penalty
  <2> QED BY <1>4, <2>1, <2>2
<1>5. CASE ComputeStats \/ CacheStats \/ CacheExpires
  <2>1. NoStats \in AllStats
    BY DEF NoStats, AllStats
  <2>2. Stats(durs) \in AllStats
    BY StatsType DEF TypeOK
  <2> QED BY <1>5, <2>1, <2>2
          DEF TypeOK, ComputeStats, CacheStats, CacheExpires, penalty
<1>6. CASE ResetBegins \/ ResetPause \/ ResetQuiet \/ ResetSamples \/ ResetCache
  <2>1. NoStats \in AllStats
    BY DEF NoStats, AllStats
  <2>2. CASE ResetBegins
    BY <1>0, <2>2 DEF TypeOK, ResetBegins, learnt
  <2>3. CASE ResetPause
    BY <2>3 DEF TypeOK, ResetPause, learnt
  <2>4. CASE ResetQuiet
    BY <2>4 DEF TypeOK, ResetQuiet, learnt
  <2>5. CASE ResetSamples
    BY <1>E, <2>5 DEF TypeOK, ResetSamples, penalty
  <2>6. CASE ResetCache
    BY <2>1, <2>6 DEF TypeOK, ResetCache, penalty
  <2> QED BY <1>6, <2>2, <2>3, <2>4, <2>5, <2>6
<1>7. CASE UNCHANGED vars
  BY <1>7 DEF TypeOK, vars
<1> QED
  BY <1>1, <1>2, <1>3, <1>4, <1>5, <1>6, <1>7 DEF Next

(* Every variable keeps its type; above all, the multiplier stays between   *)
(* AIMD_MIN and the one that stretches the base interval to the longest,    *)
(* although workers and a reset read and write it in steps that overtake    *)
(* each other, and percentiles are always of some samples (polling.py).     *)
THEOREM TypeCorrect == Spec => []TypeOK
<1>1. Init => TypeOK
  <2>1. Unit \in Unit .. Cap /\ NoStats \in AllStats
    BY IntervalsAssumption, CapBound DEF NoStats, AllStats
  <2>2. <<>> \in Seq(Durations) /\ 0 \in Nat
    OBVIOUS
  <2> QED BY <2>1, <2>2 DEF Init, TypeOK
<1> QED BY <1>1, TypeNext, PTL DEF Spec

(* Whatever was learnt and however large the penalty, the interval that     *)
(* next_interval gives a poll lies within the configured bounds, does not   *)
(* shrink as the task goes on, and is never shorter than without the        *)
(* penalty (compute_interval, next_interval, base_interval): for all        *)
(* durations, not only for those of the run.                                *)
THEOREM CadenceKept == Spec => []CadenceSound
<1>1. TypeOK => CadenceSound
  <2> SUFFICES ASSUME TypeOK PROVE CadenceSound
    OBVIOUS
  <2>0. /\ cache \in AllStats /\ mult \in Unit .. Cap /\ Elapsed \subseteq Nat
        /\ Minimum \in Nat /\ Maximum \in Nat
    BY IntervalsAssumption DEF TypeOK
  <2>1. ASSUME NEW e \in Elapsed, NEW f \in Elapsed, NEW first \in BOOLEAN, f <= e
        PROVE  /\ NextInterval(cache, mult, e, first) \in Minimum .. Maximum
               /\ BaseInterval(cache, e, first) <= NextInterval(cache, mult, e, first)
               /\ NextInterval(cache, mult, f, first)
                     <= NextInterval(cache, mult, e, first)
    <3> DEFINE i == ComputeInterval(f, cache, first)
               j == ComputeInterval(e, cache, first)
    <3>1. i \in Minimum .. Maximum /\ j \in Minimum .. Maximum /\ i <= j
      BY <2>0, <2>1, IntervalsGrow
    <3>2. BaseInterval(cache, e, first) = j
      BY DEF BaseInterval
    <3> HIDE DEF i, j
    <3>3. i \in Nat /\ j \in Nat
      BY <2>0, <3>1
    <3>4. /\ (i * mult) \div Unit \in Nat /\ (j * mult) \div Unit \in Nat
          /\ (i * mult) \div Unit <= (j * mult) \div Unit
          /\ j <= (j * mult) \div Unit
      BY <2>0, <3>1, <3>3, PenaltyGrows
    <3>5. Clamp(j) = j /\ Clamp(j) <= Clamp((j * mult) \div Unit)
      BY <3>1, <3>3, <3>4, Clamped, ClampGrows
    <3>6. /\ Clamp((j * mult) \div Unit) \in Minimum .. Maximum
          /\ Clamp((i * mult) \div Unit) <= Clamp((j * mult) \div Unit)
      BY <3>4, Clamped, ClampGrows
    <3>7. /\ NextInterval(cache, mult, e, first) = Clamp((j * mult) \div Unit)
          /\ NextInterval(cache, mult, f, first) = Clamp((i * mult) \div Unit)
      BY DEF NextInterval, i, j
    <3> QED BY <3>2, <3>5, <3>6, <3>7
  <2>2. ASSUME NEW e \in Elapsed, NEW first \in BOOLEAN
        PROVE  /\ Minimum <= NextInterval(cache, mult, e, first)
               /\ NextInterval(cache, mult, e, first) <= Maximum
               /\ BaseInterval(cache, e, first)
                     <= NextInterval(cache, mult, e, first)
    <3>1. e <= e
      BY <2>0
    <3> QED BY <2>0, <2>1, <3>1
  <2> QED BY <2>1, <2>2 DEF CadenceSound
<1> QED BY TypeCorrect, <1>1, PTL

(* A percentile taken from the buckets is within one bucket's width of the  *)
(* percentile of the durations themselves, for every sequence of samples    *)
(* and every bucket width (_percentile, _bucket_label).                     *)
THEOREM PercentilesClose == Spec => []PercentileClose
<1>1. TypeOK => PercentileClose
  <2>1. {10, 50, 95} \subseteq 0 .. 100
    OBVIOUS
  <2> QED BY <2>1, Close DEF TypeOK, PercentileClose
<1> QED BY TypeCorrect, <1>1, PTL

=============================================================================
