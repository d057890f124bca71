------------------------- MODULE NbHistogramProofs -------------------------
(***************************************************************************)
(* Proofs about nb_histogram.c, for every table of limits, every set of    *)
(* samples and every list of percentiles: first arithmetic, then the       *)
(* histogram (Spec of NbHistogram), then its report (ReportSpec of         *)
(* NbPercentile).                                                          *)
(***************************************************************************)
EXTENDS NbPercentile, FiniteSetTheorems, TLAPS

(* Products of natural numbers are natural, and grow with each factor.     *)
LEMMA ProductGrows ==
  ASSUME NEW a \in Nat, NEW b \in Nat, NEW c \in Nat, NEW d \in Nat,
         a <= c, b <= d
  PROVE  /\ a * b \in Nat /\ c * d \in Nat
         /\ a * b <= c * d
<1>1. a * b \in Nat /\ c * d \in Nat /\ c * b \in Nat
  OBVIOUS
<1>2. a * b <= c * b
  OBVIOUS
<1>3. c * b <= c * d
  OBVIOUS
<1>. QED  BY <1>1, <1>2, <1>3

LEMMA DivBounds ==
  ASSUME NEW a \in Nat, NEW d \in Nat \ {0}
  PROVE  /\ a \div d \in Nat
         /\ d * (a \div d) <= a
         /\ a < d * (a \div d) + d
  OBVIOUS

(* A common factor that is positive cancels.                               *)
LEMMA Cancel ==
  ASSUME NEW a \in Nat, NEW b \in Nat, NEW d \in Nat \ {0}, d * a <= d * b
  PROVE  a <= b
  OBVIOUS
LEMMA CancelStrict ==
  ASSUME NEW a \in Nat, NEW b \in Nat, NEW d \in Nat \ {0}, d * a < d * b
  PROVE  a < b
  OBVIOUS

(* A part of s that is less than the whole, rounded down.                  *)
LEMMA FloorBound ==
  ASSUME NEW s \in Nat, NEW n \in Nat, NEW d \in Nat \ {0}, n < d
  PROVE  (s * n) \div d \in Nat /\ (s * n) \div d <= s
<1>1. s * n \in Nat /\ s * n <= s * d
  BY ProductGrows
<1>2. (s * n) \div d \in Nat /\ d * ((s * n) \div d) <= s * n
  BY <1>1, DivBounds
<1>. DEFINE q == (s * n) \div d
<1>. HIDE DEF q
<1>3. q \in Nat /\ d * q <= d * s
  <2>1. q \in Nat /\ d * q <= s * n
    BY <1>2 DEF q
  <2>2. s * d = d * s /\ d * q \in Nat /\ d * s \in Nat
    BY <2>1
  <2>. QED  BY <1>1, <2>1, <2>2
<1>4. q \in Nat /\ q <= s
  BY <1>3, Cancel
<1>. QED  BY <1>4 DEF q

(* A larger part rounds down to no less.                                   *)
LEMMA FloorMonotone ==
  ASSUME NEW s \in Nat, NEW n1 \in Nat, NEW n2 \in Nat,
         NEW d1 \in Nat \ {0}, NEW d2 \in Nat \ {0}, n1 * d2 <= n2 * d1
  PROVE  (s * n1) \div d1 <= (s * n2) \div d2
<1>. DEFINE a == (s * n1) \div d1
            b == (s * n2) \div d2
<1>1. s * n1 \in Nat /\ s * n2 \in Nat
  OBVIOUS
<1>2. /\ a \in Nat /\ b \in Nat
      /\ d1 * a <= s * n1
      /\ s * n2 < d2 * b + d2
  BY <1>1, DivBounds
<1>. HIDE DEF a, b
<1>3. d2 * (d1 * a) <= d2 * (s * n1)
  <2>1. d1 * a \in Nat
    BY <1>2
  <2>. QED  BY <1>1, <1>2, <2>1, ProductGrows
<1>4. d2 * (s * n1) = s * (n1 * d2)
  OBVIOUS
<1>5. s * (n1 * d2) <= s * (n2 * d1)
  <2>1. n1 * d2 \in Nat /\ n2 * d1 \in Nat
    OBVIOUS
  <2>. QED  BY <2>1, ProductGrows
<1>6. s * (n2 * d1) = d1 * (s * n2)
  OBVIOUS
<1>7. d1 * (s * n2) < d1 * (d2 * b + d2)
  <2>1. d2 * b + d2 \in Nat
    BY <1>2
  <2>2. ASSUME NEW x \in Nat, NEW y \in Nat, x < y PROVE d1 * x < d1 * y
    BY <2>2
  <2>. QED  BY <1>1, <1>2, <2>1, <2>2
<1>8. d1 * (d2 * b + d2) = d2 * (d1 * (b + 1))
  BY <1>2
<1>9. d2 * (d1 * a) < d2 * (d1 * (b + 1))
  <2>1. /\ d2 * (d1 * a) \in Int /\ d2 * (s * n1) \in Int /\ s * (n1 * d2) \in Int
        /\ s * (n2 * d1) \in Int /\ d1 * (s * n2) \in Int
        /\ d1 * (d2 * b + d2) \in Int /\ d2 * (d1 * (b + 1)) \in Int
    BY <1>2
  <2>. QED  BY <2>1, <1>3, <1>4, <1>5, <1>6, <1>7, <1>8
<1>10. d1 * a < d1 * (b + 1)
  <2>1. d1 * a \in Nat /\ d1 * (b + 1) \in Nat
    BY <1>2
  <2>. QED  BY <1>9, <2>1, CancelStrict
<1>11. a < b + 1
  BY <1>2, <1>10, CancelStrict
<1>. QED  BY <1>2, <1>11 DEF a, b

(* The interpolation stays between its limits, and strictly above the      *)
(* lower one when it leaves the left end; it grows with the part.          *)
LEMMA InterpolationBetween ==
  ASSUME NEW low \in Nat, NEW high \in Nat, NEW n \in Nat, NEW x \in Nat,
         low <= high, x <= n
  PROVE  /\ low * n \in Nat /\ high * n \in Nat
         /\ low * n + (high - low) * x \in Nat
         /\ low * n <= low * n + (high - low) * x
         /\ low * n + (high - low) * x <= high * n
         /\ low < high /\ x > 0 => low * n < low * n + (high - low) * x
<1>1. high - low \in Nat
  OBVIOUS
<1>2. /\ (high - low) * x \in Nat
      /\ (high - low) * x <= (high - low) * n
      /\ low < high /\ x > 0 => (high - low) * x > 0
  BY <1>1, ProductGrows
<1>3. low * n + (high - low) * n = high * n
  OBVIOUS
<1>4. low * n \in Nat /\ (high - low) * n \in Nat /\ high * n \in Nat
  BY <1>1
<1>. QED  BY <1>2, <1>3, <1>4

LEMMA InterpolationGrows ==
  ASSUME NEW low \in Nat, NEW high \in Nat, NEW n \in Nat,
         NEW x \in Nat, NEW y \in Nat, low <= high, x <= y
  PROVE  low * n + (high - low) * x <= low * n + (high - low) * y
<1>1. high - low \in Nat /\ low * n \in Nat
  OBVIOUS
<1>2. /\ (high - low) * x \in Nat /\ (high - low) * y \in Nat
      /\ (high - low) * x <= (high - low) * y
  BY <1>1, ProductGrows
<1>. QED  BY <1>1, <1>2

-----------------------------------------------------------------------------
(* Fractions; one with denominator zero is infinite, or NaN.               *)
Fraction == [num : Nat, den : Nat]

LEMMA FracFraction ==
  ASSUME NEW n \in Nat, NEW d \in Nat
  PROVE  /\ Frac(n, d) \in Fraction
         /\ Frac(n, d).num = n /\ Frac(n, d).den = d
  BY DEF Frac, Fraction

LEMMA NumberParts ==
  ASSUME NEW x \in Fraction
  PROVE  IsNumber(x) <=> x.num # 0 \/ x.den # 0
  BY DEF Fraction, IsNumber, NaN, Frac

(* The order of the fractions is reflexive, total and transitive, over an  *)
(* infinite one too, but not over NaN.                                     *)
LEMMA AtMostTotal ==
  ASSUME NEW x \in Fraction, NEW y \in Fraction
  PROVE  AtMost(x, x) /\ (AtMost(x, y) \/ AtMost(y, x))
<1>1. x.num * y.den \in Nat /\ y.num * x.den \in Nat /\ x.num * x.den \in Nat
  BY DEF Fraction
<1>. QED  BY <1>1 DEF AtMost

LEMMA AtMostTransitive ==
  ASSUME NEW x \in Fraction, NEW y \in Fraction, NEW z \in Fraction,
         IsNumber(y), AtMost(x, y), AtMost(y, z)
  PROVE  AtMost(x, z)
<1>. DEFINE a == x.num
            b == x.den
            c == y.num
            d == y.den
            e == z.num
            f == z.den
<1>1. /\ a \in Nat /\ b \in Nat /\ c \in Nat /\ d \in Nat /\ e \in Nat /\ f \in Nat
      /\ a * d <= c * b /\ c * f <= e * d
      /\ c # 0 \/ d # 0
  BY NumberParts DEF Fraction, AtMost
<1>. SUFFICES a * f <= e * b
  BY DEF AtMost
<1>. HIDE DEF a, b, c, d, e, f
<1>2. CASE d = 0
  <2>1. c * f <= 0
    BY <1>1, <1>2
  <2>2. f = 0
    BY <1>1, <1>2, <2>1
  <2>3. e * b \in Nat /\ a * f = 0
    BY <1>1, <2>2
  <2>. QED  BY <2>3
<1>3. CASE d # 0
  <2>1. d * (a * f) = (a * d) * f /\ (c * b) * f = (c * f) * b /\ (e * d) * b = d * (e * b)
    BY <1>1
  <2>2. (a * d) * f <= (c * b) * f
    <3>1. a * d \in Nat /\ c * b \in Nat
      BY <1>1
    <3>. QED  BY <1>1, <3>1, ProductGrows
  <2>3. (c * f) * b <= (e * d) * b
    <3>1. c * f \in Nat /\ e * d \in Nat
      BY <1>1
    <3>. QED  BY <1>1, <3>1, ProductGrows
  <2>4. a * f \in Nat /\ e * b \in Nat
    BY <1>1
  <2>5. d * (a * f) <= d * (e * b)
    <3>1. /\ d * (a * f) \in Int /\ (c * b) * f \in Int /\ (c * f) * b \in Int
          /\ (e * d) * b \in Int
      BY <1>1
    <3>. QED  BY <2>1, <2>2, <2>3, <3>1
  <2>. QED  BY <1>1, <1>3, <2>4, <2>5, Cancel
<1>. QED  BY <1>2, <1>3

(* The comparisons with an integer are comparisons with a fraction.        *)
LEMMA CompareInteger ==
  ASSUME NEW x \in Fraction, NEW n \in Nat
  PROVE  /\ Below(x, n) <=> ~AtMost(Frac(n, 1), x)
         /\ Exceeds(x, n) <=> ~AtMost(x, Frac(n, 1))
<1>1. x.num \in Nat /\ n * x.den \in Nat
  BY DEF Fraction
<1>. QED  BY <1>1, FracFraction DEF Below, Exceeds, AtMost

LEMMA IntegerFraction ==
  ASSUME NEW m \in Nat, NEW n \in Nat, m <= n
  PROVE  /\ Frac(m, 1) \in Fraction /\ IsNumber(Frac(m, 1))
         /\ AtMost(Frac(m, 1), Frac(n, 1))
  BY FracFraction, NumberParts DEF AtMost

LEMMA ClampFraction ==
  ASSUME NEW r \in Fraction, hist.min \in Nat, hist.max \in Nat
  PROVE  Clamp(r) \in Fraction /\ (IsNumber(Clamp(r)) <=> IsNumber(r))
<1>1. CASE IsNumber(r)
  BY <1>1, IntegerFraction DEF Clamp
<1>2. CASE ~IsNumber(r)
  <2>1. r = Frac(0, 0)
    BY <1>2 DEF IsNumber, NaN
  <2>2. ~Below(r, hist.min) /\ ~Exceeds(r, hist.max)
    BY <2>1, FracFraction DEF Below, Exceeds
  <2>. QED  BY <2>2 DEF Clamp
<1>. QED  BY <1>1, <1>2

(* Clamping keeps the order, and a number between the extremes.            *)
LEMMA ClampBetween ==
  ASSUME NEW r \in Fraction, IsNumber(r),
         hist.min \in Nat, hist.max \in Nat, hist.min <= hist.max
  PROVE  ~Below(Clamp(r), hist.min) /\ ~Exceeds(Clamp(r), hist.max)
  BY CompareInteger, IntegerFraction, AtMostTotal DEF Clamp

LEMMA ClampMonotone ==
  ASSUME NEW x \in Fraction, NEW y \in Fraction, IsNumber(x), IsNumber(y),
         hist.min \in Nat, hist.max \in Nat, hist.min <= hist.max, AtMost(x, y)
  PROVE  AtMost(Clamp(x), Clamp(y))
<1>. DEFINE low  == Frac(hist.min, 1)
            high == Frac(hist.max, 1)
<1>1. /\ low \in Fraction /\ high \in Fraction
      /\ AtMost(low, high) /\ AtMost(low, low) /\ AtMost(high, high)
  BY IntegerFraction
<1>2. \A r \in Fraction : Clamp(r) = IF ~AtMost(low, r) THEN low
                                     ELSE IF ~AtMost(r, high) THEN high ELSE r
  BY CompareInteger DEF Clamp
<1>3. \A z \in Fraction : AtMost(z, x) => AtMost(z, y)
  BY AtMostTransitive
<1>4. \A z \in Fraction : AtMost(y, z) => AtMost(x, z)
  BY AtMostTransitive
<1>. HIDE DEF low, high
<1>5. CASE ~AtMost(low, x)
  BY <1>1, <1>2, <1>5
<1>6. CASE AtMost(low, x) /\ ~AtMost(x, high)
  BY <1>1, <1>2, <1>3, <1>4, <1>6
<1>7. CASE AtMost(low, x) /\ AtMost(x, high)
  BY <1>1, <1>2, <1>3, <1>7
<1>. QED  BY <1>5, <1>6, <1>7

-----------------------------------------------------------------------------
(* The histogram                                                           *)

USE TableAssumption, ValuesAssumption DEF Bucket, Infinity

(* The rounding of Mid: below end, and at least begin, when they differ.   *)
LEMMA MidRounding ==
  ASSUME NEW b \in Nat, NEW e \in Nat, b < e
  PROVE  /\ b \div 2 + e \div 2 \in Nat
         /\ b <= b \div 2 + e \div 2
         /\ b \div 2 + e \div 2 < e
  OBVIOUS

(* A value is enclosed by one bucket at most, because the table is sorted. *)
LEMMA EnclosesOnce ==
  ASSUME NEW v \in Nat, NEW b \in Bucket, NEW c \in Bucket,
         Encloses(b, v), Encloses(c, v)
  PROVE  b = c
<1>1. ASSUME NEW x \in Bucket, NEW y \in Bucket, x < y,
             Encloses(x, v), Encloses(y, v)
      PROVE  FALSE
  <2>1. y - 1 \in Bucket /\ x <= y - 1
    BY <1>1
  <2>2. CASE x = y - 1
    BY <1>1, <2>1, <2>2 DEF Encloses
  <2>3. CASE x < y - 1
    BY <1>1, <2>1, <2>3 DEF Encloses
  <2>. QED  BY <2>1, <2>2, <2>3
<1>. QED  BY <1>1

-----------------------------------------------------------------------------
(* What a call in progress knows: its argument is a sample.                *)
SearchVal == pc = "search" => val \in Values

TInv == TypeOK /\ SearchVal /\ SearchBrackets

LEMMA ValuesNat == TypeOK => val \in Nat
  BY DEF TypeOK

LEMMA InitTInv == Init => TInv
  BY DEF Init, Idle, EmptyHist, TInv, TypeOK, HistType, SearchVal, SearchBrackets

LEMMA NarrowUpTInv == TInv /\ NarrowUp => TInv'
<1> SUFFICES ASSUME TInv, NarrowUp PROVE TInv'
  OBVIOUS
<1>. USE DEF TInv
<1>1. begin < end
  BY DEF NarrowUp, TypeOK, SearchBrackets, Mid
<1>2. /\ Mid \in Nat
      /\ begin <= Mid
      /\ Mid < end
  BY <1>1, MidRounding DEF TypeOK, Mid
<1>3. /\ begin' = Mid /\ end' = end /\ val' = val /\ pc' = pc
      /\ Buckets[Mid - 1] < val
  BY DEF NarrowUp, Above
<1>4. TypeOK' /\ SearchVal'
  BY <1>2, <1>3 DEF NarrowUp, TypeOK, SearchVal
<1>5. /\ Mid' \in begin' .. end'
      /\ Mid' # begin' => Mid' - 1 \in Bucket
  BY <1>2, <1>3, MidRounding DEF TypeOK, Mid
<1>6. SearchBrackets'
  BY <1>2, <1>3, <1>5 DEF SearchBrackets, TypeOK, NarrowUp
<1>. QED  BY <1>4, <1>6

LEMMA NarrowDownTInv == TInv /\ NarrowDown => TInv'
<1> SUFFICES ASSUME TInv, NarrowDown PROVE TInv'
  OBVIOUS
<1>. USE DEF TInv
<1>1. begin < end
  BY DEF NarrowDown, TypeOK, SearchBrackets, Mid
<1>2. /\ Mid \in Nat
      /\ begin < Mid
      /\ Mid < end
  BY <1>1, MidRounding DEF TypeOK, Mid, NarrowDown
<1>3. /\ begin' = begin /\ end' = Mid /\ val' = val /\ pc' = pc
      /\ ~(Buckets[Mid - 1] < val)
  BY DEF NarrowDown, Above
<1>4. TypeOK' /\ SearchVal'
  BY <1>2, <1>3 DEF NarrowDown, TypeOK, SearchVal
<1>5. /\ Mid' \in begin' .. end'
      /\ Mid' # begin' => Mid' - 1 \in Bucket
  BY <1>2, <1>3, MidRounding DEF TypeOK, Mid
<1>6. val <= Buckets[Mid - 1]
  BY <1>2, <1>3, ValuesNat DEF TypeOK
<1>7. SearchBrackets'
  BY <1>2, <1>3, <1>5, <1>6 DEF SearchBrackets, TypeOK, NarrowDown
<1>. QED  BY <1>4, <1>7

(* The scan ends in the bucket that encloses the value.                    *)
LEMMA ScanEncloses ==
  ASSUME TInv, pc = "search", NEW m \in Bucket, ScanStopsAt(m)
  PROVE  Encloses(m, val)
<1>. USE DEF TInv
<1>1. m > 0 => Buckets[m - 1] < val
  BY DEF ScanStopsAt, Above, SearchBrackets, TypeOK
<1>2. CASE m < end
  <2>1. m + 1 \in (m + 1) .. end
    BY <1>2 DEF TypeOK
  <2>2. ~Above(m + 1)
    BY <2>1 DEF ScanStopsAt
  <2>3. val <= Buckets[m]
    BY <2>2, ValuesNat DEF Above
  <2>. QED  BY <1>1, <2>3 DEF Encloses
<1>3. CASE m = end /\ end < BucketsCount - 1
  <2>1. val <= Buckets[end - 1] /\ end > 0
    BY <1>3 DEF SearchBrackets, TypeOK
  <2>2. Buckets[end - 1] < Buckets[end]
    BY <2>1, <1>3 DEF TypeOK
  <2>3. val <= Buckets[m]
    BY <1>3, <2>1, <2>2, ValuesNat DEF TypeOK
  <2>. QED  BY <1>1, <2>3 DEF Encloses
<1>4. CASE m = end /\ end = BucketsCount - 1
  <2>1. val <= Buckets[m]
    BY <1>4, ValuesNat DEF SearchVal
  <2>. QED  BY <1>1, <2>1 DEF Encloses
<1>. QED  BY <1>2, <1>3, <1>4 DEF ScanStopsAt, TypeOK

LEMMA HistRecord ==
  ASSUME NEW a \in Nat, NEW b \in Nat, NEW c \in Nat, NEW d \in Nat,
         NEW n \in Nat, NEW f \in [Bucket -> Nat]
  PROVE  [min |-> a, max |-> b, sum |-> c, sumsq |-> d, size |-> n,
          buckets |-> f] \in HistType
  BY DEF HistType

LEMMA RecordTInv == TInv /\ Record => TInv'
<1> SUFFICES ASSUME TInv, Record PROVE TInv'
  OBVIOUS
<1>. USE DEF TInv
<1>1. PICK m \in Bucket :
        hist' = [min     |-> IF hist.min > val THEN val ELSE hist.min,
                 max     |-> IF hist.max < val THEN val ELSE hist.max,
                 sum     |-> hist.sum + val,
                 sumsq   |-> hist.sumsq + val * val,
                 size    |-> hist.size + 1,
                 buckets |-> [hist.buckets EXCEPT ![m] = @ + 1]]
  BY DEF Record
<1>2. val \in Values /\ val * val \in Nat
  BY ValuesNat DEF SearchVal, Record
<1>3. hist' \in HistType
  <2>1. /\ hist.min \in Nat /\ hist.max \in Nat /\ hist.sum \in Nat
        /\ hist.sumsq \in Nat /\ hist.size \in Nat
        /\ hist.buckets \in [Bucket -> Nat]
    BY DEF TypeOK, HistType
  <2>2. val \in Nat
    BY <1>2
  <2>3. hist.sumsq + val * val \in Nat
    BY <1>2, <2>1
  <2>4. [hist.buckets EXCEPT ![m] = @ + 1] \in [Bucket -> Nat]
    BY <2>1
  <2>5. /\ (IF hist.min > val THEN val ELSE hist.min) \in Nat
        /\ (IF hist.max < val THEN val ELSE hist.max) \in Nat
        /\ hist.sum + val \in Nat
        /\ hist.size + 1 \in Nat
    BY <2>1, <2>2
  <2>. QED  BY <1>1, <2>3, <2>4, <2>5, HistRecord
<1>4. samples' \in Seq(Values)
  BY <1>2 DEF Record, TypeOK
<1>5. TypeOK'
  BY <1>3, <1>4 DEF Record, TypeOK
<1>. QED  BY <1>5 DEF Record, SearchVal, SearchBrackets

LEMMA AddCallTInv ==
  ASSUME TInv, NEW v \in Values, AddCall(v)
  PROVE  TInv'
<1>. USE DEF TInv
<1>1. TypeOK'
  BY DEF AddCall, TypeOK
<1>2. SearchBrackets'
  <2>1. begin' = 0 /\ end' = BucketsCount - 1
    BY DEF AddCall
  <2>2. BucketsCount > 1 =>
          /\ 0 <= begin' \div 2 + end' \div 2
          /\ begin' \div 2 + end' \div 2 < end'
    BY <2>1, MidRounding
  <2>. QED  BY <2>1, <2>2 DEF SearchBrackets, Mid, AddCall
<1>. QED  BY <1>1, <1>2 DEF AddCall, SearchVal

LEMMA ClearTInv == TInv /\ Clear => TInv'
  BY DEF TInv, Clear, EmptyHist, TypeOK, HistType, SearchVal, SearchBrackets,
         Mid, locals

LEMMA NextTInv == TInv /\ [Next]_vars => TInv'
<1> SUFFICES ASSUME TInv, [Next]_vars PROVE TInv'
  OBVIOUS
<1>1. CASE Clear       BY <1>1, ClearTInv
<1>2. CASE NarrowUp    BY <1>2, NarrowUpTInv
<1>3. CASE NarrowDown  BY <1>3, NarrowDownTInv
<1>4. CASE Record      BY <1>4, RecordTInv
<1>5. CASE \E v \in Values : AddCall(v)
  BY <1>5, AddCallTInv
<1>6. CASE UNCHANGED vars
  BY <1>6 DEF TInv, TypeOK, HistType, SearchVal, SearchBrackets, Mid, vars, locals
<1>. QED  BY <1>1, <1>2, <1>3, <1>4, <1>5, <1>6 DEF Next, Search

(* Every variable keeps its type, in particular begin and end stay indexes *)
(* of the table of limits.                                                 *)
THEOREM TypeCorrect == Spec => []TypeOK
<1>1. TInv => TypeOK
  BY DEF TInv
<1>. QED  BY <1>1, InitTInv, NextTInv, PTL DEF Spec

(* The bisection of nb_histogram_add never loses the bucket of its value   *)
(* and never reads the table of limits outside of its bounds.              *)
THEOREM BisectionCorrect == Spec => []SearchBrackets
<1>1. TInv => SearchBrackets
  BY DEF TInv
<1>. QED  BY <1>1, InitTInv, NextTInv, PTL DEF Spec

(* Every iteration of the loop that does not end it leaves a non-empty and *)
(* strictly smaller interval: the loop of nb_histogram_add terminates.     *)
THEOREM BisectionShrinks == Spec => SearchShrinks
<1>1. TInv /\ [Next]_vars => [IterationShrinks]_vars
  <2> SUFFICES ASSUME TInv, Next, pc = "search", pc' = "search"
               PROVE  begin' <= end' /\ end' - begin' < end - begin
    BY DEF IterationShrinks
  <2>1. Mid # begin => /\ Mid \in Nat
                       /\ begin < Mid
                       /\ Mid < end
    BY MidRounding DEF TInv, TypeOK, SearchBrackets, Mid
  <2>2. CASE NarrowUp
    BY <2>1, <2>2 DEF NarrowUp, TInv, TypeOK
  <2>3. CASE NarrowDown
    BY <2>1, <2>3 DEF NarrowDown, TInv, TypeOK
  <2>. QED  BY <2>2, <2>3 DEF Next, Search, Record, AddCall, Clear
<1>. QED  BY <1>1, InitTInv, NextTInv, PTL DEF Spec, SearchShrinks

-----------------------------------------------------------------------------
(* What Record does to the statistics, stated once for the proofs below.   *)
LEMMA RecordCounts ==
  ASSUME TInv, Record
  PROVE  \E m \in Bucket :
           /\ Encloses(m, val)
           /\ hist'.size = hist.size + 1
           /\ hist'.buckets = [hist.buckets EXCEPT ![m] = @ + 1]
           /\ hist'.min = IF val < hist.min THEN val ELSE hist.min
           /\ hist'.max = IF val > hist.max THEN val ELSE hist.max
<1>1. PICK m \in Bucket :
        /\ ScanStopsAt(m)
        /\ hist' = [min     |-> IF hist.min > val THEN val ELSE hist.min,
                    max     |-> IF hist.max < val THEN val ELSE hist.max,
                    sum     |-> hist.sum + val,
                    sumsq   |-> hist.sumsq + val * val,
                    size    |-> hist.size + 1,
                    buckets |-> [hist.buckets EXCEPT ![m] = @ + 1]]
  BY DEF Record
<1>2. Encloses(m, val)
  BY <1>1, ScanEncloses DEF Record
<1>3. hist.min \in Nat /\ hist.max \in Nat /\ val \in Nat
  BY ValuesNat DEF TInv, TypeOK, HistType
<1>4. /\ hist'.size = hist.size + 1
      /\ hist'.buckets = [hist.buckets EXCEPT ![m] = @ + 1]
      /\ hist'.min = IF hist.min > val THEN val ELSE hist.min
      /\ hist'.max = IF hist.max < val THEN val ELSE hist.max
  BY <1>1, Zenon
<1>. QED  BY <1>2, <1>3, <1>4

LEMMA WithinFinite ==
  ASSUME TypeOK, NEW b \in Bucket
  PROVE  /\ IsFiniteSet(Within(b))
         /\ Cardinality(Within(b)) \in Nat
         /\ Len(samples) + 1 \notin Within(b)
<1>1. Len(samples) \in Nat
  BY DEF TypeOK
<1>2. IsFiniteSet(1 .. Len(samples))
  BY <1>1, FS_Interval
<1>3. IsFiniteSet(Within(b))
  BY <1>2, FS_Subset DEF Within
<1>. QED  BY <1>1, <1>3, FS_CardinalityType DEF Within

(* A sample that is added enters the set of its own bucket only.           *)
LEMMA WithinAppend ==
  ASSUME TypeOK, val \in Values, samples' = Append(samples, val), NEW b \in Bucket
  PROVE  Within(b)' = IF Encloses(b, val)
                      THEN Within(b) \cup {Len(samples) + 1} ELSE Within(b)
<1>1. /\ Len(samples) \in Nat
      /\ Len(samples') = Len(samples) + 1
      /\ \A i \in 1 .. Len(samples) : samples'[i] = samples[i]
      /\ samples'[Len(samples) + 1] = val
  BY DEF TypeOK
<1>2. 1 .. Len(samples') = (1 .. Len(samples)) \cup {Len(samples) + 1}
  BY <1>1
<1>3. \A i \in 1 .. Len(samples) : Encloses(b, samples'[i]) <=> Encloses(b, samples[i])
  BY <1>1
<1>. QED  BY <1>1, <1>2, <1>3 DEF Within

CInv == TInv /\ BucketsCountSamples

LEMMA RecordCInv == CInv /\ Record => BucketsCountSamples'
<1> SUFFICES ASSUME CInv, Record PROVE BucketsCountSamples'
  OBVIOUS
<1>1. PICK m \in Bucket :
        /\ Encloses(m, val)
        /\ hist'.size = hist.size + 1
        /\ hist'.buckets = [hist.buckets EXCEPT ![m] = @ + 1]
  BY RecordCounts DEF CInv
<1>2. val \in Values /\ val \in Nat /\ samples' = Append(samples, val)
  BY DEF CInv, TInv, SearchVal, Record
<1>3. hist.buckets \in [Bucket -> Nat]
  BY DEF CInv, TInv, TypeOK, HistType
<1>4. hist'.size = Len(samples')
  BY <1>1, <1>2 DEF CInv, TInv, TypeOK, BucketsCountSamples
<1>5. ASSUME NEW b \in Bucket
      PROVE  hist'.buckets[b] = Cardinality(Within(b)')
  <2>1. Within(b)' = IF Encloses(b, val)
                     THEN Within(b) \cup {Len(samples) + 1} ELSE Within(b)
    BY <1>2, WithinAppend DEF CInv, TInv
  <2>2. hist.buckets[b] = Cardinality(Within(b))
    BY DEF CInv, BucketsCountSamples
  <2>3. CASE b = m
    <3>1. Cardinality(Within(b) \cup {Len(samples) + 1}) = Cardinality(Within(b)) + 1
      BY WithinFinite, FS_AddElement DEF CInv, TInv
    <3>. QED  BY <1>1, <1>3, <2>1, <2>2, <2>3, <3>1
  <2>4. CASE b # m
    <3>1. ~Encloses(b, val)
      BY <1>1, <1>2, <2>4, EnclosesOnce
    <3>. QED  BY <1>1, <1>3, <2>1, <2>2, <2>4, <3>1
  <2>. QED  BY <2>3, <2>4
<1>. QED  BY <1>4, <1>5 DEF BucketsCountSamples

LEMMA EmptyCounts ==
  ASSUME NEW s, s = <<>>, NEW b
  PROVE  Cardinality({i \in 1 .. Len(s) : Encloses(b, s[i])}) = 0
<1>1. {i \in 1 .. Len(s) : Encloses(b, s[i])} = {}
  OBVIOUS
<1>. QED  BY <1>1, FS_EmptySet

LEMMA InitCInv == Init => CInv
<1> SUFFICES ASSUME Init PROVE BucketsCountSamples
  BY InitTInv DEF CInv
<1>1. /\ samples = <<>>
      /\ hist.size = 0
      /\ hist.buckets = [b \in Bucket |-> 0]
  BY DEF Init, EmptyHist
<1>. QED  BY <1>1, EmptyCounts DEF BucketsCountSamples, Within

LEMMA NextCInv == CInv /\ [Next]_vars => CInv'
<1> SUFFICES ASSUME CInv, [Next]_vars PROVE BucketsCountSamples'
  BY NextTInv DEF CInv
<1>1. CASE Clear
  <2>1. /\ samples' = <<>>
        /\ hist'.size = 0
        /\ hist'.buckets = [b \in Bucket |-> 0]
    BY <1>1 DEF Clear, EmptyHist
  <2>. QED  BY <2>1, EmptyCounts DEF BucketsCountSamples, Within
<1>2. CASE Record
  BY <1>2, RecordCInv
<1>3. CASE UNCHANGED <<hist, samples>>
  BY <1>3 DEF CInv, BucketsCountSamples, Within
<1>. QED
  BY <1>1, <1>2, <1>3 DEF Next, Search, NarrowUp, NarrowDown, AddCall, vars

(* The counts of the buckets are those of the samples, each in the bucket  *)
(* that encloses it, for every table and every sequence of samples.        *)
THEOREM CountsCorrect == Spec => []BucketsCountSamples
<1>1. CInv => BucketsCountSamples
  BY DEF CInv
<1>. QED  BY <1>1, InitCInv, NextCInv, PTL DEF Spec

-----------------------------------------------------------------------------
Added == {samples[i] : i \in 1 .. Len(samples)}

EInv == TInv /\ ExtremesOfSamples

LEMMA AddedAppend ==
  ASSUME TypeOK, val \in Values, samples' = Append(samples, val)
  PROVE  Added' = Added \cup {val} /\ Added \subseteq Values
<1>1. /\ Len(samples) \in Nat
      /\ Len(samples') = Len(samples) + 1
      /\ \A i \in 1 .. Len(samples) : samples'[i] = samples[i]
      /\ samples'[Len(samples) + 1] = val
  BY DEF TypeOK
<1>2. 1 .. Len(samples') = (1 .. Len(samples)) \cup {Len(samples) + 1}
  BY <1>1
<1>3. \A i \in 1 .. Len(samples) : samples[i] \in Values
  BY DEF TypeOK
<1>. QED  BY <1>1, <1>2, <1>3 DEF Added

(* One more sample keeps the average between the extremes.                 *)
LEMMA AverageStep ==
  ASSUME NEW size \in Nat, NEW sum \in Nat, NEW low \in Nat, NEW high \in Nat,
         NEW v \in Nat, NEW low2 \in Nat, NEW high2 \in Nat,
         size * low <= sum, sum <= size * high,
         low2 <= low, low2 <= v, high <= high2, v <= high2
  PROVE  /\ (size + 1) * low2 <= sum + v
         /\ sum + v <= (size + 1) * high2
<1>1. size * low2 <= size * low /\ size * high <= size * high2
  OBVIOUS
<1>2. (size + 1) * low2 = size * low2 + low2 /\ (size + 1) * high2 = size * high2 + high2
  OBVIOUS
<1>3. /\ size * low2 \in Nat /\ size * low \in Nat
      /\ size * high \in Nat /\ size * high2 \in Nat
  OBVIOUS
<1>. QED  BY <1>1, <1>2, <1>3

LEMMA NextEInv == EInv /\ [Next]_vars => EInv'
<1> SUFFICES ASSUME EInv, [Next]_vars PROVE ExtremesOfSamples'
  BY NextTInv DEF EInv
<1>1. CASE Clear
  BY <1>1 DEF Clear, EmptyHist, ExtremesOfSamples
<1>2. CASE Record
  <2>1. /\ hist'.min = IF val < hist.min THEN val ELSE hist.min
        /\ hist'.max = IF val > hist.max THEN val ELSE hist.max
    BY <1>2, RecordCounts DEF EInv
  <2>2. Added' = Added \cup {val} /\ Added \subseteq Values
    BY <1>2, AddedAppend DEF EInv, TInv, SearchVal, Record
  <2>3. /\ \A v \in Added : hist.min <= v /\ v <= hist.max
        /\ IF Added = {} THEN hist.min = Infinity /\ hist.max = 0
                         ELSE hist.min \in Added /\ hist.max \in Added
    BY DEF EInv, ExtremesOfSamples, Added
  <2>4. val \in Values /\ hist.min \in Nat /\ hist.max \in Nat
    BY <1>2 DEF EInv, TInv, SearchVal, Record, TypeOK, HistType
  <2>5. /\ \A v \in Added' : hist'.min <= v /\ v <= hist'.max
        /\ Added' # {} /\ hist'.min \in Added' /\ hist'.max \in Added'
    BY <2>1, <2>2, <2>3, <2>4
  <2>6. /\ hist'.size * hist'.min <= hist'.sum
        /\ hist'.sum <= hist'.size * hist'.max
    <3>1. /\ hist.size * hist.min <= hist.sum /\ hist.sum <= hist.size * hist.max
          /\ hist.size \in Nat /\ hist.sum \in Nat
      BY DEF EInv, ExtremesOfSamples, TInv, TypeOK, HistType
    <3>2. hist'.size = hist.size + 1 /\ hist'.sum = hist.sum + val
      BY <1>2 DEF Record
    <3>3. /\ val \in Nat /\ hist'.min \in Nat /\ hist'.max \in Nat
          /\ hist'.min <= hist.min /\ hist'.min <= val
          /\ hist.max <= hist'.max /\ val <= hist'.max
      BY <2>1, <2>4
    <3>4. hist.min \in Nat /\ hist.max \in Nat
      BY <2>4
    <3>5. /\ (hist.size + 1) * hist'.min <= hist.sum + val
          /\ hist.sum + val <= (hist.size + 1) * hist'.max
      <4>. DEFINE s == hist.size
                  t == hist.sum
                  l == hist.min
                  h == hist.max
                  l2 == hist'.min
                  h2 == hist'.max
      <4>1. /\ s \in Nat /\ t \in Nat /\ l \in Nat /\ h \in Nat /\ val \in Nat
            /\ l2 \in Nat /\ h2 \in Nat /\ s * l <= t /\ t <= s * h
            /\ l2 <= l /\ l2 <= val /\ h <= h2 /\ val <= h2
        BY <3>1, <3>3, <3>4
      <4>. HIDE DEF s, t, l, h, l2, h2
      <4>2. (s + 1) * l2 <= t + val /\ t + val <= (s + 1) * h2
        BY <4>1, AverageStep
      <4>. QED  BY <4>2 DEF s, t, l2, h2
    <3>. QED  BY <3>2, <3>5
  <2>. QED  BY <2>5, <2>6 DEF ExtremesOfSamples, Added
<1>3. CASE UNCHANGED <<hist, samples>>
  BY <1>3 DEF EInv, ExtremesOfSamples
<1>. QED
  BY <1>1, <1>2, <1>3 DEF Next, Search, NarrowUp, NarrowDown, AddCall, vars

LEMMA InitEInv == Init => EInv
<1> SUFFICES ASSUME Init PROVE EInv
  OBVIOUS
<1>1. samples = <<>> /\ hist = EmptyHist /\ {samples[i] : i \in 1 .. Len(samples)} = {}
  BY DEF Init
<1>2. hist.min = Infinity /\ hist.max = 0 /\ hist.sum = 0 /\ hist.size = 0
  BY <1>1 DEF EmptyHist
<1>3. Infinity \in Nat
  BY <1>2, InitTInv DEF EInv, TInv, TypeOK, HistType
<1>. QED  BY InitTInv, <1>1, <1>2, <1>3 DEF EInv, ExtremesOfSamples

(* min and max of the histogram are the extremes of the samples.           *)
THEOREM ExtremesCorrect == Spec => []ExtremesOfSamples
<1>1. EInv => ExtremesOfSamples
  BY DEF EInv
<1>. QED  BY <1>1, InitEInv, NextEInv, PTL DEF Spec

-----------------------------------------------------------------------------
(* The bisection implements the histogram that counts a sample in one      *)
(* step: Record is its Add, and the iterations of the loop stutter.        *)
THEOREM Refinement == Spec => ImplementsHistogram
<1>. USE DEF Encloses, Abs!Bucket, Abs!Infinity, Abs!Encloses
<1>1. Init => Abs!Init
  BY DEF Init, EmptyHist, Abs!Init
<1>2. TInv /\ [Next]_vars => [Abs!Next]_(Abs!absVars)
  <2> SUFFICES ASSUME TInv, [Next]_vars
               PROVE  Abs!Next \/ UNCHANGED Abs!absVars
    OBVIOUS
  <2>1. CASE Clear
    BY <2>1 DEF Clear, EmptyHist, Abs!Next, Abs!Clear
  <2>2. CASE Record
    <3>1. val \in Values
      BY <2>2 DEF TInv, SearchVal, Record
    <3>2. Abs!Add(val)
      BY <2>2, RecordCounts DEF Abs!Add
    <3>. QED  BY <3>1, <3>2 DEF Abs!Next
  <2>3. CASE UNCHANGED hist
    BY <2>3 DEF Abs!absVars
  <2>. QED
    BY <2>1, <2>2, <2>3 DEF Next, Search, NarrowUp, NarrowDown, AddCall, vars
<1>. QED
  BY <1>1, <1>2, InitTInv, NextTInv, PTL DEF Spec, ImplementsHistogram, Abs!Spec

-----------------------------------------------------------------------------
(* The report                                                              *)

\* The samples in the buckets up to b, and their number below bucket b.
UpTo(b) == {i \in 1 .. Len(samples) : samples[i] <= Buckets[b]}
CountBelow(b) == IF b = 0 THEN 0 ELSE Cardinality(UpTo(b - 1))

\* Bucket b is the first where the count reaches t.
StopsIn(b, t) ==
  /\ b > 0 => CountBelow(b) < t
  /\ t <= CountBelow(b) + hist.buckets[b]

\* What the loop returns from bucket b.
Estimate(b, t) == Clamp(Interpolate(b, CountBelow(b), t))

ReportType ==
  /\ dump \in {"no", "scan"}
  /\ printed \in Seq([num : Nat, den : Nat])
  /\ Len(printed) <= Len(Percentiles)
  /\ bucket \in Bucket
  /\ count \in Nat

\* Outside of a dump its variables are reset; a dump runs on a histogram that
\* nothing changes and that has samples, if the build asserts it.
DumpAlone ==
  /\ dump = "no" => printed = <<>> /\ bucket = 0 /\ count = 0
  /\ dump = "scan" => pc = "idle" /\ (AssertsOn => hist.size > 0)

\* What the loop knows: count is the number of samples below its bucket, and
\* no bucket before it reached the threshold.
ScanCounts ==
  /\ count = CountBelow(bucket)
  /\ bucket > 0 => Scanning /\ count < Wanted

\* What was printed is the estimate of the first bucket that reaches the
\* threshold.
IsEstimate(k) ==
  \E b \in Bucket :
    /\ StopsIn(b, Threshold(Percentiles[k]))
    /\ printed[k] = Estimate(b, Threshold(Percentiles[k]))
PrintedEstimates == \A k \in 1 .. Len(printed) : IsEstimate(k)

-----------------------------------------------------------------------------
LEMMA SampleType ==
  ASSUME TypeOK
  PROVE  /\ Len(samples) \in Nat
         /\ \A i \in 1 .. Len(samples) : samples[i] \in Nat /\ samples[i] < Infinity
<1>1. samples \in Seq(Values)
  BY DEF TypeOK
<1>2. Len(samples) \in Nat /\ \A i \in 1 .. Len(samples) : samples[i] \in Values
  BY <1>1
<1>. QED  BY <1>2

LEMMA UpToFinite ==
  ASSUME TypeOK, NEW b \in Bucket
  PROVE  /\ IsFiniteSet(UpTo(b)) /\ Cardinality(UpTo(b)) \in Nat
         /\ CountBelow(b) \in Nat
<1>1. Len(samples) \in Nat
  BY DEF TypeOK
<1>2. IsFiniteSet(1 .. Len(samples))
  BY <1>1, FS_Interval
<1>3. \A c \in Bucket : IsFiniteSet(UpTo(c))
  BY <1>2, FS_Subset DEF UpTo
<1>4. b # 0 => b - 1 \in Bucket
  OBVIOUS
<1>. QED  BY <1>3, <1>4, FS_CardinalityType DEF CountBelow

(* One iteration of the loop adds the samples within its bucket.           *)
LEMMA CountStep ==
  ASSUME CInv, NEW b \in Bucket
  PROVE  CountBelow(b) + hist.buckets[b] = Cardinality(UpTo(b))
<1>1. TypeOK /\ \A i \in 1 .. Len(samples) : samples[i] \in Nat
  BY SampleType DEF CInv, TInv
<1>2. hist.buckets[b] = Cardinality(Within(b))
  BY DEF CInv, BucketsCountSamples
<1>3. CASE b = 0
  <2>1. UpTo(b) = Within(b)
    BY <1>3 DEF UpTo, Within, Encloses
  <2>. QED  BY <1>1, <1>2, <1>3, <2>1, WithinFinite DEF CountBelow
<1>4. CASE b # 0
  <2>1. b - 1 \in Bucket /\ Buckets[b - 1] < Buckets[b]
        /\ Buckets[b] \in Nat /\ Buckets[b - 1] \in Nat
    BY <1>4
  <2>2. \A i \in 1 .. Len(samples) :
          /\ samples[i] <= Buckets[b] <=>
               samples[i] <= Buckets[b - 1] \/ Encloses(b, samples[i])
          /\ ~(samples[i] <= Buckets[b - 1] /\ Encloses(b, samples[i]))
    BY <1>1, <1>4, <2>1 DEF Encloses
  <2>3. /\ UpTo(b) = UpTo(b - 1) \cup Within(b)
        /\ UpTo(b - 1) \cap Within(b) = {}
    BY <2>2 DEF UpTo, Within
  <2>4. /\ IsFiniteSet(UpTo(b - 1)) /\ Cardinality(UpTo(b - 1)) \in Nat
        /\ IsFiniteSet(Within(b)) /\ Cardinality(Within(b)) \in Nat
    BY <1>1, <2>1, UpToFinite, WithinFinite
  <2>5. Cardinality(UpTo(b)) = Cardinality(UpTo(b - 1)) + Cardinality(Within(b))
                                 - Cardinality(UpTo(b - 1) \cap Within(b))
    BY <2>3, <2>4, FS_Union
  <2>6. Cardinality(UpTo(b - 1) \cap Within(b)) = 0
    BY <2>3, FS_EmptySet
  <2>. QED  BY <1>2, <1>4, <2>4, <2>5, <2>6 DEF CountBelow
<1>. QED  BY <1>3, <1>4

(* The loop counts all samples, and its count never decreases.             *)
LEMMA CountAll ==
  ASSUME CInv
  PROVE  Cardinality(UpTo(BucketsCount - 1)) = hist.size
<1>1. Len(samples) \in Nat
        /\ \A i \in 1 .. Len(samples) : samples[i] \in Nat /\ samples[i] < Infinity
  BY SampleType DEF CInv, TInv
<1>2. UpTo(BucketsCount - 1) = 1 .. Len(samples)
  <2>1. \A i \in 1 .. Len(samples) : samples[i] <= Buckets[BucketsCount - 1]
    BY <1>1
  <2>. QED  BY <2>1 DEF UpTo
<1>3. Cardinality(1 .. Len(samples)) = Len(samples)
  <2>1. \A n \in Nat : Cardinality(1 .. n) = n
    BY FS_Interval
  <2>. QED  BY <1>1, <2>1
<1>. QED  BY <1>2, <1>3 DEF CInv, BucketsCountSamples

LEMMA CountMonotone ==
  ASSUME CInv, NEW b \in Bucket, NEW c \in Bucket, b < c
  PROVE  CountBelow(b) + hist.buckets[b] <= CountBelow(c)
<1>1. TypeOK /\ \A i \in 1 .. Len(samples) : samples[i] \in Nat
  BY SampleType DEF CInv, TInv
<1>2. c - 1 \in Bucket /\ c # 0 /\ Buckets[b] <= Buckets[c - 1]
      /\ Buckets[b] \in Nat /\ Buckets[c - 1] \in Nat
  <2>1. CASE b = c - 1  BY <2>1
  <2>2. CASE b < c - 1  BY <2>2
  <2>. QED  BY <2>1, <2>2
<1>3. UpTo(b) \subseteq UpTo(c - 1)
  BY <1>1, <1>2 DEF UpTo
<1>4. Cardinality(UpTo(b)) <= Cardinality(UpTo(c - 1))
  BY <1>1, <1>2, <1>3, UpToFinite, FS_Subset
<1>. QED  BY <1>2, <1>4, CountStep DEF CountBelow

(* A higher threshold is reached no earlier.                               *)
LEMMA StopsInOrder ==
  ASSUME CInv, NEW t \in Nat, NEW u \in Nat, t <= u,
         NEW b \in Bucket, NEW c \in Bucket, StopsIn(b, t), StopsIn(c, u)
  PROVE  b <= c
<1>. SUFFICES ASSUME c < b PROVE FALSE
  OBVIOUS
<1>1. CountBelow(c) + hist.buckets[c] <= CountBelow(b)
  BY CountMonotone
<1>2. CountBelow(b) < t /\ u <= CountBelow(c) + hist.buckets[c]
  BY DEF StopsIn
<1>3. CountBelow(b) \in Nat /\ CountBelow(c) \in Nat /\ hist.buckets[c] \in Nat
  BY UpToFinite DEF CInv, TInv, TypeOK, HistType
<1>. QED  BY <1>1, <1>2, <1>3

(* A threshold is a natural number, and no larger than the samples.        *)
LEMMA ThresholdType ==
  ASSUME TypeOK, NEW k \in 1 .. Len(Percentiles)
  PROVE  /\ Threshold(Percentiles[k]) \in Nat
         /\ Threshold(Percentiles[k]) <= hist.size
<1>1. /\ Percentiles[k][1] \in Nat /\ Percentiles[k][2] \in Nat \ {0}
      /\ Percentiles[k][1] < Percentiles[k][2]
  BY PercentilesAssumption
<1>2. hist.size \in Nat
  BY DEF TypeOK, HistType
<1>. QED  BY <1>1, <1>2, FloorBound DEF Threshold

LEMMA ThresholdMonotone ==
  ASSUME TypeOK, NEW j \in 1 .. Len(Percentiles), NEW k \in 1 .. Len(Percentiles),
         Percentiles[j][1] * Percentiles[k][2] <= Percentiles[k][1] * Percentiles[j][2]
  PROVE  Threshold(Percentiles[j]) <= Threshold(Percentiles[k])
<1>1. \A i \in {j, k} : Percentiles[i][1] \in Nat /\ Percentiles[i][2] \in Nat \ {0}
  BY PercentilesAssumption
<1>2. hist.size \in Nat
  BY DEF TypeOK, HistType
<1>. QED  BY <1>1, <1>2, FloorMonotone DEF Threshold

-----------------------------------------------------------------------------
RInv ==
  /\ CInv /\ ExtremesOfSamples
  /\ ReportType /\ DumpAlone /\ ScanCounts /\ PrintedEstimates

(* The dump leaves the histogram alone.                                    *)
LEMMA ReportStepsHist == [ReportNext]_reportVars => [Next]_vars
  BY DEF ReportNext, reportVars, Build, DumpCall, SkipBucket, PrintPercentile,
         DumpReturn

LEMMA HistPartInv ==
  ASSUME RInv, [ReportNext]_reportVars
  PROVE  CInv' /\ ExtremesOfSamples'
<1>1. [Next]_vars
  BY ReportStepsHist
<1>2. CInv' /\ EInv'
  BY <1>1, NextCInv, NextEInv DEF RInv, CInv, EInv
<1>. QED  BY <1>2 DEF EInv

LEMMA DumpReset ==
  ASSUME printed = <<>>, bucket = 0, count = 0
  PROVE  /\ printed \in Seq([num : Nat, den : Nat]) /\ Len(printed) <= Len(Percentiles)
         /\ bucket \in Bucket /\ count \in Nat
         /\ ScanCounts /\ PrintedEstimates
<1>1. Len(Percentiles) \in Nat
  BY PercentilesAssumption
<1>. QED  BY <1>1 DEF ScanCounts, PrintedEstimates, CountBelow

LEMMA InitRInv == ReportInit => RInv
<1> SUFFICES ASSUME ReportInit PROVE RInv
  OBVIOUS
<1>1. CInv /\ ExtremesOfSamples
  BY InitCInv, InitEInv DEF ReportInit, EInv
<1>2. ReportType /\ DumpAlone /\ ScanCounts /\ PrintedEstimates
  BY DumpReset DEF ReportInit, ReportType, DumpAlone
<1>. QED  BY <1>1, <1>2 DEF RInv

LEMMA PrintedThreshold ==
  ASSUME RInv, NEW k \in 1 .. Len(printed)
  PROVE  /\ k \in 1 .. Len(Percentiles)
         /\ Threshold(Percentiles[k]) \in Nat
<1>1. Len(printed) \in Nat /\ Len(Percentiles) \in Nat /\ Len(printed) <= Len(Percentiles)
  BY PercentilesAssumption DEF RInv, ReportType
<1>2. k \in 1 .. Len(Percentiles)
  BY <1>1
<1>. QED  BY <1>2, ThresholdType DEF RInv, CInv, TInv

LEMMA WantedType ==
  ASSUME RInv, Scanning
  PROVE  /\ Len(printed) + 1 \in 1 .. Len(Percentiles)
         /\ Wanted \in Nat /\ Wanted <= hist.size
<1>1. Len(printed) \in Nat /\ Len(Percentiles) \in Nat /\ Len(printed) < Len(Percentiles)
  BY PercentilesAssumption DEF RInv, ReportType, Scanning
<1>2. Len(printed) + 1 \in 1 .. Len(Percentiles)
  BY <1>1
<1>. QED  BY <1>2, ThresholdType DEF Wanted, RInv, CInv, TInv

(* The last bucket reaches every threshold: the loop never runs off the    *)
(* table.                                                                  *)
LEMMA SkipStaysInTable ==
  ASSUME RInv, SkipBucket
  PROVE  bucket + 1 \in Bucket
<1>1. bucket \in Bucket /\ count = CountBelow(bucket) /\ Scanning /\ ~ReachesThreshold
  BY DEF RInv, ReportType, ScanCounts, SkipBucket
<1>2. count + hist.buckets[bucket] = Cardinality(UpTo(bucket))
  BY <1>1, CountStep DEF RInv
<1>3. bucket # BucketsCount - 1
  BY <1>1, <1>2, CountAll, WantedType DEF RInv, ReachesThreshold
<1>. QED  BY <1>1, <1>3

(* The estimates depend on the histogram and its samples only.             *)
LEMMA EstimatesKept ==
  ASSUME UNCHANGED <<hist, samples>>, NEW b \in Bucket, NEW t \in Nat
  PROVE  /\ CountBelow(b)' = CountBelow(b)
         /\ StopsIn(b, t)' <=> StopsIn(b, t)
         /\ Estimate(b, t)' = Estimate(b, t)
<1>1. CountBelow(b)' = CountBelow(b)
  BY DEF CountBelow, UpTo
<1>2. \A n \in Nat : Interpolate(b, n, t)' = Interpolate(b, n, t)
  BY DEF Interpolate
<1>. QED
  BY <1>1, <1>2 DEF StopsIn, Estimate, Clamp, Interpolate, Below, Exceeds

LEMMA PrintedKept ==
  ASSUME RInv, UNCHANGED <<hist, samples, printed>>
  PROVE  PrintedEstimates'
<1> SUFFICES ASSUME NEW k \in 1 .. Len(printed) PROVE IsEstimate(k)'
  BY DEF PrintedEstimates
<1>1. PICK b \in Bucket, t \in Nat :
        t = Threshold(Percentiles[k]) /\ StopsIn(b, t) /\ printed[k] = Estimate(b, t)
  BY PrintedThreshold DEF RInv, PrintedEstimates, IsEstimate
<1>2. Threshold(Percentiles[k])' = t
  BY <1>1 DEF Threshold
<1>3. StopsIn(b, t)' /\ Estimate(b, t)' = Estimate(b, t)
  BY <1>1, EstimatesKept
<1>. QED  BY <1>1, <1>2, <1>3 DEF IsEstimate

LEMMA SkipRInv == RInv /\ SkipBucket => RInv'
<1> SUFFICES ASSUME RInv, SkipBucket PROVE RInv'
  OBVIOUS
<1>1. CInv' /\ ExtremesOfSamples'
  BY HistPartInv DEF ReportNext
<1>2. /\ bucket \in Bucket /\ bucket + 1 \in Bucket /\ bucket + 1 # 0
      /\ bucket' = bucket + 1 /\ count' = count + hist.buckets[bucket]
      /\ UNCHANGED <<hist, samples, pc, dump, printed>>
  BY SkipStaysInTable DEF RInv, ReportType, SkipBucket, vars, locals
<1>3. count' = Cardinality(UpTo(bucket)) /\ count' \in Nat
  BY <1>2, CountStep, UpToFinite DEF RInv, ScanCounts, CInv, TInv
<1>4. ReportType' /\ DumpAlone'
  BY <1>2, <1>3 DEF RInv, ReportType, DumpAlone, SkipBucket, Scanning
<1>5. UNCHANGED <<Scanning, Wanted>> /\ \A b : UpTo(b)' = UpTo(b)
  BY <1>2 DEF Scanning, Wanted, Threshold, UpTo
<1>6. ScanCounts'
  <2>1. CountBelow(bucket)' = Cardinality(UpTo(bucket))
    BY <1>2, <1>5 DEF CountBelow
  <2>2. Scanning /\ count' < Wanted
    <3>1. ~(count' >= Wanted) /\ Scanning
      BY <1>2 DEF SkipBucket, ReachesThreshold
    <3>. QED  BY <3>1, <1>3, WantedType
  <2>. QED  BY <1>3, <1>5, <2>1, <2>2 DEF ScanCounts
<1>7. PrintedEstimates'
  BY <1>2, PrintedKept DEF RInv
<1>. QED  BY <1>1, <1>4, <1>6, <1>7 DEF RInv

-----------------------------------------------------------------------------
(* What the interpolation sees of the bucket where the loop stops.         *)
LEMMA StopTypes ==
  ASSUME CInv, NEW b \in Bucket, NEW t \in Nat, StopsIn(b, t)
  PROVE  /\ hist.buckets[b] \in Nat /\ CountBelow(b) \in Nat
         /\ t - CountBelow(b) \in Nat /\ t - CountBelow(b) <= hist.buckets[b]
         /\ LowerLimit(b) \in Nat /\ Buckets[b] \in Nat
         /\ LowerLimit(b) <= Buckets[b]
         /\ b > 0 => LowerLimit(b) < Buckets[b]
<1>1. hist.buckets[b] \in Nat /\ CountBelow(b) \in Nat
  BY UpToFinite DEF CInv, TInv, TypeOK, HistType
<1>2. CountBelow(b) <= t /\ t <= CountBelow(b) + hist.buckets[b]
  BY <1>1 DEF StopsIn, CountBelow
<1>3. CASE b = 0
  <2>1. LowerLimit(b) = 0 /\ Buckets[b] \in Nat
    BY <1>3 DEF LowerLimit
  <2>. QED  BY <1>1, <1>2, <1>3, <2>1
<1>4. CASE b # 0
  <2>1. LowerLimit(b) = Buckets[b - 1] /\ b - 1 \in Bucket
    BY <1>4 DEF LowerLimit
  <2>2. Buckets[b - 1] < Buckets[b] /\ Buckets[b] \in Nat /\ Buckets[b - 1] \in Nat
    BY <1>4, <2>1
  <2>. QED  BY <1>1, <1>2, <2>1, <2>2
<1>. QED  BY <1>3, <1>4

LEMMA InterpolateCases ==
  ASSUME CInv, NEW b \in Bucket, NEW t \in Nat, StopsIn(b, t)
  PROVE  LET n == hist.buckets[b]
             x == t - CountBelow(b)
             low == LowerLimit(b)
         IN Interpolate(b, CountBelow(b), t) =
              IF n = 0 \/ (Buckets[b] = Infinity /\ x = 0) THEN NaN
              ELSE IF Buckets[b] = Infinity THEN Frac(1, 0)
              ELSE Frac(low * n + (Buckets[b] - low) * x, n)
<1>1. /\ hist.buckets[b] \in Nat /\ CountBelow(b) \in Nat
      /\ CountBelow(b) + hist.buckets[b] - CountBelow(b) = hist.buckets[b]
      /\ CountBelow(b) + hist.buckets[b] = CountBelow(b) <=> hist.buckets[b] = 0
      /\ t = CountBelow(b) <=> t - CountBelow(b) = 0
  BY StopTypes
<1>. QED  BY <1>1 DEF Interpolate

(* A number that is interpolated lies between the limits of its bucket,    *)
(* above the lower one if the threshold is above the samples below it.     *)
LEMMA InterpolateBetween ==
  ASSUME CInv, NEW b \in Bucket, NEW t \in Nat, StopsIn(b, t)
  PROVE  LET r == Interpolate(b, CountBelow(b), t) IN
           /\ r \in Fraction
           /\ IsNumber(r) => /\ AtMost(Frac(LowerLimit(b), 1), r)
                             /\ Buckets[b] # Infinity => AtMost(r, Frac(Buckets[b], 1))
           /\ CountBelow(b) < t => /\ IsNumber(r)
                                   /\ b > 0 => Exceeds(r, LowerLimit(b))
<1>. DEFINE r == Interpolate(b, CountBelow(b), t)
            n == hist.buckets[b]
            x == t - CountBelow(b)
            low == LowerLimit(b)
            high == Buckets[b]
<1>1. /\ n \in Nat /\ x \in Nat /\ x <= n /\ low \in Nat /\ high \in Nat
      /\ low <= high
      /\ b > 0 => low < high
      /\ CountBelow(b) < t => x > 0 /\ n > 0
  BY StopTypes
<1>2. r = IF n = 0 \/ (high = Infinity /\ x = 0) THEN NaN
          ELSE IF high = Infinity THEN Frac(1, 0)
          ELSE Frac(low * n + (high - low) * x, n)
  BY InterpolateCases
<1>. SUFFICES /\ r \in Fraction
              /\ IsNumber(r) => /\ AtMost(Frac(low, 1), r)
                                /\ high # Infinity => AtMost(r, Frac(high, 1))
              /\ CountBelow(b) < t => IsNumber(r) /\ (b > 0 => Exceeds(r, low))
  OBVIOUS
<1>. HIDE DEF r, n, x, low, high
<1>3. CASE n = 0 \/ (high = Infinity /\ x = 0)
  BY <1>1, <1>2, <1>3, FracFraction DEF NaN, IsNumber
<1>4. CASE ~(n = 0 \/ (high = Infinity /\ x = 0)) /\ high = Infinity
  <2>1. r = Frac(1, 0)
    BY <1>2, <1>4
  <2>2. r \in Fraction /\ r.num = 1 /\ r.den = 0 /\ IsNumber(r)
    BY <2>1, FracFraction, NumberParts
  <2>. QED  BY <1>1, <1>4, <2>2, FracFraction DEF AtMost, Exceeds
<1>5. CASE n # 0 /\ high # Infinity
  <2>. DEFINE num == low * n + (high - low) * x
  <2>1. /\ num \in Nat /\ low * n <= num /\ num <= high * n
        /\ low < high /\ x > 0 => low * n < num
        /\ low * n \in Nat /\ high * n \in Nat
    BY <1>1, InterpolationBetween
  <2>2. r = Frac(num, n)
    BY <1>2, <1>5
  <2>. HIDE DEF num
  <2>3. r \in Fraction /\ r.num = num /\ r.den = n /\ IsNumber(r)
    BY <1>1, <1>5, <2>1, <2>2, FracFraction, NumberParts
  <2>4. /\ Frac(low, 1).num = low /\ Frac(low, 1).den = 1
        /\ Frac(high, 1).num = high /\ Frac(high, 1).den = 1
    BY <1>1, FracFraction
  <2>5. AtMost(Frac(low, 1), r) /\ AtMost(r, Frac(high, 1))
    BY <2>1, <2>3, <2>4 DEF AtMost
  <2>6. CountBelow(b) < t /\ b > 0 => Exceeds(r, low)
    BY <1>1, <2>1, <2>3 DEF Exceeds
  <2>. QED  BY <2>3, <2>5, <2>6
<1>. QED  BY <1>3, <1>4, <1>5

LEMMA EstimateFraction ==
  ASSUME CInv, NEW b \in Bucket, NEW t \in Nat, StopsIn(b, t)
  PROVE  Estimate(b, t) \in Fraction
  BY InterpolateBetween, ClampFraction DEF Estimate, CInv, TInv, TypeOK, HistType

(* Within a bucket, the interpolation grows with the threshold.            *)
LEMMA InterpolateMonotone ==
  ASSUME CInv, NEW b \in Bucket, NEW t \in Nat, NEW u \in Nat, t <= u,
         StopsIn(b, t), StopsIn(b, u)
  PROVE  AtMost(Interpolate(b, CountBelow(b), t), Interpolate(b, CountBelow(b), u))
<1>. DEFINE r == Interpolate(b, CountBelow(b), t)
            s == Interpolate(b, CountBelow(b), u)
            n == hist.buckets[b]
            x == t - CountBelow(b)
            y == u - CountBelow(b)
            low == LowerLimit(b)
            high == Buckets[b]
<1>1. /\ n \in Nat /\ x \in Nat /\ y \in Nat /\ x <= y /\ y <= n
      /\ low \in Nat /\ high \in Nat /\ low <= high
  BY StopTypes
<1>2. /\ r = IF n = 0 \/ (high = Infinity /\ x = 0) THEN NaN
             ELSE IF high = Infinity THEN Frac(1, 0)
             ELSE Frac(low * n + (high - low) * x, n)
      /\ s = IF n = 0 \/ (high = Infinity /\ y = 0) THEN NaN
             ELSE IF high = Infinity THEN Frac(1, 0)
             ELSE Frac(low * n + (high - low) * y, n)
  BY InterpolateCases
<1>. SUFFICES AtMost(r, s)
  OBVIOUS
<1>. HIDE DEF r, s, n, x, y, low, high
<1>3. CASE n = 0 \/ high = Infinity
  <2>1. r \in {NaN, Frac(1, 0)} /\ s \in {NaN, Frac(1, 0)}
    BY <1>2, <1>3
  <2>. QED  BY <2>1, FracFraction DEF AtMost, NaN
<1>4. CASE n # 0 /\ high # Infinity
  <2>. DEFINE p == low * n + (high - low) * x
              q == low * n + (high - low) * y
  <2>1. p \in Nat /\ q \in Nat
    <3>1. x <= n
      BY <1>1
    <3>. QED  BY <1>1, <3>1, InterpolationBetween
  <2>4. p <= q
    BY <1>1, InterpolationGrows
  <2>2. r = Frac(p, n) /\ s = Frac(q, n)
    BY <1>2, <1>4
  <2>. HIDE DEF p, q
  <2>3. p * n <= q * n
    BY <1>1, <2>1, <2>4, ProductGrows
  <2>. QED  BY <1>1, <2>1, <2>2, <2>3, FracFraction DEF AtMost
<1>. QED  BY <1>3, <1>4

-----------------------------------------------------------------------------
(* A percentile is printed from the first bucket that reaches it.          *)
LEMMA PrintRInv == RInv /\ PrintPercentile => RInv'
<1> SUFFICES ASSUME RInv, PrintPercentile PROVE RInv'
  OBVIOUS
<1>1. CInv' /\ ExtremesOfSamples'
  BY HistPartInv DEF ReportNext
<1>2. /\ bucket' = 0 /\ count' = 0
      /\ UNCHANGED <<hist, samples, pc, dump>>
  BY DEF PrintPercentile, vars, locals
<1>3. PICK t \in Nat : t = Wanted
  BY WantedType DEF PrintPercentile
<1>4. bucket \in Bucket /\ count = CountBelow(bucket) /\ ReachesThreshold /\ Scanning
  BY DEF RInv, ReportType, ScanCounts, PrintPercentile
<1>5. StopsIn(bucket, t)
  <2>1. bucket > 0 => count < t
    BY <1>3 DEF RInv, ScanCounts
  <2>2. count + hist.buckets[bucket] >= t /\ hist.buckets[bucket] \in Nat /\ count \in Nat
    BY <1>3, <1>4 DEF ReachesThreshold, RInv, ReportType, CInv, TInv, TypeOK, HistType
  <2>. QED  BY <1>4, <2>1, <2>2 DEF StopsIn
<1>6. printed' = Append(printed, Estimate(bucket, t))
  BY <1>3, <1>4 DEF PrintPercentile, Estimate
<1>7. Estimate(bucket, t) \in Fraction /\ printed \in Seq(Fraction)
  BY <1>3, <1>4, <1>5, EstimateFraction DEF RInv, ReportType, Fraction
<1>8. /\ Len(printed) \in Nat /\ Len(printed') = Len(printed) + 1
      /\ printed' \in Seq(Fraction)
      /\ printed'[Len(printed) + 1] = Estimate(bucket, t)
      /\ \A k \in 1 .. Len(printed) : printed'[k] = printed[k]
  BY <1>6, <1>7
<1>9. ReportType' /\ DumpAlone' /\ ScanCounts'
  <2>1. Len(printed') <= Len(Percentiles)
    BY <1>4, <1>8, PercentilesAssumption DEF Scanning
  <2>. QED
    BY <1>2, <1>4, <1>8, <2>1
    DEF RInv, ReportType, DumpAlone, ScanCounts, CountBelow, Scanning, Fraction
<1>10. ASSUME NEW k \in 1 .. Len(printed') PROVE IsEstimate(k)'
  <2>1. Threshold(Percentiles[k])' = Threshold(Percentiles[k])
    BY <1>2 DEF Threshold
  <2>2. PICK b \in Bucket, u \in Nat :
          u = Threshold(Percentiles[k]) /\ StopsIn(b, u) /\ printed'[k] = Estimate(b, u)
    <3>1. CASE k \in 1 .. Len(printed)
      BY <1>8, <3>1, PrintedThreshold DEF RInv, PrintedEstimates, IsEstimate
    <3>2. CASE k = Len(printed) + 1
      BY <1>3, <1>4, <1>5, <1>8, <3>2 DEF Wanted
    <3>. QED  BY <1>8, <3>1, <3>2
  <2>3. StopsIn(b, u)' /\ Estimate(b, u)' = Estimate(b, u)
    BY <1>2, EstimatesKept
  <2>. QED  BY <2>1, <2>2, <2>3 DEF IsEstimate
<1>. QED  BY <1>1, <1>9, <1>10 DEF RInv, PrintedEstimates

LEMMA NextRInv == RInv /\ [ReportNext]_reportVars => RInv'
<1> SUFFICES ASSUME RInv, [ReportNext]_reportVars PROVE RInv'
  OBVIOUS
<1>1. CInv' /\ ExtremesOfSamples'
  BY HistPartInv
<1>2. CASE SkipBucket
  BY <1>2, SkipRInv
<1>3. CASE PrintPercentile
  BY <1>3, PrintRInv
<1>4. CASE Build \/ DumpCall \/ DumpReturn
  <2>1. printed' = <<>> /\ bucket' = 0 /\ count' = 0
    <3>1. CASE Build
      BY <3>1 DEF RInv, DumpAlone, Build, dumpVars
    <3>2. CASE DumpCall
      BY <3>2 DEF RInv, DumpAlone, DumpCall
    <3>3. CASE DumpReturn
      <4>1. ~Scanning
        BY <3>3, PercentilesAssumption DEF DumpReturn, Scanning
      <4>2. bucket = 0 /\ count = 0
        BY <4>1 DEF RInv, ScanCounts, ReportType, CountBelow
      <4>. QED  BY <3>3, <4>2 DEF DumpReturn
    <3>. QED  BY <1>4, <3>1, <3>2, <3>3
  <2>2. dump' \in {"no", "scan"} /\ DumpAlone'
    BY <1>4, <2>1 DEF RInv, ReportType, DumpAlone, Build, DumpCall, DumpReturn,
                      dumpVars, vars, locals
  <2>3. /\ printed' \in Seq([num : Nat, den : Nat]) /\ Len(printed') <= Len(Percentiles)
        /\ bucket' \in Bucket /\ count' \in Nat
        /\ ScanCounts' /\ PrintedEstimates'
    <3>1. Len(Percentiles) \in Nat
      BY PercentilesAssumption
    <3>. QED  BY <2>1, <3>1 DEF ScanCounts, PrintedEstimates, CountBelow
  <2>. QED  BY <1>1, <2>2, <2>3 DEF RInv, ReportType
<1>5. CASE UNCHANGED reportVars
  <2>1. UNCHANGED <<hist, samples, printed, bucket, count, dump, pc>>
    BY <1>5 DEF reportVars, vars, locals, dumpVars
  <2>2. ReportType' /\ DumpAlone'
    BY <2>1 DEF RInv, ReportType, DumpAlone
  <2>3. ScanCounts'
    BY <2>1 DEF RInv, ScanCounts, CountBelow, UpTo, Scanning, Wanted, Threshold
  <2>. QED  BY <1>1, <2>1, <2>2, <2>3, PrintedKept DEF RInv
<1>. QED  BY <1>2, <1>3, <1>4, <1>5 DEF ReportNext

(* The loop of nb_histogram_percentile counts exactly the samples below    *)
(* its bucket, never runs off the table of limits, and returns from the    *)
(* first bucket that reaches the threshold.                                *)
THEOREM ScanCorrect ==
  ReportSpec => [](ReportType /\ DumpAlone /\ ScanCounts /\ PrintedEstimates)
<1>1. RInv => ReportType /\ DumpAlone /\ ScanCounts /\ PrintedEstimates
  BY DEF RInv
<1>. QED  BY <1>1, InitRInv, NextRInv, PTL DEF ReportSpec

-----------------------------------------------------------------------------
(* A bucket that holds samples brings the extremes near its limits.        *)
LEMMA ExtremesOfBucket ==
  ASSUME RInv, NEW b \in Bucket, hist.buckets[b] > 0
  PROVE  /\ hist.min \in Nat /\ hist.max \in Nat /\ hist.min <= hist.max
         /\ hist.min <= Buckets[b]
         /\ b > 0 => LowerLimit(b) < hist.max
<1>1. hist.min \in Nat /\ hist.max \in Nat
  BY DEF RInv, CInv, TInv, TypeOK, HistType
<1>2. hist.buckets[b] = Cardinality(Within(b))
  BY DEF RInv, CInv, BucketsCountSamples
<1>3. PICK i \in 1 .. Len(samples) : Encloses(b, samples[i])
  <2>1. Cardinality(Within(b)) # 0
    BY <1>2
  <2>2. Within(b) # {}
    BY <2>1, FS_EmptySet
  <2>. QED  BY <2>2 DEF Within
<1>4. hist.min <= samples[i] /\ samples[i] <= hist.max
  BY DEF RInv, ExtremesOfSamples
<1>5. samples[i] \in Nat
  BY SampleType DEF RInv, CInv, TInv
<1>6. hist.min <= hist.max /\ hist.min <= Buckets[b]
  BY <1>1, <1>3, <1>4, <1>5 DEF Encloses
<1>7. ASSUME b > 0 PROVE LowerLimit(b) < hist.max
  <2>1. LowerLimit(b) = Buckets[b - 1] /\ b - 1 \in Bucket
    BY <1>7 DEF LowerLimit
  <2>2. Buckets[b - 1] \in Nat /\ Buckets[b - 1] < samples[i]
    BY <1>3, <1>7, <2>1 DEF Encloses
  <2>. QED  BY <1>1, <1>4, <1>5, <2>1, <2>2
<1>. QED  BY <1>1, <1>6, <1>7

LEMMA ExtremesOrdered ==
  ASSUME RInv, NEW b \in Bucket, hist.buckets[b] > 0
  PROVE  /\ hist.min \in Nat /\ hist.max \in Nat /\ hist.min <= hist.max
         /\ hist.max < Infinity
<1>1. hist.min \in Nat /\ hist.max \in Nat /\ hist.min <= hist.max
  BY ExtremesOfBucket
<1>2. Len(samples) \in Nat /\ 1 .. Len(samples) # {}
  <2>1. Cardinality(Within(b)) # 0
    BY DEF RInv, CInv, BucketsCountSamples
  <2>2. Within(b) # {}
    BY <2>1, FS_EmptySet
  <2>. QED  BY <2>2, SampleType DEF Within, RInv, CInv, TInv
<1>3. hist.max \in {samples[i] : i \in 1 .. Len(samples)}
  BY <1>2 DEF RInv, ExtremesOfSamples
<1>4. \A i \in 1 .. Len(samples) : samples[i] < Infinity
  BY <1>2, SampleType DEF RInv, CInv, TInv
<1>. QED  BY <1>1, <1>3, <1>4

(* The bucket where the loop stops for the exact order statistic.          *)
LEMMA StopsAtOrderStatistic ==
  ASSUME RInv, NEW t \in Nat, NEW v \in Values, IsOrderStatistic(v, t),
         NEW b \in Bucket, Encloses(b, v), NEW c \in Bucket, StopsIn(c, t)
  PROVE  c = b
<1>. DEFINE less == {i \in 1 .. Len(samples) : samples[i] < v}
            atMost == {i \in 1 .. Len(samples) : samples[i] <= v}
<1>1. /\ Cardinality(less) < t /\ Cardinality(atMost) >= t
      /\ v \in Nat
  BY DEF IsOrderStatistic
<1>2. CInv /\ TypeOK /\ \A i \in 1 .. Len(samples) : samples[i] \in Nat
  BY SampleType DEF RInv, CInv, TInv
<1>3. /\ IsFiniteSet(less) /\ IsFiniteSet(atMost)
      /\ Cardinality(less) \in Nat /\ Cardinality(atMost) \in Nat
  <2>1. IsFiniteSet(1 .. Len(samples))
    BY <1>2, SampleType, FS_Interval
  <2>2. IsFiniteSet(less) /\ IsFiniteSet(atMost)
    BY <2>1, FS_Subset
  <2>. QED  BY <2>2, FS_CardinalityType
<1>4. t <= CountBelow(b) + hist.buckets[b]
  <2>1. atMost \subseteq UpTo(b)
    <3>1. v <= Buckets[b] /\ Buckets[b] \in Nat
      BY DEF Encloses
    <3>. QED  BY <1>1, <1>2, <3>1 DEF UpTo
  <2>2. Cardinality(atMost) <= Cardinality(UpTo(b))
    BY <1>2, <2>1, UpToFinite, FS_Subset
  <2>. QED  BY <1>1, <1>2, <1>3, <2>2, CountStep, UpToFinite
<1>5. b > 0 => CountBelow(b) < t
  <2> SUFFICES ASSUME b > 0 PROVE CountBelow(b) < t
    OBVIOUS
  <2>1. b - 1 \in Bucket /\ Buckets[b - 1] < v /\ Buckets[b - 1] \in Nat
    BY DEF Encloses
  <2>2. UpTo(b - 1) \subseteq less
    BY <1>1, <1>2, <2>1 DEF UpTo
  <2>3. Cardinality(UpTo(b - 1)) <= Cardinality(less)
    BY <1>3, <2>2, FS_Subset
  <2>4. Cardinality(UpTo(b - 1)) \in Nat
    BY <1>2, <2>1, UpToFinite
  <2>. QED  BY <1>1, <1>3, <2>3, <2>4 DEF CountBelow
<1>6. StopsIn(b, t)
  BY <1>4, <1>5 DEF StopsIn
<1>7. b <= c /\ c <= b
  BY <1>2, <1>6, StopsInOrder
<1>. QED  BY <1>7

(* An estimate from a bucket that holds the wanted sample stays near it.   *)
LEMMA EstimateNear ==
  ASSUME RInv, NEW b \in Bucket, NEW t \in Nat, StopsIn(b, t),
         CountBelow(b) < t
  PROVE  /\ IsNumber(Estimate(b, t))
         /\ b > 0 => Exceeds(Estimate(b, t), LowerLimit(b))
         /\ ~Exceeds(Estimate(b, t), Buckets[b])
         /\ ~Below(Estimate(b, t), hist.min) /\ ~Exceeds(Estimate(b, t), hist.max)
<1>. DEFINE r == Interpolate(b, CountBelow(b), t)
<1>1. CInv /\ hist.buckets[b] > 0
  <2>1. CInv
    BY DEF RInv
  <2>. QED  BY <2>1, StopTypes DEF StopsIn
<1>2. /\ r \in Fraction /\ IsNumber(r)
      /\ b > 0 => Exceeds(r, LowerLimit(b))
      /\ Buckets[b] # Infinity => AtMost(r, Frac(Buckets[b], 1))
  BY <1>1, InterpolateBetween
<1>3. /\ hist.min \in Nat /\ hist.max \in Nat /\ hist.min <= hist.max
      /\ hist.min <= Buckets[b] /\ hist.max < Infinity
      /\ b > 0 => LowerLimit(b) < hist.max
  BY <1>1, ExtremesOfBucket, ExtremesOrdered
<1>4. Estimate(b, t) = Clamp(r)
  BY DEF Estimate
<1>5. Buckets[b] \in Nat /\ LowerLimit(b) \in Nat
  BY <1>1, StopTypes
<1>. HIDE DEF r
<1>6. IsNumber(Clamp(r)) /\ Clamp(r) \in Fraction
  BY <1>2, <1>3, ClampFraction
<1>7. ~Below(Clamp(r), hist.min) /\ ~Exceeds(Clamp(r), hist.max)
  BY <1>2, <1>3, ClampBetween
<1>8. ~Exceeds(Clamp(r), Buckets[b])
  <2>1. CASE Buckets[b] = Infinity
    <3>1. AtMost(Clamp(r), Frac(hist.max, 1))
      BY <1>3, <1>6, <1>7, CompareInteger
    <3>2. AtMost(Frac(hist.max, 1), Frac(Buckets[b], 1)) /\ IsNumber(Frac(hist.max, 1))
          /\ Frac(hist.max, 1) \in Fraction /\ Frac(Buckets[b], 1) \in Fraction
      BY <1>3, <1>5, <2>1, IntegerFraction
    <3>3. AtMost(Clamp(r), Frac(Buckets[b], 1))
      BY <1>6, <3>1, <3>2, AtMostTransitive
    <3>. QED  BY <1>5, <1>6, <3>3, CompareInteger
  <2>2. CASE Buckets[b] # Infinity
    <3>1. CASE Below(r, hist.min)
      <4>1. Clamp(r) = Frac(hist.min, 1) /\ AtMost(Frac(hist.min, 1), Frac(Buckets[b], 1))
        BY <1>3, <1>5, <3>1, IntegerFraction DEF Clamp
      <4>. QED  BY <1>5, <1>6, <4>1, CompareInteger
    <3>2. CASE ~Below(r, hist.min) /\ ~Exceeds(r, hist.max)
      BY <1>2, <1>5, <2>2, <3>2, CompareInteger DEF Clamp
    <3>3. CASE ~Below(r, hist.min) /\ Exceeds(r, hist.max)
      <4>1. Clamp(r) = Frac(hist.max, 1) /\ AtMost(Frac(hist.max, 1), r)
        BY <1>2, <1>3, <3>3, CompareInteger, IntegerFraction, AtMostTotal DEF Clamp
      <4>2. AtMost(Clamp(r), Frac(Buckets[b], 1))
        BY <1>2, <1>5, <1>6, <2>2, <4>1, AtMostTransitive, IntegerFraction
      <4>. QED  BY <1>5, <1>6, <4>2, CompareInteger
    <3>. QED  BY <3>1, <3>2, <3>3
  <2>. QED  BY <2>1, <2>2
<1>9. ASSUME b > 0 PROVE Exceeds(Clamp(r), LowerLimit(b))
  <2>1. CASE Below(r, hist.min)
    <3>1. Clamp(r) = Frac(hist.min, 1)
      BY <2>1 DEF Clamp
    <3>2. LowerLimit(b) < hist.min
      <4>1. r.num \in Nat /\ r.den \in Nat /\ r.num < hist.min * r.den
            /\ r.num > LowerLimit(b) * r.den
        BY <1>2, <1>9, <2>1 DEF Fraction, Below, Exceeds
      <4>2. ASSUME hist.min <= LowerLimit(b) PROVE FALSE
        <5>. DEFINE m == hist.min
                    l == LowerLimit(b)
                    d == r.den
        <5>1. m \in Nat /\ l \in Nat /\ d \in Nat /\ m <= l
          BY <1>3, <1>5, <4>1, <4>2
        <5>2. r.num \in Nat /\ r.num < m * d /\ r.num > l * d
          BY <4>1
        <5>. HIDE DEF m, l, d
        <5>3. m * d <= l * d /\ m * d \in Nat /\ l * d \in Nat
          BY <5>1, ProductGrows
        <5>. QED  BY <5>2, <5>3
      <4>. QED  BY <1>3, <1>5, <4>2
    <3>. QED  BY <1>3, <1>5, <3>1, <3>2, FracFraction DEF Exceeds
  <2>2. CASE ~Below(r, hist.min) /\ Exceeds(r, hist.max)
    <3>1. Clamp(r) = Frac(hist.max, 1)
      BY <2>2 DEF Clamp
    <3>. QED  BY <1>3, <1>5, <1>9, <3>1, FracFraction DEF Exceeds
  <2>3. CASE ~Below(r, hist.min) /\ ~Exceeds(r, hist.max)
    BY <1>2, <1>9, <2>3 DEF Clamp
  <2>. QED  BY <2>1, <2>2, <2>3
<1>. QED  BY <1>4, <1>6, <1>7, <1>8, <1>9

(* Whenever the threshold reaches a sample, the percentile that is printed *)
(* is a number, in the bucket of the exact one and between the extremes.   *)
THEOREM PercentilesNear == ReportSpec => []PercentileNearExact
<1>1. RInv => PercentileNearExact
  <2> SUFFICES ASSUME RInv, NEW k \in 1 .. Len(printed), NEW b \in Bucket,
                      NEW v \in Values, Threshold(Percentiles[k]) > 0,
                      Encloses(b, v), IsOrderStatistic(v, Threshold(Percentiles[k]))
               PROVE  /\ IsNumber(printed[k])
                      /\ Exceeds(printed[k], LowerLimit(b)) \/ b = 0
                      /\ ~Exceeds(printed[k], Buckets[b])
                      /\ ~Below(printed[k], hist.min) /\ ~Exceeds(printed[k], hist.max)
    BY DEF PercentileNearExact
  <2>1. PICK c \in Bucket, t \in Nat :
          t = Threshold(Percentiles[k]) /\ StopsIn(c, t) /\ printed[k] = Estimate(c, t)
    BY PrintedThreshold DEF RInv, PrintedEstimates, IsEstimate
  <2>2. c = b
    BY <2>1, StopsAtOrderStatistic
  <2>3. CountBelow(b) < t
    BY <2>1, <2>2 DEF StopsIn, CountBelow
  <2>. QED  BY <2>1, <2>2, <2>3, EstimateNear
<1>. QED  BY <1>1, InitRInv, NextRInv, PTL DEF ReportSpec

(* NaN is printed for a threshold of zero only: any other percentile is a  *)
(* number between the smallest and the largest sample.                     *)
THEOREM PositiveThresholdPrints ==
  ReportSpec =>
    [](\A k \in 1 .. Len(printed) :
         Threshold(Percentiles[k]) > 0 =>
           /\ IsNumber(printed[k])
           /\ ~Below(printed[k], hist.min) /\ ~Exceeds(printed[k], hist.max))
<1>1. ASSUME RInv, NEW k \in 1 .. Len(printed), Threshold(Percentiles[k]) > 0
      PROVE  /\ IsNumber(printed[k])
             /\ ~Below(printed[k], hist.min) /\ ~Exceeds(printed[k], hist.max)
  <2>1. PICK b \in Bucket, t \in Nat :
          t = Threshold(Percentiles[k]) /\ StopsIn(b, t) /\ printed[k] = Estimate(b, t)
    BY <1>1, PrintedThreshold DEF RInv, PrintedEstimates, IsEstimate
  <2>2. CountBelow(b) < t
    BY <1>1, <2>1 DEF StopsIn, CountBelow
  <2>. QED  BY <1>1, <2>1, <2>2, EstimateNear
<1>2. RInv => \A k \in 1 .. Len(printed) :
                Threshold(Percentiles[k]) > 0 =>
                  /\ IsNumber(printed[k])
                  /\ ~Below(printed[k], hist.min) /\ ~Exceeds(printed[k], hist.max)
  BY <1>1
<1>. QED  BY <1>2, InitRInv, NextRInv, PTL DEF ReportSpec

(* Two estimates are in the order of their thresholds.                     *)
LEMMA EstimatesInOrder ==
  ASSUME RInv, NEW t \in Nat, NEW u \in Nat, t <= u,
         NEW b \in Bucket, NEW c \in Bucket, StopsIn(b, t), StopsIn(c, u),
         IsNumber(Estimate(b, t)), IsNumber(Estimate(c, u))
  PROVE  AtMost(Estimate(b, t), Estimate(c, u))
<1>. DEFINE r == Interpolate(b, CountBelow(b), t)
            s == Interpolate(c, CountBelow(c), u)
<1>1. CInv /\ hist.min \in Nat /\ hist.max \in Nat
  BY DEF RInv, CInv, TInv, TypeOK, HistType
<1>2. /\ Estimate(b, t) = Clamp(r) /\ Estimate(c, u) = Clamp(s)
      /\ r \in Fraction /\ s \in Fraction
  BY <1>1, InterpolateBetween DEF Estimate
<1>3. IsNumber(r) /\ IsNumber(s)
  BY <1>1, <1>2, ClampFraction
<1>4. CInv /\ hist.min \in Nat /\ hist.max \in Nat /\ hist.min <= hist.max
  <2>1. hist.buckets[b] > 0
    <3>1. hist.buckets[b] \in Nat /\ CountBelow(b) \in Nat
      BY <1>1, StopTypes
    <3>2. hist.buckets[b] = 0 => r = NaN
      BY <3>1 DEF Interpolate
    <3>. QED  BY <1>3, <3>1, <3>2 DEF IsNumber
  <2>. QED  BY <1>1, <2>1, ExtremesOrdered
<1>5. AtMost(r, s)
  <2>1. CASE b = c
    BY <1>4, <2>1, InterpolateMonotone
  <2>2. CASE b < c
    <3>1. /\ Buckets[b] \in Nat /\ LowerLimit(c) \in Nat
          /\ Buckets[b] <= LowerLimit(c) /\ Buckets[b] # Infinity
      <4>1. LowerLimit(c) = Buckets[c - 1] /\ c - 1 \in Bucket /\ b <= c - 1
        BY <2>2 DEF LowerLimit
      <4>2. Buckets[b] <= Buckets[c - 1] /\ Buckets[b] \in Nat /\ Buckets[c - 1] \in Nat
        <5>1. CASE b = c - 1  BY <4>1, <5>1
        <5>2. CASE b < c - 1  BY <4>1, <5>2
        <5>. QED  BY <4>1, <5>1, <5>2
      <4>3. Buckets[b] < Infinity
        BY <2>2
      <4>. QED  BY <4>1, <4>2, <4>3
    <3>2. AtMost(r, Frac(Buckets[b], 1)) /\ AtMost(Frac(LowerLimit(c), 1), s)
      BY <1>4, <1>3, <3>1, InterpolateBetween
    <3>3. /\ Frac(Buckets[b], 1) \in Fraction /\ IsNumber(Frac(Buckets[b], 1))
          /\ Frac(LowerLimit(c), 1) \in Fraction /\ IsNumber(Frac(LowerLimit(c), 1))
          /\ AtMost(Frac(Buckets[b], 1), Frac(LowerLimit(c), 1))
      BY <3>1, IntegerFraction
    <3>4. AtMost(r, Frac(LowerLimit(c), 1))
      BY <1>2, <3>2, <3>3, AtMostTransitive
    <3>. QED  BY <1>2, <3>2, <3>3, <3>4, AtMostTransitive
  <2>. QED  BY <1>4, <2>1, <2>2, StopsInOrder
<1>. HIDE DEF r, s
<1>. QED  BY <1>4, <1>2, <1>3, <1>5, ClampMonotone

(* The average lies between the extremes, and a higher percentile never    *)
(* prints as a smaller latency.                                            *)
THEOREM LatenciesInOrder == ReportSpec => []LatenciesOrdered
<1>1. RInv => LatenciesOrdered
  <2> SUFFICES ASSUME RInv, dump = "scan"
               PROVE  /\ ~Below(Average, hist.min) /\ ~Exceeds(Average, hist.max)
                      /\ \A j, k \in 1 .. Len(printed) :
                           (/\ Percentiles[j][1] * Percentiles[k][2]
                                 <= Percentiles[k][1] * Percentiles[j][2]
                            /\ IsNumber(printed[j]) /\ IsNumber(printed[k]))
                           => AtMost(printed[j], printed[k])
    BY DEF LatenciesOrdered
  <2>1. ~Below(Average, hist.min) /\ ~Exceeds(Average, hist.max)
    <3>1. /\ hist.size \in Nat /\ hist.sum \in Nat
          /\ hist.min \in Nat /\ hist.max \in Nat
          /\ hist.size * hist.min <= hist.sum /\ hist.sum <= hist.size * hist.max
      BY DEF RInv, CInv, TInv, TypeOK, HistType, ExtremesOfSamples
    <3>2. Average.num = hist.sum /\ Average.den = hist.size
      BY <3>1, FracFraction DEF Average
    <3>3. /\ hist.size * hist.min = hist.min * hist.size
          /\ hist.size * hist.max = hist.max * hist.size
          /\ hist.size * hist.min \in Nat /\ hist.size * hist.max \in Nat
      BY <3>1
    <3>. QED  BY <3>1, <3>2, <3>3 DEF Below, Exceeds
  <2>2. ASSUME NEW j \in 1 .. Len(printed), NEW k \in 1 .. Len(printed),
               Percentiles[j][1] * Percentiles[k][2]
                 <= Percentiles[k][1] * Percentiles[j][2],
               IsNumber(printed[j]), IsNumber(printed[k])
        PROVE  AtMost(printed[j], printed[k])
    <3>1. PICK b \in Bucket, t \in Nat :
            t = Threshold(Percentiles[j]) /\ StopsIn(b, t) /\ printed[j] = Estimate(b, t)
      BY PrintedThreshold DEF RInv, PrintedEstimates, IsEstimate
    <3>2. PICK c \in Bucket, u \in Nat :
            u = Threshold(Percentiles[k]) /\ StopsIn(c, u) /\ printed[k] = Estimate(c, u)
      BY PrintedThreshold DEF RInv, PrintedEstimates, IsEstimate
    <3>3. t <= u
      BY <2>2, <3>1, <3>2, PrintedThreshold, ThresholdMonotone DEF RInv, CInv, TInv
    <3>. QED  BY <2>2, <3>1, <3>2, <3>3, EstimatesInOrder
  <2>. QED  BY <2>1, <2>2
<1>. QED  BY <1>1, InitRInv, NextRInv, PTL DEF ReportSpec
=============================================================================
