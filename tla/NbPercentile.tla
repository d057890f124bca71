---------------------------- MODULE NbPercentile ----------------------------
(***************************************************************************)
(* The report of nb_histogram.c over the histogram that NbHistogram builds *)
(* up. nb_histogram_dump calls nb_histogram_percentile for each percentile *)
(* of a list: one iteration of its loop over the buckets is one step, its  *)
(* return is another. The rows and the averages are functions of the       *)
(* histogram. An estimate is a fraction, or NaN: for the sizes checked,    *)
(* the double arithmetic of the code rounds down to the same thresholds.   *)
(***************************************************************************)
EXTENDS NbHistogram

CONSTANTS
  Percentiles,  \* fractions <<num, den>>, the argument of the dump
  AssertsOn     \* the build keeps assert: NDEBUG is not defined

ASSUME PercentilesAssumption ==
  /\ Percentiles \in Seq({p \in Nat \X Nat : 0 < p[1] /\ p[1] < p[2]})
  /\ AssertsOn \in BOOLEAN

VARIABLES
  dump,     \* "no" or, inside nb_histogram_dump, "scan"
  printed,  \* the percentiles that the dump has printed
  bucket,   \* locals b and count of nb_histogram_percentile; they are
  count     \* reset when it returns

dumpVars == <<dump, printed, bucket, count>>
reportVars == <<vars, dumpVars>>

ReportInit ==
  /\ Init
  /\ dump = "no" /\ printed = <<>>
  /\ bucket = 0 /\ count = 0

Frac(n, d) == [num |-> n, den |-> d]
NaN == Frac(0, 0)
IsNumber(x) == x # NaN

\* Comparisons of a fraction with an integer, and of two fractions.
Below(x, n) == x.num < n * x.den
Exceeds(x, n) == x.num > n * x.den
AtMost(x, y) == x.num * y.den <= y.num * x.den

-----------------------------------------------------------------------------
(* nb_histogram_percentile                                                 *)

\* The limit below bucket b, as the loop and the rows print it.
LowerLimit(b) == IF b > 0 THEN Buckets[b - 1] ELSE 0

\* (size_t) size * p
Threshold(p) == (hist.size * p[1]) \div p[2]

\* Mutant: scaled by the distance to the right end.
InterpolateBack(b, left, t) ==
  LET right == left + hist.buckets[b]
  IN IF right = left \/ Buckets[b] = Infinity THEN NaN
     ELSE Frac(LowerLimit(b) * (right - left)
                 + (Buckets[b] - LowerLimit(b)) * (right - t), right - left)

\* The linear interpolation in bucket b, with "left" samples below it. In
\* double arithmetic 0 / 0 and INFINITY * 0 are NaN, and a part of an
\* infinite bucket is INFINITY.
Interpolate(b, left, t) ==
  LET right == left + hist.buckets[b]
  IN IF right = left \/ (Buckets[b] = Infinity /\ t = left) THEN NaN
     ELSE IF Buckets[b] = Infinity THEN Frac(1, 0)
     ELSE Frac(LowerLimit(b) * (right - left)
                 + (Buckets[b] - LowerLimit(b)) * (t - left), right - left)

\* NaN fails both comparisons and is returned as it is.
Clamp(r) ==
  IF Below(r, hist.min) THEN Frac(hist.min, 1)
  ELSE IF Exceeds(r, hist.max) THEN Frac(hist.max, 1)
  ELSE r

\* A call is in progress, for the next percentile of the list.
Scanning == dump = "scan" /\ Len(printed) < Len(Percentiles)
Wanted == Threshold(Percentiles[Len(printed) + 1])

\* Mutant: count > threshold.
PassesThreshold == bucket < BucketsCount /\ count + hist.buckets[bucket] > Wanted

\* The loop has found a bucket where count >= threshold.
ReachesThreshold == bucket < BucketsCount /\ count + hist.buckets[bucket] >= Wanted

SkipBucket ==
  /\ Scanning
  /\ bucket < BucketsCount /\ ~ReachesThreshold
  /\ count' = count + hist.buckets[bucket]
  /\ bucket' = bucket + 1
  /\ UNCHANGED <<vars, dump, printed>>

\* The result of the loop, or that of the return below it.
PrintPercentile ==
  /\ Scanning
  /\ bucket < BucketsCount => ReachesThreshold
  /\ printed' = Append(printed, IF ReachesThreshold
                                THEN Clamp(Interpolate(bucket, count, Wanted))
                                ELSE Frac(hist.max, 1))
  /\ bucket' = 0 /\ count' = 0
  /\ UNCHANGED <<vars, dump>>

-----------------------------------------------------------------------------
(* nb_histogram_dump                                                       *)

\* The bar of a row: the fraction is cast to unsigned before it is scaled, so
\* only a bucket that holds all samples has marks.
Marks(b) == (hist.buckets[b] \div hist.size) * (100 \div 5)

\* A row of the dump is printed for every bucket that is not empty.
Row(b) ==
  [from |-> LowerLimit(b), to |-> Buckets[b], ops |-> hist.buckets[b],
   part |-> Frac(hist.buckets[b], hist.size), marks |-> Marks(b)]
Rows == {Row(b) : b \in {c \in Bucket : hist.buckets[c] # 0}}

\* avg_latency, NaN without a sample, and operations per unit of the scaled latency.
Average == Frac(hist.sum, hist.size)
Throughput == Frac(hist.size, hist.sum)

\* The call asserts that there is a sample; a build without assert goes on.
DumpCall ==
  /\ dump = "no" /\ pc = "idle"
  /\ AssertsOn => hist.size > 0
  /\ dump' = "scan"
  /\ UNCHANGED <<vars, printed, bucket, count>>

DumpReturn ==
  /\ dump = "scan" /\ Len(printed) = Len(Percentiles)
  /\ dump' = "no"
  /\ printed' = <<>>
  /\ UNCHANGED <<vars, bucket, count>>

\* The dump takes a const histogram, and nothing runs beside it.
Build == dump = "no" /\ Next /\ UNCHANGED dumpVars

ReportNext == Build \/ DumpCall \/ SkipBucket \/ PrintPercentile \/ DumpReturn

ReportSpec == ReportInit /\ [][ReportNext]_reportVars

-----------------------------------------------------------------------------
\* v is the t-th smallest of the samples.
IsOrderStatistic(v, t) ==
  /\ Cardinality({i \in 1 .. Len(samples) : samples[i] < v}) < t
  /\ Cardinality({i \in 1 .. Len(samples) : samples[i] <= v}) >= t

\* Whenever the threshold reaches a sample, the latency that is printed lies
\* between the limits of the bucket of the exact percentile, and between the
\* smallest and the largest sample.
PercentileNearExact ==
  \A k \in 1 .. Len(printed), b \in Bucket, v \in Values :
    LET t == Threshold(Percentiles[k])
        r == printed[k]
    IN t > 0 /\ Encloses(b, v) /\ IsOrderStatistic(v, t) =>
         /\ IsNumber(r)
         /\ Exceeds(r, LowerLimit(b)) \/ b = 0
         /\ ~Exceeds(r, Buckets[b])
         /\ ~Below(r, hist.min) /\ ~Exceeds(r, hist.max)

\* The latencies of the report are in order: the average is between the
\* smallest and the largest sample, unless it is NaN, and a higher percentile
\* never prints as a smaller latency.
LatenciesOrdered ==
  dump = "scan" =>
    /\ ~Below(Average, hist.min) /\ ~Exceeds(Average, hist.max)
    /\ \A j, k \in 1 .. Len(printed) :
         LET p == Percentiles[j]
             q == Percentiles[k]
         IN (/\ p[1] * q[2] <= q[1] * p[2]
             /\ IsNumber(printed[j]) /\ IsNumber(printed[k]))
            => AtMost(printed[j], printed[k])

\* README.md promises "Percentilies calculation", a latency in sec/op for
\* each percentile of the list, whatever the number of operations was.
PercentileIsNumber == \A k \in 1 .. Len(printed) : IsNumber(printed[k])

\* The header of the dump, "[t min, t max)", promises that a row counts the
\* samples from its lower limit on and below its upper limit.
RowsAreHalfOpen ==
  dump = "scan" =>
    \A row \in Rows :
      row.ops = Cardinality({i \in 1 .. Len(samples) :
                               row.from <= samples[i] /\ samples[i] < row.to})
=============================================================================
