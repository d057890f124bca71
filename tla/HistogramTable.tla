--------------------------- MODULE HistogramTable ---------------------------
(***************************************************************************)
(* The table of bucket limits of nb_histogram.c. Only comparisons of a     *)
(* sample with a limit matter to the code, so a limit is any natural       *)
(* number; the last one stands for INFINITY.                               *)
(***************************************************************************)
EXTENDS Integers

CONSTANTS
  BucketsCount,  \* NB_HISTOGRAM_BUCKETS_COUNT
  Buckets,       \* NB_HISTOGRAM_BUCKETS: upper limit of each bucket
  Values         \* the samples, already multiplied by 10^power

Bucket == 0 .. BucketsCount - 1

\* The last limit of the table is INFINITY.
Infinity == Buckets[BucketsCount - 1]

\* The table is sorted, and every sample is finite and not negative: it is
\* the difference of two readings of CLOCK_MONOTONIC_RAW.
ASSUME TableAssumption ==
  /\ BucketsCount \in Nat \ {0}
  /\ Buckets \in [Bucket -> Nat]
  /\ \A b, c \in Bucket : b < c => Buckets[b] < Buckets[c]

ASSUME ValuesAssumption ==
  /\ Values \subseteq Nat
  /\ \A v \in Values : v < Infinity

\* Bucket b holds the values above the limit before it, up to its own limit.
Encloses(b, v) ==
  /\ b > 0 => Buckets[b - 1] < v
  /\ v <= Buckets[b]
=============================================================================
