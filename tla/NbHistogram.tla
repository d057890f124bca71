---------------------------- MODULE NbHistogram ----------------------------
(***************************************************************************)
(* The latency histogram, nb_histogram.c. nb_histogram_add looks a bucket  *)
(* up by bisection: one iteration of its while loop is one step, and the   *)
(* final linear scan with the update of the statistics is another.         *)
(* nb_histogram_clear is also the second half of nb_histogram_new.         *)
(***************************************************************************)
EXTENDS HistogramTable, Sequences, FiniteSets

CONSTANT MaxSamples  \* bound: samples between two calls of Clear

ASSUME MaxSamplesAssumption == MaxSamples \in Nat

VARIABLES
  hist,     \* struct nb_histogram; power is constant and folded in Values
  pc,       \* "idle" or, inside nb_histogram_add, "search"
  val,      \* its argument, scaled
  begin,    \* its locals; they are reset when the call returns
  end,
  samples   \* history: the samples added since the last clear

locals == <<pc, val, begin, end>>
vars == <<hist, locals, samples>>

\* Mutant: the memset alone, which leaves min zero.
ZeroedHist ==
  [min |-> 0, max |-> 0, sum |-> 0, sumsq |-> 0, size |-> 0,
   buckets |-> [b \in Bucket |-> 0]]

EmptyHist ==
  [min |-> Infinity, max |-> 0, sum |-> 0, sumsq |-> 0, size |-> 0,
   buckets |-> [b \in Bucket |-> 0]]

Idle == pc = "idle" /\ val = 0 /\ begin = 0 /\ end = 0

Init ==
  /\ hist = EmptyHist
  /\ Idle
  /\ samples = <<>>

-----------------------------------------------------------------------------
(* nb_histogram_add                                                        *)

\* Mutant: the interval begins one past the last bucket.
AddCallPastEnd(v) ==
  /\ pc = "idle"
  /\ Len(samples) < MaxSamples
  /\ pc' = "search"
  /\ val' = v
  /\ begin' = 0
  /\ end' = BucketsCount
  /\ UNCHANGED <<hist, samples>>

AddCall(v) ==
  /\ pc = "idle"
  /\ Len(samples) < MaxSamples
  /\ pc' = "search"
  /\ val' = v
  /\ begin' = 0
  /\ end' = BucketsCount - 1
  /\ UNCHANGED <<hist, samples>>

\* Mutant: rounded up.
MidAbove == begin \div 2 + end \div 2 + 1

\* Both halves are rounded down before they are added.
Mid == begin \div 2 + end \div 2

\* Mutant: the limit of a bucket is taken for its own.
AtOrAbove(m) == Buckets[m - 1] <= val

\* NB_HISTOGRAM_BUCKETS[m-1] < val
Above(m) == Buckets[m - 1] < val

NarrowUp ==
  /\ pc = "search"
  /\ Mid # begin
  /\ Above(Mid)
  /\ begin' = Mid
  /\ UNCHANGED <<hist, pc, val, end, samples>>

\* Mutant: the bisection of a sorted array, which excludes the probe.
NarrowBelow ==
  /\ pc = "search"
  /\ Mid # begin
  /\ ~Above(Mid)
  /\ end' = Mid - 1
  /\ UNCHANGED <<hist, pc, val, begin, samples>>

NarrowDown ==
  /\ pc = "search"
  /\ Mid # begin
  /\ ~Above(Mid)
  /\ end' = Mid
  /\ UNCHANGED <<hist, pc, val, begin, samples>>

\* The scan runs from end down to begin and stops at the first bucket whose
\* lower limit the value exceeds, or at begin.
ScanStopsAt(m) ==
  /\ m \in begin .. end
  /\ m > begin => Above(m)
  /\ \A k \in (m + 1) .. end : ~Above(k)

Record ==
  /\ pc = "search"
  /\ Mid = begin
  /\ \E m \in Bucket :
       /\ ScanStopsAt(m)
       /\ hist' = [min     |-> IF hist.min > val THEN val ELSE hist.min,
                   max     |-> IF hist.max < val THEN val ELSE hist.max,
                   sum     |-> hist.sum + val,
                   sumsq   |-> hist.sumsq + val * val,
                   size    |-> hist.size + 1,
                   buckets |-> [hist.buckets EXCEPT ![m] = @ + 1]]
  /\ samples' = Append(samples, val)
  /\ pc' = "idle" /\ val' = 0 /\ begin' = 0 /\ end' = 0

(* nb_histogram_clear                                                      *)

\* Mutant: the buckets keep their counts.
ClearStatistics ==
  /\ pc = "idle"
  /\ hist' = [EmptyHist EXCEPT !.buckets = hist.buckets]
  /\ samples' = <<>>
  /\ UNCHANGED locals

Clear ==
  /\ pc = "idle"
  /\ hist' = EmptyHist
  /\ samples' = <<>>
  /\ UNCHANGED locals

-----------------------------------------------------------------------------
Search == NarrowUp \/ NarrowDown \/ Record

Next == Clear \/ Search \/ \E v \in Values : AddCall(v)

\* The caller may stop adding samples; a call that began runs on, because
\* the loop waits for nothing.
Spec == Init /\ [][Next]_vars /\ WF_vars(Search)

-----------------------------------------------------------------------------
HistType ==
  [min : Nat, max : Nat, sum : Nat, sumsq : Nat, size : Nat,
   buckets : [Bucket -> Nat]]

\* Every variable has its type.
TypeOK ==
  /\ hist \in HistType
  /\ pc \in {"idle", "search"}
  /\ val \in Values \cup {0}
  /\ begin \in Bucket
  /\ end \in Bucket
  /\ samples \in Seq(Values)

\* The bisection never loses the bucket it looks for, and the table is never
\* read outside of its bounds (the index of a probe is Mid - 1): the value
\* stays above the limit below "begin" and not above the limit of "end",
\* whatever the rounding of Mid does.
SearchBrackets ==
  pc = "search" =>
    /\ begin < end \/ BucketsCount = 1
    /\ begin > 0 => Buckets[begin - 1] < val
    /\ end < BucketsCount - 1 => val <= Buckets[end - 1]
    /\ Mid \in begin .. end
    /\ Mid # begin => Mid - 1 \in Bucket

\* The samples that belong to bucket b.
Within(b) == {i \in 1 .. Len(samples) : Encloses(b, samples[i])}

\* The counts are exactly those of the samples added since the last clear,
\* each in the bucket that encloses it, whichever path the bisection took.
BucketsCountSamples ==
  /\ hist.size = Len(samples)
  /\ \A b \in Bucket : hist.buckets[b] = Cardinality(Within(b))

\* min and max, which clamp the percentiles, are attained by a sample and
\* bound all of them, and the average that is printed, sum / size; with no
\* sample they are INFINITY and 0.
ExtremesOfSamples ==
  LET added == {samples[i] : i \in 1 .. Len(samples)} IN
  /\ \A v \in added : hist.min <= v /\ v <= hist.max
  /\ IF added = {} THEN hist.min = Infinity /\ hist.max = 0
                   ELSE hist.min \in added /\ hist.max \in added
  /\ hist.size * hist.min <= hist.sum /\ hist.sum <= hist.size * hist.max

\* One iteration of the loop keeps a non-empty part of the interval and
\* drops at least one bucket, so no call loops forever.
IterationShrinks ==
  pc = "search" /\ pc' = "search" =>
    /\ begin' <= end'
    /\ end' - begin' < end - begin

SearchShrinks == [][IterationShrinks]_vars

\* A call of nb_histogram_add returns.
AddReturns == pc = "search" ~> pc = "idle"

\* The code implements the histogram that counts a sample in one step.
Abs == INSTANCE HistogramAbs WITH
         counts <- hist.buckets, lowest <- hist.min, highest <- hist.max

ImplementsHistogram == Abs!Spec
=============================================================================
