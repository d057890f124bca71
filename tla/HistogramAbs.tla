---------------------------- MODULE HistogramAbs ----------------------------
(***************************************************************************)
(* What a histogram of nb_histogram.c promises, without saying how a       *)
(* bucket is searched: a sample is counted, in one step, in the one bucket *)
(* whose limits enclose it, and the extremes are those of the samples.     *)
(* NbHistogram is shown to implement this specification.                   *)
(***************************************************************************)
EXTENDS HistogramTable

VARIABLES
  counts,   \* how many samples each bucket holds
  lowest,   \* the smallest sample, Infinity while there is none
  highest   \* the largest sample, 0 while there is none

absVars == <<counts, lowest, highest>>

Init ==
  /\ counts = [b \in Bucket |-> 0]
  /\ lowest = Infinity
  /\ highest = 0

Add(v) ==
  /\ \E b \in Bucket : /\ Encloses(b, v)
                       /\ counts' = [counts EXCEPT ![b] = @ + 1]
  /\ lowest' = IF v < lowest THEN v ELSE lowest
  /\ highest' = IF v > highest THEN v ELSE highest

Clear ==
  /\ counts' = [b \in Bucket |-> 0]
  /\ lowest' = Infinity
  /\ highest' = 0

Next == Clear \/ \E v \in Values : Add(v)

Spec == Init /\ [][Next]_absVars
=============================================================================
