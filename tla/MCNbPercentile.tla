--------------------------- MODULE MCNbPercentile ---------------------------
(***************************************************************************)
(* Six limits that begin as the table of the source does; the last stands  *)
(* for INFINITY. Samples on the limits, between them and in the infinite   *)
(* bucket. CoarsePercentiles reaches every sample of five; RunPercentiles  *)
(* holds three of those nb_engine_run asks for.                            *)
(***************************************************************************)
EXTENDS NbPercentile

SmallTable == <<1, 2, 3, 5, 8, 20>>
SmallBuckets == [b \in 0 .. 5 |-> SmallTable[b + 1]]
SmallValues == {0, 2, 4, 5, 9}

CoarsePercentiles ==
  <<<<1, 10>>, <<1, 4>>, <<1, 2>>, <<3, 5>>, <<17, 20>>, <<9999, 10000>>>>
RunPercentiles == <<<<5, 100>>, <<50, 100>>, <<9999, 10000>>>>
=============================================================================
