--------------------------- MODULE MCNbHistogram ---------------------------
(***************************************************************************)
(* Small tables for TLC. SmallTable starts as the table of the source does *)
(* and jumps to INFINITY; FullRanks has one limit for each of the 155      *)
(* limits of the source, the even numbers, so that a value can fall on     *)
(* every limit, between any two of them, and above the last finite one.    *)
(***************************************************************************)
EXTENDS NbHistogram

SmallTable == <<1, 2, 3, 5, 8, 20>>
SmallBuckets == [b \in 0 .. 5 |-> SmallTable[b + 1]]
SmallValues == {0, 1, 2, 4, 9}

FullRanks == [b \in 0 .. 154 |-> 2 * b + 2]
FullValues == 0 .. 309
=============================================================================
