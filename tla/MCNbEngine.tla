----------------------------- MODULE MCNbEngine -----------------------------
(***************************************************************************)
(* A file with no key, with two keys to the byte, and with a byte more;    *)
(* counts of none to two operations and, as atol makes of -1, the largest; *)
(* a report for every operation and for every second one; the empty key    *)
(* and the largest key length; a database that is empty, holds the first   *)
(* key, or all; the value of the second key is empty.                      *)
(***************************************************************************)
EXTENDS NbEngine

AllBenches == {"get", "put"}
Puts == {"put"}
FewSizes == {0, 4, 5}
FewKeyLens == {0, 2, Word - 1}
FewCounts == {0, 1, 2, Word - 1}
FewIntervals == {0, 2}
FewDatabases == {{}, {0}, {0, 2}}
OneBareKey == {2}
NoKeys == {{}}
OnlyLeveldb == {"leveldb"}
=============================================================================
