---------------------------- MODULE MCNbWorkflow ----------------------------
(***************************************************************************)
(* Two directories over a file of three whole keys, for two drivers each:  *)
(* a count that leaves a key alone, and one of a single key, which a       *)
(* shuffle does not move. The driver that comes second finds every key.    *)
(***************************************************************************)
EXTENDS NbWorkflow

\* A file as it was generated, and one that has lost a key.
FewFiles == {[b \in 0 .. 2 |-> b], [b \in 0 .. 2 |-> IF b = 1 THEN 0 ELSE b]}

TwoCounts == <<2, 1>>
TwoDrivers == <<"tokukv", "kyotocabinet">>
FewAtol == [t \in {"1", "2"} |-> IF t = "1" THEN 1 ELSE 2]
FewTexts == <<"1", "2">>
=============================================================================
