--------------------------- MODULE MCNbDriverApi ---------------------------
(***************************************************************************)
(* Two keys are enough for a key that is stored and one that is not, for a *)
(* value of some bytes and an empty one.                                   *)
(***************************************************************************)
EXTENDS NbDriverApi

TwoKeys == {0, 1}
OneBareKey == {1}
=============================================================================
