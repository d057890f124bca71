---------------------------- MODULE MCNbShuffle ----------------------------
(***************************************************************************)
(* Files of no byte to five blocks, with and without a part of a block at  *)
(* the end; zero arguments; counts below, at and above the blocks. RandMax *)
(* is the number of pairs of three blocks, not of more.                    *)
(***************************************************************************)
EXTENDS NbShuffle

FewSizes == {0, 1, 5, 10}
FewBlockSizes == {0, 2}
FewCounts == {0, 1, 3, 6}
=============================================================================
