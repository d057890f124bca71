---------------------------- MODULE MCNbCommand ----------------------------
(***************************************************************************)
(* Lines of up to three items: a known and an unknown action, a shuffle,   *)
(* numbers that are zero, negative, and no numbers, a name, a word that is *)
(* no option, and an option that is unknown.                               *)
(***************************************************************************)
EXTENDS NbCommand

Texts == {"0", "7", "-1", "many"}
FewAtol == [t \in Texts |-> CASE t = "7" -> 7 [] t = "-1" -> -1 [] OTHER -> 0]

FewItems ==
  {Item("a", "put"), Item("a", "shuffle"), Item("a", "gte"),
   Item("c", "7"), Item("c", "-1"), Item("c", "many"), Item("k", "0"),
   Item("d", "nessdb"), Item("-", "put"), Item("?", "x")}

FewLines == UNION {[1 .. n -> FewItems] : n \in 0 .. 3}
=============================================================================
