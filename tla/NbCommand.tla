----------------------------- MODULE NbCommand -----------------------------
(***************************************************************************)
(* One command of mininb, with any command line and any result of its      *)
(* action.                                                                 *)
(***************************************************************************)
EXTENDS NbMain

CONSTANT Lines  \* the command lines to check

ASSUME LinesAssumption ==
  \A l \in Lines : l \in Seq([opt : Lengths \cup Names \cup {"a", "?", "-"}, text : STRING])
                   /\ ItemsOk(l)

Init == line \in Lines /\ MainInit

\* What the functions return that the actions call.
Results == IF action = "shuffle" THEN {0, -1, -2, -3} ELSE {0, 1, 2}

\* A shuffle divides by the key length and, in its loop, by the count.
DivideByZero ==
  /\ action = "shuffle" /\ 0 \in {opts["k"], opts["c"]}
  /\ Die(Sigfpe)

Next ==
  \/ Parse
  \/ \E r \in Results : Return(r)
  \/ DivideByZero
  \/ Die(Sigkill)

Spec == Init /\ [][Next]_mainVars

-----------------------------------------------------------------------------
TypeOK == MainTypeOK

\* The places of an option on the line, and the last of them.
Given(c) == {n \in DOMAIN line : line[n].opt = c}
Last(c, n) == n \in Given(c) /\ \A m \in Given(c) : m <= n

\* Every option is known, and so is the last action that is named.
Clear ==
  /\ Given("?") = {}
  /\ \A n \in DOMAIN line : Last("a", n) => line[n].text \in Actions

\* A command runs the action that the last -a names, or a get if none does,
\* with each option as it was given last; a line with an option that is not
\* known, or whose last action is not, runs nothing, whatever comes before.
RunsAsAsked ==
  mainPc # "parsing" =>
    IF Clear
    THEN /\ Given("a") = {} => action = "get"
         /\ \A n \in DOMAIN line : Last("a", n) => action = line[n].text
         /\ \A c \in DOMAIN Defaults :
              /\ Given(c) = {} => opts[c] = Defaults[c]
              /\ \A n \in DOMAIN line : Last(c, n) => opts[c] = Value(line[n])
         /\ exit = 255 => action = "shuffle"
    ELSE mainPc = "exited" /\ exit = 255
=============================================================================
