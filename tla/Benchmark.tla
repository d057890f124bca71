----------------------------- MODULE Benchmark -----------------------------
(***************************************************************************)
(* What nb_engine_run promises, without its resources and without the      *)
(* calls of a driver: a put adds keys of the file to the database, a get   *)
(* changes nothing, and each says truly whether the database has the keys  *)
(* it was asked for, unless the library failed or the driver takes the     *)
(* size of a value for the answer. NbEngine is shown to implement this     *)
(* specification.                                                          *)
(***************************************************************************)
CONSTANT Bare  \* the keys whose value is empty

VARIABLES
  bench,     \* "get" or "put"
  wanted,    \* the keys that the count asks for, as far as the file has them
  enough,    \* the file has them all
  database,  \* the keys in the files of the database
  fault,     \* the library failed, whether the driver told or not
  blind,     \* the select finds every key, there or not, but one with no value
  status     \* of the run; it "missed" when a get was refused a key

benchVars == <<bench, wanted, enough, database, fault, blind, status>>

Init ==
  /\ bench \in {"get", "put"}
  /\ enough \in BOOLEAN
  /\ fault = FALSE
  /\ blind \in BOOLEAN
  /\ status = "running"

Refused ==
  IF bench = "get" /\ blind THEN wanted \cap database \cap Bare ELSE wanted \ database

\* In any number of steps and in any order. A run that fails may return with
\* the database open, and the library goes on until the process ends.
Save ==
  /\ status # "success" /\ bench = "put"
  /\ \E keys \in SUBSET wanted : database' = database \cup keys
  /\ UNCHANGED <<bench, wanted, enough, fault, blind, status>>

Fault ==
  /\ status = "running" /\ fault' = TRUE
  /\ UNCHANGED <<bench, wanted, enough, database, blind, status>>

Succeed ==
  /\ status = "running" /\ status' = "success"
  /\ enough
  /\ fault \/ Refused = {}
  /\ UNCHANGED <<bench, wanted, enough, database, fault, blind>>

\* A get that is refused a key says so.
Miss ==
  /\ status = "running" /\ bench = "get" /\ status' = "missed"
  /\ fault \/ Refused # {}
  /\ UNCHANGED <<bench, wanted, enough, database, fault, blind>>

\* For any other reason, from a file that cannot be opened to a kill.
Fail ==
  /\ status = "running" /\ status' = "failure"
  /\ UNCHANGED <<bench, wanted, enough, database, fault, blind>>

Next == Save \/ Fault \/ Succeed \/ Miss \/ Fail

Spec == Init /\ [][Next]_benchVars
=============================================================================
