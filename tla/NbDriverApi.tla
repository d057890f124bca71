---------------------------- MODULE NbDriverApi ----------------------------
(***************************************************************************)
(* Any use of a driver that nb_plugin_api.h allows: open, then replace,    *)
(* select and remove in any order, close, and open again. A client that    *)
(* was given a value frees it before it asks for another. The process may  *)
(* be killed at any step; what the library wrote to its files survives.    *)
(***************************************************************************)
EXTENDS NbDriver

CONSTANTS
  Drivers,  \* the drivers to check
  Keys      \* the keys a client uses

ASSUME ApiAssumption ==
  Drivers \subseteq DriverNames /\ Keys \subseteq Nat /\ Bare \subseteq Nat

Init == driver \in Drivers /\ DriverInit /\ saved = {}

Open == DriverReturned /\ ~DbOpen /\ CallOpen

Use == DriverReturned /\ DbOpen /\ \E k \in Keys :
         CallReplace(k) \/ CallSelect(k) \/ CallRemove(k)

\* The driver of kyotocabinet asserts that it is asked for no value.
Ask ==
  /\ DriverReturned /\ DbOpen
  /\ driver # "kyotocabinet" /\ "value" \notin res
  /\ \E k \in Keys : CallFetch(k)

Free == DriverReturned /\ "value" \in res /\ Valfree

Close == DriverReturned /\ DbOpen /\ CallClose

Kill ==
  /\ driverPc' = "idle" /\ step' = 0 /\ todo' = <<>> /\ res' = {}
  /\ stored' = {}
  /\ acked' = saved
  /\ UNCHANGED <<driver, driverRet, key, saved, errs>>

Next == Open \/ Use \/ Ask \/ Free \/ Close \/ Kill \/ DriverStep \/ Flush

Spec == Init /\ [][Next]_driverVars

-----------------------------------------------------------------------------
\* Every variable has its type.
TypeOK == DriverTypeOK(Keys)

\* A database handle is never used without the environment it lives in, on
\* the error paths of an open as well as in a close.
EnvOutlivesDb == "db" \in res => "env" \in res

\* After an open that failed, at whichever call, and after a close, no
\* handle of the library is left; memory of the driver may be.
ClosedHoldsNoHandle ==
  DriverReturned /\ ~DbOpen => res \cap Handles = {}

\* After a close, the files hold exactly the keys whose replace reported
\* success and that were not removed, if the library reported no error.
CloseSaves == DriverReturned /\ ~DbOpen /\ errs = {} => saved = acked

SelectReturns ==
  driverPc \in {"select", "fetch"} /\ driverPc' = "idle" /\ DbOpen' /\ errs' = {}

GivesWhatWasAcked ==
  /\ driverRet' = 0 <=> IF Blind THEN key \notin acked \cap Bare ELSE key \in acked
  /\ driverPc = "fetch" => (driverRet' = 0 <=> "value" \in res')

\* A select reports success exactly for the keys a replace was acknowledged
\* for, in this run or in an earlier one, whatever the length of the value, if
\* the library reported no error; if it was asked for a value, it gives one
\* exactly then. Only kyotocabinet answers something else: it reports failure
\* exactly for an acknowledged key whose value is empty.
SelectAgrees == [][SelectReturns => GivesWhatWasAcked]_driverVars

SaysDone(call) == driverPc = call /\ driverPc' = "idle" /\ DbOpen' /\ driverRet' = 0
Holds == key \in stored'

\* A replace that reports success has stored its key, whatever the library
\* reports, with the drivers outside of the DB interface.
CheckedReplaceStores ==
  [][driver \notin {"berkeleydb", "tokukv"} /\ SaysDone("replace") => Holds]_driverVars

\* README.md says that a PUT saves keys into the database, and that a GET reads
\* keys from it: after a replace or a select that reports success, whichever
\* the driver, the library holds the key.
SuccessIsTrue ==
  [][SaysDone("replace") \/ SaysDone("select") => Holds]_driverVars
=============================================================================
