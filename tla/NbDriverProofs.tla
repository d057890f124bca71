--------------------------- MODULE NbDriverProofs ---------------------------
(***************************************************************************)
(* The use of a driver that nb_plugin_api.h allows, for every set of keys  *)
(* and of drivers.                                                         *)
(***************************************************************************)
EXTENDS NbDriverApi, NbDriverSteps

(* What the library holds while the database is open, and what is in its   *)
(* files while it is closed, are the keys that were acknowledged.          *)
Agreed == errs = {} => (IF DbOpen THEN stored ELSE saved) = acked

DataTyped ==
  /\ key \in Keys \cup {-1}
  /\ stored \subseteq Keys /\ saved \subseteq Keys /\ acked \subseteq Keys
  /\ errs \subseteq Operations \cup {"close"}
  /\ driverPc \in Operations => key \in Keys

\* A client that asks for a value has none, and its driver can give one.
ValuesInv == driverPc = "fetch" => "value" \notin res /\ ~Blind

Inv == DriverInv /\ DataTyped /\ Agreed /\ ValuesInv

LEMMA HidesNotFound ==
  ASSUME NEW d \in DriverNames, NEW call \in {"select", "fetch"}
  PROVE  <<call, "notfound">> \in DbIf[d].hides <=> d = "kyotocabinet" /\ call = "select"
  BY DEF DriverNames, DbIf, Leveldb, Cascadedb, Nessdb, Kyotocabinet, Berkeleydb, Tokukv,
    Driver, HidesErrors

LEMMA HidesReplaceError ==
  ASSUME NEW d \in DriverNames, d \notin {"berkeleydb", "tokukv"}
  PROVE  <<"replace", "error">> \notin DbIf[d].hides
  BY DEF DriverNames, DbIf, Leveldb, Cascadedb, Nessdb, Kyotocabinet, Driver

LEMMA InitInv == Init => Inv
<1>. SUFFICES ASSUME Init PROVE Inv
  OBVIOUS
<1>1. DriverInv
  BY ApiAssumption, DriverInvInit DEF Init
<1>2. DataTyped /\ Agreed /\ ValuesInv
  BY DEF Init, DriverInit, DataTyped, Agreed, ValuesInv, Blind, Operations, DbOpen
<1>. QED  BY <1>1, <1>2 DEF Inv

(* The caller's actions.                                                   *)
LEMMA CallKeeps ==
  ASSUME Inv, Open \/ Use \/ Ask \/ Free \/ Close
  PROVE  Inv'
<1>. USE DEF Inv
<1>1. CASE Open
  <2>1. DriverInv' /\ ~DbOpen'
    BY <1>1, OpenBegins DEF Open
  <2>. QED
    BY <1>1, <2>1 DEF Open, CallOpen, DataTyped, Agreed, ValuesInv, Blind, Operations
<1>2. CASE Close
  <2>1. DriverInv' /\ DbOpen'
    BY <1>2, CloseBegins DEF Close
  <2>. QED
    BY <1>2, <2>1 DEF Close, CallClose, DataTyped, Agreed, ValuesInv, Blind, Operations
<1>3. ASSUME NEW call \in Operations, NEW k \in Keys, CallOn(call, k),
             DriverReturned, DbOpen, call = "fetch" => "value" \notin res /\ ~Blind
      PROVE  Inv'
  <2>1. DriverInv' /\ DbOpen'
    BY <1>3, OperationBegins
  <2>. QED  BY <1>3, <2>1 DEF CallOn, DataTyped, Agreed, ValuesInv, Blind
<1>4. CASE Use
  BY <1>3, <1>4 DEF Use, CallReplace, CallSelect, CallRemove, Operations
<1>5. CASE Ask
  BY <1>3, <1>5 DEF Ask, CallFetch, Operations, Blind
<1>6. CASE Free
  <2>1. res' = res \ {"value"} /\ res' \cap Handles = res \cap Handles /\ res' \subseteq Resources
    BY <1>6 DEF Free, Valfree, DriverInv, Handles, DbHandles
  <2>2. DriverInv' /\ DbOpen' = DbOpen
    BY <1>6, <2>1, UnchangedKeeps DEF Free, Valfree
  <2>. QED  BY <1>6, <2>1, <2>2 DEF Free, Valfree, DataTyped, Agreed, ValuesInv, Blind
<1>. QED  BY <1>1, <1>2, <1>4, <1>5, <1>6

(* An operation of the library.                                            *)
LEMMA OperateKeeps ==
  ASSUME Inv, NEW call \in Operations, NEW r \in LibraryResults(call), Operate(call, r)
  PROVE  Inv'
<1>1. /\ DriverInv' /\ DbOpen /\ DbOpen' /\ driverPc = call /\ driverPc' = "idle"
      /\ UNCHANGED <<driver, key, saved>>
  BY OneOperation DEF Inv
<1>2. key \in Keys /\ DataTyped
  BY <1>1 DEF Inv, DataTyped
<1>3. DataTyped'
  <2>1. stored' \subseteq Keys /\ acked' \subseteq Keys
    BY <1>2, AppliedFacts DEF DataTyped, Operate
  <2>2. errs' \subseteq Operations \cup {"close"}
    BY <1>2 DEF DataTyped, Operate
  <2>. QED  BY <1>1, <1>2, <2>1, <2>2 DEF DataTyped, Operations
<1>4. Agreed'
  <2>. SUFFICES ASSUME errs' = {} PROVE stored' = acked'
    BY <1>1 DEF Agreed
  <2>1. errs = {} /\ r # "error" /\ stored = acked
    BY <1>1 DEF Operate, Inv, Agreed
  <2>2. CASE r = "ok"
    <3>1. driverRet' = 0
      BY <2>2, DeniesEmpty DEF Operate, Returns, Reports, Inv, DriverInv
    <3>. QED  BY <2>1, <2>2, <3>1 DEF Operate
  <2>3. CASE r = "notfound"
    <3>1. call # "replace" /\ key \notin stored
      BY <2>1, <2>3 DEF LibraryResults
    <3>. QED  BY <2>1, <2>3, <3>1, AppliedFacts DEF Operate
  <2>4. CASE r = "empty"
    <3>1. call = "select"
      BY <2>4 DEF LibraryResults
    <3>. QED  BY <2>1, <2>4, <3>1, AppliedFacts DEF Operate
  <2>. QED  BY <2>1, <2>2, <2>3, <2>4 DEF LibraryResults
<1>5. ValuesInv'
  BY <1>1 DEF ValuesInv
<1>. QED  BY <1>1, <1>3, <1>4, <1>5 DEF Inv

(* The other steps of a driver.                                            *)
LEMMA StepKeeps == ASSUME Inv, DriverStep  PROVE Inv'
<1>1. CASE CallSucceeds
  <2>1. /\ DriverInv' /\ ~DbOpen
        /\ DbOpen' => stored' = saved
        /\ UNCHANGED <<driver, key, saved, acked, errs>>
    BY <1>1, OneMoreCall DEF Inv
  <2>2. stored' \in {stored, saved} /\ driverPc = "open" /\ driverPc' \in {"open", "idle"}
    BY <1>1 DEF CallSucceeds, Returns
  <2>3. DataTyped'
    BY <2>1, <2>2 DEF Inv, DataTyped, Operations
  <2>4. Agreed' /\ ValuesInv'
    BY <2>1, <2>2 DEF Inv, Agreed, ValuesInv, Blind
  <2>. QED  BY <2>1, <2>3, <2>4 DEF Inv
<1>2. CASE CallFails
  <2>1. /\ DriverInv' /\ ~DbOpen /\ ~DbOpen'
        /\ UNCHANGED <<driver, key, stored, saved, acked, errs>>
    BY <1>2, OneCallFails DEF Inv
  <2>. QED
    BY <1>2, <2>1 DEF Inv, CallFails, DataTyped, Agreed, ValuesInv, Blind, Operations
<1>3. CASE Release
  <2>1. /\ DriverInv' /\ (ClosesDb \/ KeepsDb)
        /\ UNCHANGED <<driver, driverPc, driverRet, key, acked>>
    BY <1>3, OneRelease DEF Inv
  <2>2. res' \subseteq res /\ stored' \in {stored, {}}
    BY <1>3 DEF Release
  <2>3. DataTyped'
    BY <2>1, <2>2 DEF Inv, DataTyped, ClosesDb, KeepsDb
  <2>4. Agreed'
    BY <2>1 DEF Inv, Agreed, ClosesDb, KeepsDb
  <2>. QED  BY <2>1, <2>2, <2>3, <2>4 DEF Inv, ValuesInv, Blind
<1>4. CASE Released
  <2>1. /\ DriverInv' /\ ~DbOpen /\ ~DbOpen'
        /\ UNCHANGED <<driver, key, stored, saved, acked, errs>>
    BY <1>4, LastRelease DEF Inv
  <2>. QED
    BY <1>4, <2>1 DEF Inv, Released, DataTyped, Agreed, ValuesInv, Blind, Operations
<1>5. CASE Replace \/ Select \/ Fetch \/ Remove
  BY <1>5, OperateKeeps DEF Replace, Select, Fetch, Remove, Operations
<1>. QED  BY <1>1, <1>2, <1>3, <1>4, <1>5 DEF DriverStep

LEMMA KillKeeps == ASSUME Inv, Kill  PROVE Inv'
<1>1. WellOrdered(DbIf[driver].open, DbIf[driver].close)
  BY DriversOrdered DEF Inv, DriverInv
<1>2. DriverInv' /\ ~DbOpen'
  BY <1>1 DEF Kill, Inv, DriverInv, WellOrdered, Ladders, Operations, IdlePart, DbOpen,
    Held, Resources
<1>. QED  BY <1>2 DEF Kill, Inv, DataTyped, Agreed, ValuesInv, Blind, Operations

LEMMA FlushInv == ASSUME Inv, Flush  PROVE Inv'
<1>1. /\ DriverInv' /\ DbOpen /\ DbOpen'
      /\ UNCHANGED <<driver, driverPc, res, driverRet, key, stored, acked, errs>>
  BY FlushKeeps DEF Inv
<1>2. saved' \subseteq saved \cup stored
  BY DEF Flush
<1>. QED  BY <1>1, <1>2 DEF Inv, DataTyped, Agreed, ValuesInv, Blind

LEMMA NextInv == Inv /\ [Next]_driverVars => Inv'
<1>. SUFFICES ASSUME Inv, [Next]_driverVars PROVE Inv'
  OBVIOUS
<1>1. CASE UNCHANGED driverVars
  <2>1. DriverInv' /\ DbOpen' = DbOpen
    BY <1>1, UnchangedKeeps DEF Inv, DriverInv, driverVars
  <2>. QED  BY <1>1, <2>1 DEF Inv, DataTyped, Agreed, ValuesInv, Blind, driverVars
<1>. QED  BY <1>1, CallKeeps, KillKeeps, StepKeeps, FlushInv DEF Next

THEOREM Invariance == Spec => []Inv
  BY InitInv, NextInv, PTL DEF Spec

-----------------------------------------------------------------------------
\* Every variable of every driver has its type, whatever the client does.
THEOREM TypeCorrect == Spec => []TypeOK
<1>1. Inv => TypeOK
  BY LaddersTyped DEF Inv, DriverInv, DataTyped, TypeOK, DriverTypeOK, Operations
<1>. QED  BY <1>1, Invariance, PTL

\* No driver holds a database without its environment, on any path.
THEOREM EnvironmentOutlivesDatabase == Spec => []EnvOutlivesDb
<1>1. Inv => EnvOutlivesDb
  BY DEF Inv, DriverInv, EnvOutlivesDb
<1>. QED  BY <1>1, Invariance, PTL

\* No driver keeps a handle after an open that failed or after a close.
THEOREM HandlesReleased == Spec => []ClosedHoldsNoHandle
<1>1. Inv => ClosedHoldsNoHandle
  BY DEF Inv, DriverInv, IdlePart, Held, DriverReturned, ClosedHoldsNoHandle
<1>. QED  BY <1>1, Invariance, PTL

\* What was acknowledged is in the files after a close, and nothing else, as
\* long as the library reported no error.
THEOREM AcknowledgedSaved == Spec => []CloseSaves
<1>1. Inv => CloseSaves
  BY DEF Inv, Agreed, CloseSaves
<1>. QED  BY <1>1, Invariance, PTL

(* An operation ends in a step of the driver, or the process is killed.     *)
LEMMA DriverMoves ==
  ASSUME Next, driverPc \in Operations, driverPc' = "idle", DbOpen'
  PROVE  DriverStep
<1>1. ~Kill
  BY DEF Kill, DbOpen
<1>2. ~Flush
  BY DEF Flush, Operations
<1>3. ~(Open \/ Use \/ Ask \/ Free \/ Close)
  BY DEF Open, Use, Ask, Free, Close, DriverReturned, Operations
<1>. QED  BY <1>1, <1>2, <1>3 DEF Next

\* A select answers from what was acknowledged.
THEOREM SelectsAgree == Spec => SelectAgrees
<1>1. ASSUME Inv, Next, SelectReturns  PROVE GivesWhatWasAcked
  <2>. DEFINE call == driverPc
  <2>0. call \in {"select", "fetch"}
    BY <1>1 DEF SelectReturns
  <2>1. PICK r \in LibraryResults(call) : Operate(call, r)
    BY <1>1, <2>0, DriverMoves, InOperation DEF SelectReturns, Operations
  <2>. HIDE DEF call
  <2>2. /\ DbOpen /\ key' = key /\ driverRet' = Reports(driver, call, r)
        /\ acked' = acked /\ res' = res \cup ValueLeft(call, r)
    <3>1. DbOpen /\ key' = key
      BY <1>1, <2>0, <2>1, OneOperation DEF Inv, Operations
    <3>. QED  BY <2>0, <2>1, <3>1, AppliedFacts DEF Operate, Returns, Operations
  <2>3. r # "error" /\ errs = {} /\ stored = acked
    BY <1>1, <2>1, <2>2 DEF Operate, SelectReturns, Inv, Agreed
  <2>4. /\ r \in {"ok", "empty"} <=> key \in acked
        /\ r = "empty" <=> call = "select" /\ key \in acked \cap Bare
        /\ r \in {"ok", "empty", "notfound"}
    BY <2>0, <2>1, <2>3 DEF LibraryResults
  <2>5. driverRet' = 0 <=> IF Blind THEN key \notin acked \cap Bare ELSE key \in acked
    <3>1. driver \in DriverNames /\ (Blind => call = "select")
      BY <1>1, <2>0 DEF Inv, DriverInv, ValuesInv, call
    <3>2. driverRet' = 0 <=>
            \/ r \in {"ok", "empty"} /\ ~(Blind /\ call = "select" /\ r = "empty")
            \/ r = "notfound" /\ Blind /\ call = "select"
      BY <2>0, <2>2, <2>4, <3>1, HidesNotFound, HidesEmpty, DeniesEmpty DEF Reports, Blind
    <3>. QED  BY <2>0, <2>4, <3>1, <3>2
  <2>6. call = "fetch" => ("value" \in res' <=> r = "ok")
    <3>. SUFFICES ASSUME call = "fetch" PROVE "value" \in res' <=> r = "ok"
      OBVIOUS
    <3>1. "value" \notin res
      BY <1>1 DEF Inv, ValuesInv, call
    <3>2. ValueLeft(call, r) = IF r = "ok" THEN {"value"} ELSE {}
      BY DEF ValueLeft
    <3>. QED  BY <2>2, <3>1, <3>2
  <2>7. call = "fetch" => (driverRet' = 0 <=> "value" \in res')
    <3>1. call = "fetch" => ~Blind /\ (r = "ok" <=> key \in acked)
      BY <1>1, <2>4 DEF Inv, ValuesInv, call
    <3>. QED  BY <2>5, <2>6, <3>1
  <2>. QED  BY <2>5, <2>7 DEF GivesWhatWasAcked, call
<1>2. Inv /\ [Next]_driverVars => [SelectReturns => GivesWhatWasAcked]_driverVars
  BY <1>1
<1>. QED  BY <1>2, Invariance, PTL DEF Spec, SelectAgrees

\* A replace of a driver outside of the DB interface stores what it says.
THEOREM CheckedReplacesStore == Spec => CheckedReplaceStores
<1>1. ASSUME Inv, Next, driver \notin {"berkeleydb", "tokukv"}, SaysDone("replace")
      PROVE  Holds
  <2>1. PICK r \in LibraryResults("replace") : Operate("replace", r)
    BY <1>1, DriverMoves, InOperation DEF SaysDone, Operations
  <2>2. driverRet' = Reports(driver, "replace", r) /\ driverRet' = 0
    BY <1>1, <2>1 DEF Operate, Returns, SaysDone
  <2>3. r = "ok"
    BY <1>1, <2>1, <2>2, HidesReplaceError DEF Reports, LibraryResults, Inv, DriverInv
  <2>. QED  BY <2>1, <2>3, AppliedFacts DEF Operate, Operations, Holds
<1>2. Inv /\ [Next]_driverVars =>
        [driver \notin {"berkeleydb", "tokukv"} /\ SaysDone("replace") => Holds]_driverVars
  BY <1>1
<1>. QED  BY <1>2, Invariance, PTL DEF Spec, CheckedReplaceStores
=============================================================================
