---------------------------- MODULE NbEngineKeys ----------------------------
(***************************************************************************)
(* Proofs about what nb_engine_run says of the keys: a put that reports    *)
(* success has saved them, a get that does has found them, a failure has   *)
(* its reason, no run takes more than a given number of steps, and the     *)
(* benchmark implements Benchmark.tla, for every driver, file, database,   *)
(* count and key length. To EInv, which knows the resources and the        *)
(* cursor, KInv adds which keys the loop has put or got so far, and where  *)
(* a database that is open keeps them.                                     *)
(***************************************************************************)
EXTENDS NbEngineProofs

-----------------------------------------------------------------------------
(* The invariant                                                           *)

Ending == {"close", "delete_hist", "free_bufs", "unload"}
ErrorLabels == {"error_1", "error_2", "error_3", "error_4", "error_5", "error_6"}

\* What never changes while a run lasts.
Fixed == <<bench, count, klen, interval, size, file, driver>>

ArgsInv ==
  /\ bench \in {"get", "put"} /\ count \in Nat
  /\ file = [o \in 0 .. size |-> o]

\* The loop does not pass the count, and ends at it with the file not used up.
LoopInv ==
  /\ pc = "loop" => kk <= count
  /\ pc = "called" => kk < count
  /\ pc \in Ending \/ (pc = "done" /\ rc = 0) => kk = count /\ LongEnough

\* The result of the driver that a run ends with: zero unless an operation
\* failed.
RetInv ==
  /\ pc \in {"keybuf", "valbuf", "random", "hist", "loop"} => driverRet = 0
  /\ pc = "error_1" /\ rc = 1 => "hist" \notin heap

KeysTyped ==
  /\ key \in Nat \cup {-1}
  /\ stored \subseteq Nat /\ saved \subseteq Nat /\ acked \subseteq Nat
  /\ errs \subseteq Operations \cup {"close"}

\* The operation in progress is that of the benchmark, on the key that was read.
CallInv ==
  pc = "called" /\ driverPc # "idle" =>
    /\ driverPc = (IF bench = "put" THEN "replace" ELSE "select")
    /\ key = file[kk * klen]

\* The operations that returned zero, and their keys.
Answered == pc = "called" /\ driverPc = "idle" /\ driverRet = 0
Done == IF Answered THEN kk + 1 ELSE kk
DoneKeys == FirstKeys(Done)

\* Where the database keeps its keys now.
Seen == IF DbOpen THEN stored ELSE saved

PutInv ==
  /\ acked = DoneKeys
  /\ "close" \in errs \/ (Unchecked /\ "replace" \in errs) \/ acked \subseteq Seen
  /\ DbOpen => saved \subseteq stored /\ stored \subseteq saved \cup Wanted

GetInv ==
  /\ DbOpen => stored = saved
  /\ ((Unchecked \/ Blind) /\ "select" \in errs) \/ RefusedOf(DoneKeys) = {}

Refused == bench = "get" /\ RefusedOf({file[kk * klen]}) # {}

ReasonInv ==
  /\ pc = "called" /\ driverPc = "idle" /\ driverRet # 0 => errs # {} \/ Refused
  /\ pc \in ErrorLabels /\ "hist" \in heap => errs # {}
  /\ FailureHasReason

KInv ==
  /\ ArgsInv /\ LoopInv /\ RetInv /\ KeysTyped /\ CallInv
  /\ bench = "put" => PutInv
  /\ bench = "get" => GetInv
  /\ ReasonInv

-----------------------------------------------------------------------------
(* The keys of the file                                                    *)

LEMMA Monotone ==
  ASSUME NEW a \in Nat, NEW b \in Nat, NEW k \in Nat, a <= b
  PROVE  a * k <= b * k
<1>1. (b - a) * k \in Nat /\ b - a \in Nat
  OBVIOUS
<1>2. b * k = a * k + (b - a) * k
  OBVIOUS
<1>. QED  BY <1>1, <1>2

LEMMA NoKeyYet == FirstKeys(0) = {}
  BY DEF FirstKeys

LEMMA OneMoreKey ==
  ASSUME NEW m \in Nat
  PROVE  FirstKeys(m + 1) = FirstKeys(m) \cup {file[m * klen]}
<1>1. 0 .. (m + 1) - 1 = (0 .. m - 1) \cup {m}
  OBVIOUS
<1>. QED  BY <1>1 DEF FirstKeys

\* The key of the operation in progress is one that the count asks for.
LEMMA KeyWanted ==
  ASSUME EInv, KInv, pc = "called"
  PROVE  /\ file[kk * klen] \in Wanted /\ file[kk * klen] \in Nat
         /\ file[kk * klen] \in FirstKeys(count)
<1>1. /\ kk \in Nat /\ klen \in Nat /\ size \in Nat /\ count \in Nat
      /\ kk < count /\ (kk + 1) * klen < size /\ file = [o \in 0 .. size |-> o]
  BY DEF EInv, CInv, CTypes, Cursor, KInv, LoopInv, ArgsInv
<1>2. kk * klen <= (kk + 1) * klen
  BY <1>1, Monotone
<1>3. kk * klen \in Nat /\ (kk + 1) * klen \in Nat
  BY <1>1
<1>4. kk * klen \in 0 .. size /\ kk \in 0 .. count - 1
  BY <1>1, <1>2, <1>3
<1>. DEFINE o == kk * klen
<1>5. o \in DOMAIN file /\ file[o] = o
  BY <1>1, <1>4
<1>6. kk \in {m \in 0 .. count - 1 : (m + 1) * klen < size}
  BY <1>1, <1>4
<1>7. file[o] \in FirstKeys(count)
  BY <1>4 DEF FirstKeys
<1>8. file[o] \in Nat
  BY <1>3, <1>5
<1>. HIDE DEF o
<1>9. file[kk * klen] \in Wanted
  BY <1>6 DEF Wanted
<1>. QED  BY <1>7, <1>8, <1>9 DEF o

-----------------------------------------------------------------------------
(* What the drivers hide                                                   *)

LEMMA HidesReplaceError ==
  ASSUME NEW d \in DriverNames, <<"replace", "error">> \in DbIf[d].hides
  PROVE  d \in {"berkeleydb", "tokukv"}
  BY DEF DriverNames, DbIf, Leveldb, Cascadedb, Nessdb, Kyotocabinet, Driver

LEMMA HidesSelect ==
  ASSUME NEW d \in DriverNames, NEW r, <<"select", r>> \in DbIf[d].hides
  PROVE  \/ r = "error" /\ d \in {"berkeleydb", "tokukv", "kyotocabinet"}
         \/ r = "notfound" /\ d = "kyotocabinet"
  BY DEF DriverNames, DbIf, Leveldb, Cascadedb, Nessdb, Kyotocabinet, Berkeleydb, Tokukv,
    Driver, HidesErrors

LEMMA HidesNotFoundSelect ==
  ASSUME NEW d \in DriverNames
  PROVE  <<"select", "notfound">> \in DbIf[d].hides <=> d = "kyotocabinet"
  BY DEF DriverNames, DbIf, Leveldb, Cascadedb, Nessdb, Kyotocabinet, Berkeleydb, Tokukv,
    Driver, HidesErrors

-----------------------------------------------------------------------------
(* What a step keeps                                                       *)

LEMMA NextFixed == ASSUME Next \/ UNCHANGED vars  PROVE UNCHANGED Fixed
<1>1. RandomStep => UNCHANGED <<size, file>>
  BY DEF RandomStep, CreateFailed, Madvise, FileClosed, InKeyFile, FileStep, Open, Fstat,
    Mmap, UndoOpen, Munmap, Close, CallCloseFile, fileVars
<1>2. DriverStep \/ Flush => UNCHANGED driver
  BY DEF DriverStep, Flush, CallSucceeds, CallFails, Release, Released, Replace, Select,
    Fetch, Remove, Operate
<1>3. UNCHANGED randomVars => UNCHANGED <<size, file>>
  BY DEF randomVars, fileVars
<1>4. CallCreate \/ CallDestroy \/ Advance(klen) => UNCHANGED <<size, file>>
  BY DEF CallCreate, CallOpenFile, CallDestroy, CallCloseFile, Advance, fileVars
<1>5. CallOpen \/ CallClose \/ (\E k : CallReplace(k) \/ CallSelect(k))
        \/ UNCHANGED driverVars => UNCHANGED driver
  BY DEF CallOpen, CallClose, CallReplace, CallSelect, CallOn, driverVars
<1>6. CASE Setup
  BY <1>3, <1>4, <1>5, <1>6 DEF Fixed, args, Setup, LoadPlugin, OpenDatabase, DatabaseOpened,
    MallocKey, MallocVal, RandomCreated, MallocHist
<1>7. CASE Loop
  BY <1>3, <1>4, <1>5, <1>7 DEF Fixed, args, Loop, OutOfKeys, CallDriver, OperationDone,
    SelectFailed, ReplaceFailed
<1>8. CASE End
  BY <1>3, <1>4, <1>5, <1>8 DEF Fixed, args, End, Dump, CloseDatabase, DeleteHist,
    FreeBuffers, Finish
<1>9. CASE ErrorPath
  BY <1>3, <1>4, <1>5, <1>9 DEF Fixed, args, ErrorPath, Error6, Error5, Error4, Error3,
    Error2, Error1
<1>10. CASE InRandom \/ InPlugin \/ InDriver \/ LibraryFlush \/ UNCHANGED vars
  BY <1>1, <1>2, <1>3, <1>5, <1>10 DEF Fixed, InRandom, InPlugin, InDriver, LibraryFlush,
    vars, engineVars, args
<1>. QED  BY <1>6, <1>7, <1>8, <1>9, <1>10 DEF Next, Run

\* The steps of the engine's own code.
EngineStep == Setup \/ Loop \/ End \/ ErrorPath

(* The engine leaves the keys to the driver, and the database as open as it *)
(* is.                                                                     *)
LEMMA EngineKeepsKeys ==
  ASSUME EInv, EngineStep \/ InRandom \/ InPlugin \/ UNCHANGED vars
  PROVE  UNCHANGED <<stored, saved, acked, errs>> /\ DbOpen' = DbOpen
<1>1. UNCHANGED driverVars => UNCHANGED <<stored, saved, acked, errs>> /\ DbOpen' = DbOpen
  BY DEF driverVars, DbOpen
<1>2. CallClose \/ (\E k : CallReplace(k) \/ CallSelect(k)) =>
        UNCHANGED <<stored, saved, acked, errs>> /\ DbOpen' = DbOpen
  BY DEF CallClose, CallReplace, CallSelect, CallOn, DbOpen
<1>3. CASE OpenDatabase
  <2>1. driverPc = "idle" /\ Held = {} /\ DriverInv
    BY <1>3 DEF OpenDatabase, EInv, PcD, ClosedLabels
  <2>2. CallOpen => ~DbOpen /\ ~DbOpen'
    BY <2>1, NothingHeld, CallsDriver
  <2>3. CallOpen => UNCHANGED <<stored, saved, acked, errs>> /\ DbOpen' = DbOpen
    BY <2>2 DEF CallOpen, DbOpen
  <2>. QED  BY <1>1, <1>3, <2>3 DEF OpenDatabase
<1>4. CASE LoadPlugin \/ DatabaseOpened \/ MallocKey \/ MallocVal \/ RandomCreated \/ MallocHist
  BY <1>1, <1>4 DEF LoadPlugin, DatabaseOpened, MallocKey, MallocVal, RandomCreated, MallocHist
<1>5. CASE Loop
  BY <1>1, <1>2, <1>5 DEF Loop, OutOfKeys, CallDriver, OperationDone, SelectFailed, ReplaceFailed
<1>6. CASE End
  BY <1>1, <1>2, <1>6 DEF End, Dump, CloseDatabase, DeleteHist, FreeBuffers, Finish
<1>7. CASE ErrorPath
  BY <1>1, <1>2, <1>7 DEF ErrorPath, Error6, Error5, Error4, Error3, Error2, Error1
<1>8. CASE InRandom \/ InPlugin \/ UNCHANGED vars
  BY <1>1, <1>8 DEF InRandom, InPlugin, vars
<1>. QED  BY <1>3, <1>4, <1>5, <1>6, <1>7, <1>8 DEF EngineStep, Setup

(* No step of the engine's code changes how many operations have returned   *)
(* zero: it counts them after the driver told.                             *)
LEMMA EngineKeepsDone ==
  ASSUME EInv, KInv, EngineStep \/ InRandom \/ InPlugin \/ UNCHANGED vars
  PROVE  Done' = Done
<1>1. UNCHANGED driverVars => driverPc' = driverPc /\ driverRet' = driverRet
  BY DEF driverVars
<1>2. ASSUME NEW k, CallReplace(k) \/ CallSelect(k)
      PROVE  driverPc' \in {"replace", "select"}
  BY <1>2 DEF CallReplace, CallSelect, CallOn
<1>3. CASE Setup
  BY <1>3 DEF Done, Answered, counters, Setup, LoadPlugin, OpenDatabase, DatabaseOpened,
    MallocKey, MallocVal, RandomCreated, MallocHist
<1>4. CASE Loop
  <2>1. CASE CallDriver
    BY <1>2, <2>1 DEF Done, Answered, counters, CallDriver
  <2>2. CASE OperationDone
    BY <2>2 DEF Done, Answered, OperationDone, DriverReturned
  <2>3. CASE OutOfKeys \/ SelectFailed \/ ReplaceFailed
    BY <2>3 DEF Done, Answered, counters, OutOfKeys, SelectFailed, ReplaceFailed
  <2>. QED  BY <1>4, <2>1, <2>2, <2>3 DEF Loop
<1>5. CASE End
  BY <1>5 DEF Done, Answered, counters, End, Dump, CloseDatabase, DeleteHist, FreeBuffers,
    Finish
<1>6. CASE ErrorPath
  BY <1>6 DEF Done, Answered, counters, ErrorPath, Error6, Error5, Error4, Error3, Error2,
    Error1
<1>7. CASE InRandom \/ InPlugin \/ UNCHANGED vars
  BY <1>1, <1>7 DEF Done, Answered, counters, InRandom, InPlugin, vars, engineVars
<1>. QED  BY <1>3, <1>4, <1>5, <1>6, <1>7 DEF EngineStep
LEMMA EngineLoopInv ==
  ASSUME EInv, KInv, EngineStep \/ InRandom \/ InPlugin \/ UNCHANGED vars
  PROVE  LoopInv'
<1>1. /\ UNCHANGED <<count, klen, size>> /\ (LongEnough' <=> LongEnough)
  BY NextFixed DEF EngineStep, Next, Run, Fixed, LongEnough
<1>2. kk \in Nat /\ count \in Nat /\ LoopInv /\ (pc = "hist" => kk = 0)
  BY DEF EInv, CInv, CTypes, Cursor, KInv, ArgsInv
<1>3. CASE Setup
  BY <1>1, <1>2, <1>3 DEF LoopInv, Ending, counters, Setup, LoadPlugin, OpenDatabase,
    DatabaseOpened, MallocKey, MallocVal, RandomCreated, MallocHist
<1>4. CASE Loop
  BY <1>1, <1>2, <1>4 DEF LoopInv, Ending, counters, Loop, OutOfKeys, CallDriver,
    OperationDone, SelectFailed, ReplaceFailed
<1>5. CASE Dump
  <2>1. kk = count /\ kk' = kk /\ pc = "loop"
    BY <1>2, <1>5 DEF Dump, LoopInv, counters
  <2>2. cur = kk * klen /\ (kk # 0 => cur < size)
    BY <2>1 DEF EInv, CInv, Cursor
  <2>3. LongEnough
    BY <2>1, <2>2 DEF LongEnough
  <2>. QED  BY <1>1, <1>5, <2>1, <2>3 DEF Dump, LoopInv, Ending
<1>6. CASE CloseDatabase \/ DeleteHist \/ FreeBuffers \/ Finish
  BY <1>1, <1>2, <1>6 DEF LoopInv, Ending, counters, CloseDatabase, DeleteHist,
    FreeBuffers, Finish
<1>7. CASE ErrorPath
  <2>1. pc = "error_1" => rc # 0
    BY DEF EInv, HInv
  <2>. QED
    BY <1>1, <1>2, <1>7, <2>1 DEF LoopInv, Ending, counters, ErrorPath, Error6, Error5, Error4,
      Error3, Error2, Error1
<1>8. CASE InRandom \/ InPlugin \/ UNCHANGED vars
  <2>1. pc' = pc /\ rc' = rc /\ kk' = kk
    BY <1>8 DEF InRandom, InPlugin, vars, engineVars, counters
  <2>. QED  BY <1>1, <1>2, <2>1 DEF LoopInv
<1>. QED  BY <1>3, <1>4, <1>5, <1>6, <1>7, <1>8 DEF EngineStep, End

LEMMA EngineRetInv ==
  ASSUME EInv, KInv, EngineStep \/ InRandom \/ InPlugin \/ UNCHANGED vars
  PROVE  RetInv'
<1>1. RetInv /\ HInv
  BY DEF KInv, EInv
<1>2. UNCHANGED driverVars => driverRet' = driverRet
  BY DEF driverVars
<1>3. CASE Setup
  BY <1>1, <1>2, <1>3 DEF RetInv, HInv, Setup, LoadPlugin, OpenDatabase, DatabaseOpened,
    MallocKey, MallocVal, RandomCreated, MallocHist
<1>4. CASE Loop
  BY <1>1, <1>2, <1>4 DEF RetInv, Loop, OutOfKeys, CallDriver, OperationDone, SelectFailed,
    ReplaceFailed
<1>5. CASE End
  BY <1>1, <1>2, <1>5 DEF RetInv, End, Dump, CloseDatabase, DeleteHist, FreeBuffers, Finish
<1>6. CASE ErrorPath
  BY <1>1, <1>2, <1>6 DEF RetInv, HInv, ErrorPath, Error6, Error5, Error4, Error3, Error2,
    Error1
<1>7. CASE InRandom \/ InPlugin \/ UNCHANGED vars
  BY <1>1, <1>2, <1>7 DEF RetInv, InRandom, InPlugin, vars, engineVars
<1>. QED  BY <1>3, <1>4, <1>5, <1>6, <1>7 DEF EngineStep

(* A call begins with the key that the cursor is at.                       *)
LEMMA EngineCallInv ==
  ASSUME EInv, KInv, EngineStep \/ InRandom \/ InPlugin \/ UNCHANGED vars
  PROVE  CallInv' /\ key' \in Nat \cup {-1}
<1>1. UNCHANGED Fixed
  BY NextFixed DEF EngineStep, Next, Run
<1>2. key \in Nat \cup {-1} /\ CallInv
  BY DEF KInv, KeysTyped
<1>3. CASE CallDriver
  <2>1. /\ pc = "loop" /\ kk' = kk /\ cur = kk * klen /\ cur <= size /\ cur \in Nat
        /\ size \in Nat /\ file = [o \in 0 .. size |-> o] /\ klen' = klen /\ file' = file
        /\ bench' = bench
    BY <1>1, <1>3 DEF CallDriver, EInv, CInv, CTypes, Cursor, KInv, ArgsInv, counters, Fixed
  <2>2. file[cur] \in Nat
    BY <2>1
  <2>3. \/ bench = "get" /\ driverPc' = "select" /\ key' = file[cur]
        \/ bench = "put" /\ driverPc' = "replace" /\ key' = file[cur]
    BY <1>3 DEF CallDriver, CallSelect, CallReplace, CallOn, NextKey
  <2>. QED  BY <2>1, <2>2, <2>3 DEF CallInv
<1>4. CASE pc' # "called" /\ key' = key
  BY <1>2, <1>4 DEF CallInv
<1>5. UNCHANGED driverVars \/ CallOpen \/ CallClose => key' = key
  BY DEF driverVars, CallOpen, CallClose
<1>6. CASE Setup
  BY <1>4, <1>5, <1>6 DEF Setup, LoadPlugin, OpenDatabase, DatabaseOpened, MallocKey, MallocVal,
    RandomCreated, MallocHist
<1>7. CASE OutOfKeys \/ OperationDone \/ SelectFailed \/ ReplaceFailed
  BY <1>4, <1>5, <1>7 DEF OutOfKeys, OperationDone, SelectFailed, ReplaceFailed
<1>8. CASE End
  BY <1>4, <1>5, <1>8 DEF End, Dump, CloseDatabase, DeleteHist, FreeBuffers, Finish
<1>9. CASE ErrorPath
  BY <1>4, <1>5, <1>9 DEF ErrorPath, Error6, Error5, Error4, Error3, Error2, Error1
<1>10. CASE InRandom \/ InPlugin \/ UNCHANGED vars
  <2>1. pc' = pc /\ kk' = kk /\ driverPc' = driverPc /\ key' = key
    BY <1>10 DEF InRandom, InPlugin, vars, engineVars, counters, driverVars
  <2>. QED  BY <1>1, <1>2, <2>1 DEF CallInv, Fixed
<1>. QED  BY <1>3, <1>6, <1>7, <1>8, <1>9, <1>10 DEF EngineStep, Loop

(* The file ends before the keys that are asked for.                       *)
LEMMA OutOfKeysReason ==
  ASSUME EInv, KInv, OutOfKeys
  PROVE  size <= count * klen
<1>1. /\ kk \in Nat /\ klen \in 0 .. Word - 1 /\ size \in Nat /\ cur \in Nat /\ count \in Nat
      /\ Word \in Nat /\ 2 * size < Word
      /\ cur = kk * klen /\ (kk # 0 => cur < size /\ klen < size)
      /\ kk < count /\ (cur + klen) % Word >= size
  BY DEF OutOfKeys, NoMoreKeys, EInv, CInv, CTypes, Cursor, KInv, ArgsInv
<1>2. kk = 0 => cur = 0
  BY <1>1
<1>3. cur + klen \in 0 .. Word - 1
  <2>1. CASE kk = 0
    BY <1>1, <1>2, <2>1
  <2>2. CASE kk # 0
    BY <1>1, <2>2
  <2>. QED  BY <2>1, <2>2
<1>4. cur + klen >= size
  BY <1>1, <1>3
<1>5. (kk + 1) * klen = cur + klen
  BY <1>1
<1>6. (kk + 1) * klen <= count * klen
  BY <1>1, Monotone
<1>7. count * klen \in Nat
  BY <1>1
<1>. QED  BY <1>1, <1>4, <1>5, <1>6, <1>7

LEMMA EngineReasonInv ==
  ASSUME EInv, KInv, EngineStep \/ InRandom \/ InPlugin \/ UNCHANGED vars
  PROVE  ReasonInv'
<1>1. /\ UNCHANGED Fixed /\ UNCHANGED <<stored, saved, acked, errs>>
  BY NextFixed, EngineKeepsKeys DEF EngineStep, Next, Run
<1>2. /\ size' = size /\ count' = count /\ klen' = klen /\ bench' = bench /\ file' = file
      /\ saved' = saved /\ errs' = errs /\ driver' = driver /\ RefusedKeys' = RefusedKeys
  BY <1>1 DEF Fixed, FirstKeys, RefusedKeys, RefusedOf, Blind
<1>3. ReasonInv /\ HInv
  BY DEF KInv, EInv
<1>. DEFINE Excuse == \/ size <= count * klen
                      \/ bench = "get" /\ RefusedKeys # {}
<1>4. /\ Excuse' <=> Excuse
      /\ FailureHasReason <=> (pc = "done" /\ rc # 0 /\ "hist" \in heap /\ errs = {} => Excuse)
      /\ FailureHasReason' <=>
           (pc' = "done" /\ rc' # 0 /\ "hist" \in heap' /\ errs' = {} => Excuse')
  BY <1>2 DEF FailureHasReason
<1>. HIDE DEF Excuse
<1>5. UNCHANGED driverVars => driverPc' = driverPc /\ driverRet' = driverRet
  BY DEF driverVars
<1>6. (Refused /\ kk' = kk) => Refused'
  BY <1>2 DEF Refused, RefusedOf, Blind
<1>7. CASE Setup
  BY <1>2, <1>3, <1>4, <1>7 DEF ReasonInv, ErrorLabels, HInv, Setup, LoadPlugin, OpenDatabase,
    DatabaseOpened, MallocKey, MallocVal, RandomCreated, MallocHist
<1>8. CASE CallDriver
  <2>1. driverPc' \in {"select", "replace"} /\ pc' = "called"
    BY <1>8 DEF CallDriver, CallSelect, CallReplace, CallOn
  <2>. QED  BY <1>2, <1>4, <2>1 DEF ReasonInv, ErrorLabels
<1>9. CASE OutOfKeys
  BY <1>4, <1>9, OutOfKeysReason DEF OutOfKeys, ReasonInv, ErrorLabels, Excuse
<1>10. CASE OperationDone
  BY <1>4, <1>10 DEF OperationDone, ReasonInv, ErrorLabels
<1>11. CASE SelectFailed
  <2>1. errs # {} \/ Refused
    BY <1>3, <1>11 DEF SelectFailed, DriverReturned, ReasonInv
  <2>2. Refused => Excuse
    BY <1>11, KeyWanted DEF SelectFailed, Refused, Excuse, RefusedKeys, RefusedOf
  <2>. QED  BY <1>2, <1>4, <1>11, <2>1, <2>2 DEF SelectFailed, ReasonInv, ErrorLabels
<1>12. CASE ReplaceFailed
  <2>1. errs # {}
    BY <1>3, <1>12 DEF ReplaceFailed, DriverReturned, ReasonInv, Refused
  <2>. QED  BY <1>2, <1>4, <1>12, <2>1 DEF ReplaceFailed, ReasonInv, ErrorLabels
<1>13. CASE End
  BY <1>2, <1>3, <1>4, <1>13 DEF ReasonInv, ErrorLabels, HInv, End, Dump, CloseDatabase,
    DeleteHist, FreeBuffers, Finish
<1>14. CASE ErrorPath
  BY <1>2, <1>3, <1>4, <1>14 DEF ReasonInv, ErrorLabels, HInv, ErrorPath, Error6, Error5,
    Error4, Error3, Error2, Error1
<1>15. CASE InRandom \/ InPlugin \/ UNCHANGED vars
  <2>1. /\ pc' = pc /\ rc' = rc /\ heap' = heap /\ kk' = kk
        /\ driverPc' = driverPc /\ driverRet' = driverRet
    BY <1>5, <1>15 DEF InRandom, InPlugin, vars, engineVars, counters
  <2>. QED  BY <1>2, <1>3, <1>4, <1>6, <2>1 DEF ReasonInv
<1>. QED
  BY <1>7, <1>8, <1>9, <1>10, <1>11, <1>12, <1>13, <1>14, <1>15 DEF EngineStep, Loop
LEMMA EngineKInv ==
  ASSUME EInv, KInv, EngineStep \/ InRandom \/ InPlugin \/ UNCHANGED vars
  PROVE  KInv'
<1>1. /\ UNCHANGED Fixed /\ UNCHANGED <<stored, saved, acked, errs>>
      /\ DbOpen' = DbOpen /\ Done' = Done
  BY NextFixed, EngineKeepsKeys, EngineKeepsDone DEF EngineStep, Next, Run
<1>2. /\ DoneKeys' = DoneKeys /\ Wanted' = Wanted /\ Seen' = Seen
      /\ (Unchecked' <=> Unchecked) /\ (Blind' <=> Blind)
      /\ RefusedOf(DoneKeys)' = RefusedOf(DoneKeys)
  BY <1>1 DEF DoneKeys, FirstKeys, Wanted, Seen, Unchecked, Blind, RefusedOf, Fixed
<1>3. ArgsInv' /\ bench' = bench
  BY <1>1 DEF KInv, ArgsInv, Fixed
<1>4. LoopInv' /\ RetInv' /\ CallInv' /\ ReasonInv' /\ KeysTyped'
  BY <1>1, EngineLoopInv, EngineRetInv, EngineCallInv, EngineReasonInv DEF KInv, KeysTyped
<1>5. (PutInv => PutInv') /\ (GetInv => GetInv')
  BY <1>1, <1>2 DEF PutInv, GetInv
<1>. QED  BY <1>3, <1>4, <1>5 DEF KInv

-----------------------------------------------------------------------------
(* The steps of the driver                                                 *)

\* What a step of the driver or of the library leaves to the engine.
EngineWaits ==
  /\ UNCHANGED Fixed
  /\ UNCHANGED <<pc, rc, heap, kk>>

LEMMA DriverWaits == ASSUME InDriver \/ LibraryFlush  PROVE EngineWaits
<1>1. UNCHANGED Fixed
  BY NextFixed DEF Next, Run
<1>. QED  BY <1>1 DEF InDriver, LibraryFlush, EngineWaits, engineVars, counters

(* What follows for the parts that do not look at the keys of the database. *)
LEMMA WaitingKeeps ==
  ASSUME EInv, KInv, EngineWaits
  PROVE  /\ ArgsInv' /\ LoopInv' /\ bench' = bench
         /\ driverRet' = driverRet \/ driverPc # "idle" => RetInv'
         /\ Wanted' = Wanted /\ (Unchecked' <=> Unchecked) /\ (Blind' <=> Blind)
         /\ pc # "called" => CallInv' /\ Done' = Done /\ DoneKeys' = DoneKeys
         /\ file'[kk' * klen'] = file[kk * klen]
         /\ Done' = Done => DoneKeys' = DoneKeys
<1>1. UNCHANGED <<bench, count, klen, size, file, driver, pc, rc, kk>>
  BY DEF EngineWaits, Fixed
<1>2. /\ ArgsInv' /\ bench' = bench /\ Wanted' = Wanted
      /\ (Unchecked' <=> Unchecked) /\ (Blind' <=> Blind)
  BY <1>1 DEF KInv, ArgsInv, Wanted, Unchecked, Blind
<1>3. LoopInv'
  BY <1>1 DEF KInv, LoopInv, LongEnough
<1>4. pc # "called" => CallInv' /\ Done' = Done
  BY <1>1 DEF CallInv, Done, Answered
<1>5. Done' = Done => DoneKeys' = DoneKeys
  BY <1>1 DEF DoneKeys, FirstKeys
<1>6. driverRet' = driverRet \/ driverPc # "idle" => RetInv'
  <2>1. driverPc # "idle" => pc \notin {"keybuf", "valbuf", "random", "hist", "loop"}
    BY DEF EInv, PcD
  <2>2. heap' = heap
    BY DEF EngineWaits
  <2>. QED  BY <1>1, <2>1, <2>2 DEF KInv, RetInv
<1>. QED  BY <1>1, <1>2, <1>3, <1>4, <1>5, <1>6

\* A run that stopped with an error has the same excuse as before, as long
\* as a get changes nothing in the files.
LEMMA WaitingReason ==
  ASSUME EInv, KInv, EngineWaits, errs \subseteq errs', bench = "get" => saved' = saved,
         pc' = "called" /\ driverPc' = "idle" /\ driverRet' # 0 => errs' # {} \/ Refused'
  PROVE  ReasonInv'
<1>1. UNCHANGED <<bench, count, klen, size, file, driver, pc, rc, heap, kk>>
  BY DEF EngineWaits, Fixed
<1>2. ReasonInv
  BY DEF KInv
<1>3. bench = "get" => RefusedKeys' = RefusedKeys
  BY <1>1 DEF FirstKeys, RefusedKeys, RefusedOf, Blind
<1>4. FailureHasReason'
  BY <1>1, <1>2, <1>3 DEF ReasonInv, FailureHasReason
<1>. QED  BY <1>1, <1>2, <1>4 DEF ReasonInv

(* The engine opens the database once, before its first operation, so all   *)
(* that a step of an open or of a close needs is what it does to the keys.  *)
LEMMA QuietDriverKInv ==
  ASSUME EInv, KInv, EngineWaits, pc # "called", driverPc # "idle",
         UNCHANGED <<key, acked>>, errs \subseteq errs',
         \/ UNCHANGED <<stored, saved, errs>> /\ DbOpen' = DbOpen
         \/ UNCHANGED <<saved, errs>> /\ ~DbOpen /\ (DbOpen' => stored' = saved)
              /\ (stored' = stored \/ stored' = saved)
         \/ ClosesDb
  PROVE  KInv'
<1>1. /\ ArgsInv' /\ LoopInv' /\ RetInv'
      /\ bench' = bench /\ CallInv' /\ DoneKeys' = DoneKeys
      /\ Wanted' = Wanted /\ (Unchecked' <=> Unchecked) /\ (Blind' <=> Blind)
      /\ pc' # "called"
  BY WaitingKeeps DEF EngineWaits
<1>2. KeysTyped'
  BY DEF KInv, KeysTyped, ClosesDb
<1>3. bench = "put" => PutInv'
  BY <1>1 DEF KInv, PutInv, Seen, ClosesDb
<1>4. bench = "get" => GetInv' /\ saved' = saved
  BY <1>1 DEF KInv, GetInv, RefusedOf, ClosesDb
<1>5. ReasonInv'
  BY <1>1, <1>4, WaitingReason
<1>. QED  BY <1>1, <1>2, <1>3, <1>4, <1>5 DEF KInv

(* An operation of the benchmark: the driver is asked for the key that was  *)
(* read, and tells whether it has it, unless it hides an error.            *)
LEMMA OperationKInv ==
  ASSUME EInv, KInv, EngineWaits, pc = "called",
         NEW call \in Operations, NEW r \in LibraryResults(call), Operate(call, r)
  PROVE  KInv'
<1>1. /\ DbOpen /\ DbOpen' /\ driverPc = call /\ driverPc' = "idle"
      /\ UNCHANGED <<driver, key, saved>>
  BY OneOperation DEF EInv
<1>2. /\ driverRet' = Reports(driver, call, r)
      /\ errs' = IF r = "error" THEN errs \cup {call} ELSE errs
      /\ stored' = IF r = "ok" THEN Applied(call, stored) ELSE stored
      /\ acked' = IF driverRet' = 0 THEN Applied(call, acked) ELSE acked
  BY DEF Operate, Returns
<1>. DEFINE k == file[kk * klen]
<1>3. /\ ArgsInv' /\ LoopInv' /\ RetInv' /\ bench' = bench /\ pc' = "called" /\ kk' = kk
      /\ Wanted' = Wanted /\ (Unchecked' <=> Unchecked) /\ (Blind' <=> Blind)
      /\ file'[kk' * klen'] = k /\ UNCHANGED <<klen, file, driver>>
  BY <1>1, WaitingKeeps DEF EngineWaits, Fixed, Operations
<1>4. /\ call = (IF bench = "put" THEN "replace" ELSE "select") /\ key = k
      /\ bench \in {"get", "put"} /\ kk \in Nat /\ driver \in DriverNames
  BY <1>1 DEF KInv, CallInv, Operations, ArgsInv, EInv, CInv, CTypes, DriverInv
<1>5. k \in Wanted /\ k \in Nat
  BY KeyWanted
<1>6. CallInv'
  BY <1>1 DEF CallInv
<1>7. Done = kk /\ Done' = IF driverRet' = 0 THEN kk + 1 ELSE kk
  BY <1>1, <1>3 DEF Done, Answered, Operations
<1>8. DoneKeys' = IF driverRet' = 0 THEN DoneKeys \cup {k} ELSE DoneKeys
  <2>1. FirstKeys(Done)' = FirstKeys(Done')
    BY <1>3 DEF FirstKeys
  <2>. QED  BY <1>4, <1>7, <2>1, OneMoreKey DEF DoneKeys
<1>9. /\ r \in {"ok", "empty", "notfound", "error"}
      /\ r = "ok" => driverRet' = 0
      /\ r = "empty" => (driverRet' = 0 <=> ~Blind)
  <2>1. r \in {"ok", "empty", "notfound", "error"} /\ (r = "empty" => call = "select")
    BY DEF LibraryResults
  <2>. QED
    BY <1>2, <1>4, <2>1, DeniesEmpty, HidesEmpty DEF Reports, Blind
<1>. HIDE DEF k
<1>10. KeysTyped'
  <2>1. stored \subseteq Nat /\ acked \subseteq Nat /\ {key} \subseteq Nat
    BY <1>4, <1>5 DEF KInv, KeysTyped
  <2>2. ASSUME NEW keys, keys \subseteq Nat  PROVE Applied(call, keys) \subseteq Nat
    <3>1. Applied(call, keys) \subseteq keys \cup {key}
      BY AppliedFacts
    <3>. QED  BY <2>1, <2>2, <3>1
  <2>3. stored' \subseteq Nat /\ acked' \subseteq Nat
    BY <1>2, <2>1, <2>2
  <2>. QED  BY <1>1, <1>2, <2>3 DEF KInv, KeysTyped
<1>11. CASE bench = "put"
  <2>1. /\ stored' = IF r = "ok" THEN stored \cup {k} ELSE stored
        /\ acked' = IF driverRet' = 0 THEN acked \cup {k} ELSE acked
    BY <1>2, <1>4, <1>11, AppliedFacts
  <2>2. PutInv /\ call = "replace" /\ r \notin {"notfound", "empty"}
    BY <1>4, <1>11 DEF KInv, LibraryResults
  <2>3. driverRet' = 0 /\ r # "ok" => "replace" \in errs' /\ Unchecked
    <3>. SUFFICES ASSUME driverRet' = 0, r # "ok" PROVE "replace" \in errs' /\ Unchecked
      OBVIOUS
    <3>1. r = "error" /\ <<"replace", "error">> \in DbIf[driver].hides
      BY <1>2, <1>9, <2>2 DEF Reports
    <3>. QED  BY <1>2, <1>4, <2>2, <3>1, HidesReplaceError DEF Unchecked
  <2>4. PutInv'
    BY <1>1, <1>2, <1>3, <1>5, <1>8, <1>9, <2>1, <2>2, <2>3 DEF PutInv, Seen
  <2>5. driverRet' # 0 => errs' # {}
    BY <1>2, <1>9, <2>2
  <2>6. ReasonInv'
    BY <1>2, <1>11, <2>5, WaitingReason
  <2>. QED  BY <1>3, <1>6, <1>10, <1>11, <2>4, <2>6 DEF KInv
<1>12. CASE bench = "get"
  <2>1. stored' = stored /\ call = "select" /\ GetInv /\ stored = saved
    BY <1>1, <1>2, <1>4, <1>12, AppliedFacts DEF KInv, GetInv
  <2>2. /\ r = "ok" => k \in saved \ Bare
        /\ r = "empty" => k \in saved \cap Bare
        /\ r = "notfound" => k \notin saved
    BY <1>4, <2>1 DEF LibraryResults
  <2>3. ASSUME driverRet' = 0, r \in {"notfound", "error"}
        PROVE  \/ "select" \in errs' /\ (Unchecked \/ Blind)
               \/ r = "notfound" /\ Blind
    <3>1. <<"select", r>> \in DbIf[driver].hides
      BY <1>2, <2>1, <2>3 DEF Reports
    <3>. QED  BY <1>2, <1>4, <2>1, <2>3, <3>1, HidesSelect DEF Unchecked, Blind
  <2>4. \/ driverRet' # 0
        \/ (Unchecked \/ Blind) /\ "select" \in errs'
        \/ RefusedOf({k}) = {}
    BY <1>9, <2>2, <2>3 DEF RefusedOf
  <2>5. GetInv'
    <3>1. RefusedOf(DoneKeys)' = IF driverRet' = 0 THEN RefusedOf(DoneKeys) \cup RefusedOf({k})
                                                   ELSE RefusedOf(DoneKeys)
      BY <1>1, <1>3, <1>8 DEF RefusedOf
    <3>2. "select" \in errs => "select" \in errs'
      BY <1>2
    <3>. QED  BY <1>1, <1>2, <1>3, <2>1, <2>4, <3>1, <3>2 DEF GetInv
  <2>6. driverRet' # 0 => errs' # {} \/ Refused'
    <3>. SUFFICES ASSUME driverRet' # 0, r # "error" PROVE Refused'
      BY <1>2
    <3>1. RefusedOf({k}) # {}
      <4>1. CASE r = "empty"
        BY <1>9, <2>2, <4>1 DEF RefusedOf
      <4>2. CASE r = "notfound"
        <5>1. ~Blind
          BY <1>2, <1>4, <2>1, <4>2, HidesNotFoundSelect DEF Reports, Blind
        <5>. QED  BY <2>2, <4>2, <5>1 DEF RefusedOf
      <4>. QED  BY <1>9, <4>1, <4>2
    <3>. QED  BY <1>1, <1>3, <1>12, <3>1 DEF Refused, RefusedOf
  <2>7. ReasonInv'
    BY <1>1, <1>2, <2>6, WaitingReason
  <2>. QED  BY <1>3, <1>6, <1>10, <1>12, <2>5, <2>7 DEF KInv
<1>. QED  BY <1>4, <1>11, <1>12
LEMMA DriverKInv == ASSUME EInv, KInv, InDriver  PROVE KInv'
<1>1. EngineWaits /\ DriverInv /\ PcD
  BY DriverWaits DEF EInv
<1>2. pc = "called" => driverPc \in Operations \cup {"idle"}
  BY <1>1 DEF PcD, Operations
<1>3. CASE CallSucceeds
  <2>1. pc # "called" /\ driverPc # "idle" /\ (stored' = stored \/ stored' = saved)
    BY <1>2, <1>3 DEF CallSucceeds, Operations
  <2>. QED  BY <1>1, <1>3, <2>1, OneMoreCall, QuietDriverKInv
<1>4. CASE CallFails
  <2>1. pc # "called" /\ driverPc # "idle"
    BY <1>2, <1>4 DEF CallFails, Operations
  <2>. QED  BY <1>1, <1>4, <2>1, OneCallFails, QuietDriverKInv
<1>5. CASE Release
  <2>1. pc # "called" /\ driverPc # "idle"
    BY <1>2, <1>5 DEF Release, Operations
  <2>2. (ClosesDb \/ KeepsDb) /\ UNCHANGED <<key, acked>>
    BY <1>1, <1>5, OneRelease
  <2>3. stored' = stored \/ stored' = {}
    BY <1>5 DEF Release
  <2>4. CASE KeepsDb
    BY <1>1, <2>1, <2>2, <2>4, QuietDriverKInv DEF KeepsDb
  <2>5. CASE ClosesDb
    <3>1. stored' = {} /\ errs \subseteq errs'
      BY <2>5 DEF ClosesDb
    <3>. QED  BY <1>1, <2>1, <2>2, <2>5, <3>1, QuietDriverKInv
  <2>. QED  BY <2>2, <2>4, <2>5
<1>6. CASE Released
  <2>1. pc # "called" /\ driverPc # "idle"
    BY <1>2, <1>6 DEF Released, Operations
  <2>. QED  BY <1>1, <1>6, <2>1, LastRelease, QuietDriverKInv
<1>7. CASE Replace \/ Select \/ Fetch \/ Remove
  <2>1. PICK call \in Operations : \E r \in LibraryResults(call) : Operate(call, r)
    BY <1>7 DEF Replace, Select, Fetch, Remove, Operations
  <2>2. PICK r \in LibraryResults(call) : Operate(call, r)
    BY <2>1
  <2>3. driverPc = call
    BY <2>2 DEF Operate
  <2>4. pc = "called"
    BY <1>1, <2>3 DEF PcD, Labels, Operations
  <2>. QED  BY <1>1, <2>2, <2>4, OperationKInv
<1>. QED  BY <1>3, <1>4, <1>5, <1>6, <1>7 DEF InDriver, DriverStep

\* The library writes while the database is open, also after a run that
\* returned without closing it.
LEMMA FlushKInv == ASSUME EInv, KInv, LibraryFlush  PROVE KInv'
<1>1. /\ EngineWaits /\ DbOpen /\ DbOpen'
      /\ UNCHANGED <<driver, driverPc, res, driverRet, key, stored, acked, errs>>
  BY DriverWaits, FlushKeeps DEF LibraryFlush, EInv
<1>2. \/ \E k \in stored \ saved : saved' = saved \cup {k}
      \/ \E k \in saved \ stored : saved' = saved \ {k}
  BY DEF LibraryFlush, Flush
<1>3. /\ ArgsInv' /\ LoopInv' /\ RetInv' /\ bench' = bench
      /\ Wanted' = Wanted /\ (Unchecked' <=> Unchecked) /\ (Blind' <=> Blind)
      /\ (Done' = Done => DoneKeys' = DoneKeys)
  BY <1>1, WaitingKeeps
<1>4. Done' = Done /\ CallInv'
  BY <1>1 DEF EngineWaits, Fixed, Done, Answered, KInv, CallInv
<1>5. KeysTyped'
  BY <1>1, <1>2 DEF KInv, KeysTyped
<1>6. bench = "get" => saved' = saved /\ GetInv'
  BY <1>1, <1>2, <1>3, <1>4 DEF KInv, GetInv, RefusedOf
<1>7. bench = "put" => PutInv'
  BY <1>1, <1>2, <1>3, <1>4 DEF KInv, PutInv, Seen
<1>8. ReasonInv'
  BY <1>1, <1>6, WaitingReason DEF KInv, ReasonInv, Refused, RefusedOf, Blind,
    EngineWaits, Fixed
<1>. QED  BY <1>3, <1>4, <1>5, <1>6, <1>7, <1>8 DEF KInv

LEMMA InitKInv == Init => KInv
<1> SUFFICES ASSUME Init PROVE KInv
  OBVIOUS
<1>1. /\ pc = "start" /\ heap = {} /\ kk = 0 /\ key = -1
      /\ stored = {} /\ acked = {} /\ errs = {} /\ res = {}
      /\ file = [o \in 0 .. size |-> o]
  BY DEF Init, Begin, DriverInit
<1>2. count \in Nat /\ bench \in {"get", "put"} /\ saved \subseteq Nat
  BY EngineAssumption DEF Init
<1>3. DoneKeys = {} /\ ~DbOpen
  BY <1>1, NoKeyYet DEF DoneKeys, Done, Answered, DbOpen
<1>. QED
  BY <1>1, <1>2, <1>3 DEF KInv, ArgsInv, LoopInv, RetInv, Ending, KeysTyped, CallInv, PutInv, GetInv,
    ReasonInv, ErrorLabels, FailureHasReason, RefusedOf

LEMMA NextKInv == EInv /\ KInv /\ [Next]_vars => KInv'
  BY EngineKInv, DriverKInv, FlushKInv DEF Next, Run, EngineStep

LEMMA Invariants == Spec => [](EInv /\ KInv)
<1>1. EInv /\ KInv /\ [Next]_vars => (EInv /\ KInv)'
  BY NextEInv, NextKInv
<1>. QED  BY <1>1, InitEInv, InitKInv, PTL DEF Spec

-----------------------------------------------------------------------------
(* The theorems                                                            *)

\* A put that returns zero, or that ended with a replace that failed, has
\* every key it was told of in the files of the database, whatever was in it
\* before and whenever the library wrote, unless an error of the library was
\* not told.
THEOREM PutsSaved == Spec => []PutSavesKeys
<1>1. EInv /\ KInv => PutSavesKeys
  <2> SUFFICES ASSUME EInv, KInv, pc = "done", bench = "put", rc \in {0, 2}
               PROVE  /\ acked = FirstKeys(kk) /\ (rc = 0 => kk = count)
                      /\ \/ "close" \in errs \/ (Unchecked /\ "replace" \in errs)
                         \/ acked \subseteq saved
    BY DEF PutSavesKeys
  <2>1. ~DbOpen
    BY NothingHeld DEF EInv, PcD
  <2>2. PutInv /\ Done = kk
    BY DEF KInv, Done, Answered
  <2>3. rc = 0 => kk = count
    BY DEF KInv, LoopInv
  <2>. QED  BY <2>1, <2>2, <2>3 DEF PutInv, Seen, DoneKeys
<1>. QED  BY <1>1, Invariants, PTL

\* A get that returns zero has found every key it asked for; with
\* kyotocabinet, whose select succeeds for a key that is not there and fails
\* for one whose value is empty, it has found no empty value.
THEOREM GetsFound == Spec => []GetFindsKeys
<1>1. EInv /\ KInv => GetFindsKeys
  BY DEF KInv, GetInv, LoopInv, DoneKeys, Done, Answered, GetFindsKeys, RefusedKeys
<1>. QED  BY <1>1, Invariants, PTL

\* A benchmark that started and that no error of the library stopped fails
\* only for a file that is too short, to the byte, or for a key that a get
\* was refused: one that is not in the database, or, with kyotocabinet, one
\* that is there with an empty value.
THEOREM FailuresExplained == Spec => []FailureHasReason
<1>1. KInv => FailureHasReason
  BY DEF KInv, ReasonInv
<1>. QED  BY <1>1, Invariants, PTL
(* The types that no other part of the invariant has.                      *)
MoreTypes ==
  /\ FileTypeOK /\ PluginTypeOK
  /\ randomRet \in {0, -1, -2}
  /\ heap \subseteq {"key", "val", "hist"}

LEMMA NextMoreTypes == ASSUME MoreTypes, [Next]_vars  PROVE MoreTypes'
<1>. USE DEF MoreTypes
<1>1. RandomStep => FileTypeOK' /\ randomRet' \in {0, -1, -2}
  <2>1. InKeyFile => FileTypeOK' /\ randomRet' = randomRet
    BY DEF InKeyFile, readerVars, FileTypeOK, IoCalls, FileStep, Open, Fstat, Mmap, UndoOpen,
      Munmap, Close, Return
  <2>2. CreateFailed \/ Madvise \/ FileClosed => FileTypeOK' /\ randomRet' \in {0, -1, -2}
    BY DEF CreateFailed, Madvise, FileClosed, CallCloseFile, FileTypeOK, IoCalls, fileVars
  <2>. QED  BY <2>1, <2>2 DEF RandomStep
<1>2. CallCreate \/ CallDestroy \/ Advance(klen) \/ UNCHANGED randomVars =>
        FileTypeOK' /\ randomRet' = randomRet
  BY DEF CallCreate, CallOpenFile, CallDestroy, CallCloseFile, Advance, randomVars, readerVars,
    FileTypeOK, IoCalls, fileVars
<1>3. PluginStep \/ CallLoad \/ CallUnload \/ UNCHANGED pluginVars => PluginTypeOK'
  BY DEF PluginStep, MallocPlugin, Dlopen, Dlsym, CheckName, Dlclose, FreePlugin, CallLoad,
    CallUnload, pluginVars, PluginTypeOK
<1>4. CASE Setup
  BY <1>2, <1>3, <1>4 DEF Setup, LoadPlugin, OpenDatabase, DatabaseOpened, MallocKey, MallocVal,
    RandomCreated, MallocHist
<1>5. CASE Loop
  BY <1>2, <1>3, <1>5 DEF Loop, OutOfKeys, CallDriver, OperationDone, SelectFailed, ReplaceFailed
<1>6. CASE End
  BY <1>2, <1>3, <1>6 DEF End, Dump, CloseDatabase, DeleteHist, FreeBuffers, Finish
<1>7. CASE ErrorPath
  BY <1>2, <1>3, <1>7 DEF ErrorPath, Error6, Error5, Error4, Error3, Error2, Error1
<1>8. CASE InRandom \/ InPlugin \/ InDriver \/ LibraryFlush \/ UNCHANGED vars
  BY <1>1, <1>2, <1>3, <1>8 DEF InRandom, InPlugin, InDriver, LibraryFlush, vars,
    engineVars
<1>. QED  BY <1>4, <1>5, <1>6, <1>7, <1>8 DEF Next, Run

LEMMA InitMoreTypes == Init => MoreTypes
<1> SUFFICES ASSUME Init PROVE MoreTypes
  OBVIOUS
<1>1. size \in Nat
  BY EngineAssumption DEF Init
<1>. QED
  BY <1>1 DEF Init, Begin, RandomInit, FileInit, PluginInit, MoreTypes, FileTypeOK, IoCalls, PluginTypeOK

\* Every variable has its type, also those of the file, the plugin and the
\* driver that the engine calls.
THEOREM EngineTyped == Spec => []TypeOK
<1>1. Spec => []MoreTypes
  <2>1. MoreTypes /\ [Next]_vars => MoreTypes'
    BY NextMoreTypes
  <2>. QED  BY InitMoreTypes, <2>1, PTL DEF Spec
<1>2. EInv /\ KInv /\ MoreTypes => TypeOK
  <2> SUFFICES ASSUME EInv, KInv, MoreTypes PROVE TypeOK
    OBVIOUS
  <2>1. RandomTypeOK /\ PluginTypeOK
    BY DEF EInv, CInv, CTypes, FInv, MoreTypes, RandomTypeOK
  <2>2. todo \in Seq(Resources)
    BY LaddersTyped DEF EInv, DriverInv
  <2>3. DriverTypeOK(Nat)
    <3>1. DriverInv /\ KeysTyped
      BY DEF EInv, KInv
    <3>. QED  BY <2>2, <3>1 DEF DriverInv, KeysTyped, DriverTypeOK, Operations
  <2>4. heap \subseteq {"key", "val", "hist"} /\ rc \in 0 .. 2 /\ pc \in Labels
    BY DEF EInv, HInv, MoreTypes
  <2>5. klen \in Nat
    BY DEF EInv, CInv, CTypes
  <2>. QED
    BY <2>1, <2>3, <2>4, <2>5 DEF EInv, KInv, ArgsInv, CInv, CTypes, TypeOK
<1>. QED  BY <1>1, <1>2, Invariants, PTL

-----------------------------------------------------------------------------
(* The steps that are left. Each call of a part, each label of the engine  *)
(* and each iteration of its loop has a number of steps that no failure    *)
(* can exceed; what it calls next is paid for out of its own number.       *)

OpenLen == Len(DbIf[driver].open)

DriverLeft ==
  CASE driverPc = "idle"    -> 0
    [] driverPc = "open"    -> OpenLen - step + 4
    [] driverPc = "release" -> Len(todo) + 1
    [] OTHER                -> 1

PluginLeft ==
  CASE pluginPc = "malloc"  -> 6
    [] pluginPc = "dlopen"  -> 5
    [] pluginPc = "dlsym"   -> 4
    [] pluginPc = "check"   -> 3
    [] pluginPc = "dlclose" -> 2
    [] pluginPc = "free"    -> 1
    [] OTHER                -> 0

IoLeft ==
  CASE io = "open"                -> 4
    [] io = "fstat"               -> 3
    [] io \in {"mmap", "munmap"}  -> 2
    [] io \in {"undo", "close"}   -> 1
    [] OTHER                      -> 0

RandomLeft ==
  CASE randomPc = "opening" -> 4 + IoLeft
    [] randomPc = "closing" -> 1 + IoLeft
    [] OTHER                -> 0

\* The steps of the loop: three for each operation that is not done.
LoopLeft ==
  CASE pc \in {"start", "loading", "opening", "keybuf", "valbuf", "random", "hist"} ->
         3 * count
    [] pc \in {"loop", "called"} -> 3 * (count - kk)
    [] OTHER -> 0

LabelsLeft ==
  CASE pc = "start"       -> 41 + OpenLen
    [] pc = "loading"     -> 34 + OpenLen
    [] pc = "opening"     -> 29
    [] pc = "keybuf"      -> 28
    [] pc = "valbuf"      -> 27
    [] pc = "random"      -> 18
    [] pc = "hist"        -> 17
    [] pc = "loop"        -> 16
    [] pc = "error_6"     -> 15
    [] pc = "called"      -> 14
    [] pc = "close"       -> 13
    [] pc = "error_5"     -> 11
    [] pc = "error_4"     -> 10
    [] pc = "error_3"     -> 9
    [] pc = "delete_hist" -> 8
    [] pc \in {"error_2", "free_bufs"} -> 4
    [] pc \in {"error_1", "unload"}    -> 1
    [] OTHER              -> 0

\* All of them, and the number that a run begins with.
PartsLeft == DriverLeft + PluginLeft + RandomLeft
StepsLeft == LoopLeft + LabelsLeft + PartsLeft
StepsBound == 3 * count + 41 + OpenLen

\* There are never more steps left than nb_engine_run began with.
StepsInBound == StepsLeft \in 0 .. StepsBound

\* Each step of nb_engine_run, and of what it calls, uses up steps; a flush of
\* the library gives it no new ones.
StepsUsedUp ==
  [][IF Run THEN StepsLeft' < StepsLeft ELSE StepsLeft' = StepsLeft]_vars

-----------------------------------------------------------------------------
(* What a call costs, and that each step of a part uses up one of its own. *)

LEMMA LaddersShort ==
  ASSUME NEW s \in Ladders
  PROVE  /\ Len(s) \in 0 .. 3 /\ Len(s) + 1 \in 1 .. 4
         /\ s # <<>> => Len(s) # 0 /\ Len(Tail(s)) = Len(s) - 1
<1>1. \/ s = <<>> \/ s = <<"memory">> \/ s = <<"env">> \/ s = <<"db", "env">>
      \/ s = <<"options", "memory">> \/ s = <<"instance", "options", "memory">>
      \/ s = <<"instance", "memory">> \/ s = <<"env", "memory">>
      \/ s = <<"db", "env", "memory">>
  BY DEF Ladders
<1>2. Len(s) \in 0 .. 3
  BY <1>1
<1>3. s # <<>> => Len(s) # 0 /\ Len(Tail(s)) = Len(s) - 1
  BY <1>2, LaddersTyped
<1>. DEFINE l == Len(s)
<1>4. l + 1 \in 1 .. 4
  <2>1. l \in 0 .. 3
    BY <1>2
  <2>. HIDE DEF l
  <2>. QED  BY <2>1
<1>. QED  BY <1>2, <1>3, <1>4

LEMMA DriverTypes ==
  ASSUME DriverInv
  PROVE  /\ OpenLen \in Nat /\ DriverLeft \in 0 .. OpenLen + 4
         /\ driverPc = "release" => DriverLeft <= 4
<1>1. OpenLen \in Nat \ {0} /\ step \in 0 .. OpenLen /\ Len(todo) + 1 \in 1 .. 4
  BY DriversOrdered, LaddersShort DEF DriverInv, WellOrdered, OpenLen
<1>2. CASE driverPc = "open"
  <2>1. DriverLeft = OpenLen - step + 4
    BY <1>2 DEF DriverLeft
  <2>. QED  BY <1>1, <1>2, <2>1
<1>3. CASE driverPc = "release"
  <2>1. DriverLeft = Len(todo) + 1
    BY <1>3 DEF DriverLeft
  <2>2. DriverLeft \in 1 .. 4
    BY <1>1, <2>1
  <2>. QED  BY <1>1, <1>3, <2>2
<1>4. CASE driverPc \notin {"open", "release"}
  <2>1. DriverLeft \in {0, 1}
    BY <1>4 DEF DriverLeft
  <2>. QED  BY <1>1, <1>4, <2>1
<1>. QED  BY <1>1, <1>2, <1>3, <1>4

LEMMA DriverStepLess ==
  ASSUME DriverInv, DriverInv', DriverStep
  PROVE  OpenLen' = OpenLen /\ DriverLeft' < DriverLeft
<1>1. /\ OpenLen \in Nat \ {0} /\ step \in 0 .. OpenLen
      /\ Len(todo) \in 0 .. 3 /\ Len(todo') \in 0 .. 3
  BY DriversOrdered, LaddersShort DEF DriverInv, WellOrdered, OpenLen
<1>2. driver' = driver /\ OpenLen' = OpenLen
  BY DEF DriverStep, CallSucceeds, CallFails, Release, Released, Replace, Select, Fetch, Remove,
    Operate, OpenLen
<1>3. driverPc = "open" => step < OpenLen
  BY DEF DriverInv, OpenPart, OpenLen
<1>4. CASE CallSucceeds
  <2>1. /\ driverPc = "open" /\ step' = step + 1
        /\ driverPc' = "open" \/ driverPc' = "idle"
    BY <1>4 DEF CallSucceeds, Returns
  <2>2. DriverLeft = OpenLen - step + 4
    BY <2>1 DEF DriverLeft
  <2>3. CASE driverPc' = "open"
    <3>1. DriverLeft' = OpenLen - (step + 1) + 4
      BY <1>2, <2>1, <2>3 DEF DriverLeft
    <3>. QED  BY <1>1, <1>2, <1>3, <2>1, <2>2, <3>1
  <2>4. CASE driverPc' = "idle"
    <3>1. DriverLeft' = 0
      BY <2>4 DEF DriverLeft
    <3>. QED  BY <1>1, <1>2, <1>3, <2>1, <2>2, <3>1
  <2>. QED  BY <2>1, <2>3, <2>4
<1>5. CASE CallFails
  <2>1. driverPc = "open" /\ driverPc' = "release"
    BY <1>5 DEF CallFails
  <2>2. DriverLeft = OpenLen - step + 4 /\ DriverLeft' = Len(todo') + 1
    BY <2>1 DEF DriverLeft
  <2>3. Len(todo') + 1 \in 1 .. 4
    BY LaddersShort DEF DriverInv
  <2>4. DriverLeft' \in 1 .. 4
    BY <2>2, <2>3
  <2>. QED  BY <1>1, <1>2, <1>3, <2>1, <2>2, <2>4
<1>6. CASE Release
  <2>1. /\ driverPc = "release" /\ driverPc' = "release"
        /\ todo # <<>> /\ todo' = Tail(todo)
    BY <1>6 DEF Release
  <2>2. DriverLeft = Len(todo) + 1 /\ DriverLeft' = Len(todo') + 1
    BY <2>1 DEF DriverLeft
  <2>3. Len(todo') = Len(todo) - 1
    BY <2>1, LaddersShort DEF DriverInv
  <2>. QED  BY <1>1, <1>2, <2>2, <2>3
<1>7. CASE Released
  <2>1. driverPc = "release" /\ driverPc' = "idle"
    BY <1>7 DEF Released
  <2>2. DriverLeft = Len(todo) + 1 /\ DriverLeft' = 0
    BY <2>1 DEF DriverLeft
  <2>. QED  BY <1>1, <1>2, <2>2
<1>8. CASE Replace \/ Select \/ Fetch \/ Remove
  <2>1. driverPc \in {"replace", "select", "fetch", "remove"} /\ driverPc' = "idle"
    BY <1>8 DEF Replace, Select, Fetch, Remove, Operate, Returns
  <2>2. DriverLeft = 1 /\ DriverLeft' = 0
    BY <2>1 DEF DriverLeft
  <2>. QED  BY <1>2, <2>2
<1>. QED  BY <1>4, <1>5, <1>6, <1>7, <1>8 DEF DriverStep

LEMMA DriverCalls ==
  ASSUME DriverInv, DriverInv'
  PROVE  /\ UNCHANGED driverVars \/ Flush => OpenLen' = OpenLen /\ DriverLeft' = DriverLeft
         /\ CallOpen => OpenLen' = OpenLen /\ DriverLeft' = OpenLen + 4
         /\ CallClose => OpenLen' = OpenLen /\ DriverLeft' \in 0 .. 4
         /\ \A k : CallReplace(k) \/ CallSelect(k) => OpenLen' = OpenLen /\ DriverLeft' = 1
<1>1. UNCHANGED driverVars \/ Flush => OpenLen' = OpenLen /\ DriverLeft' = DriverLeft
  BY DEF driverVars, Flush, OpenLen, DriverLeft
<1>2. CallOpen => OpenLen' = OpenLen /\ DriverLeft' = OpenLen + 4
  <2> SUFFICES ASSUME CallOpen PROVE OpenLen' = OpenLen /\ DriverLeft' = OpenLen + 4
    OBVIOUS
  <2>1. driver' = driver /\ driverPc' = "open" /\ step' = 0
    BY DEF CallOpen
  <2>2. OpenLen' = OpenLen /\ DriverLeft' = OpenLen' - step' + 4
    BY <2>1 DEF OpenLen, DriverLeft
  <2>. QED  BY <2>1, <2>2, DriverTypes
<1>3. CallClose => OpenLen' = OpenLen /\ DriverLeft' \in 0 .. 4
  <2> SUFFICES ASSUME CallClose PROVE OpenLen' = OpenLen /\ DriverLeft' \in 0 .. 4
    OBVIOUS
  <2>1. driver' = driver /\ driverPc' = "release"
    BY DEF CallClose
  <2>2. OpenLen' = OpenLen /\ DriverLeft' = Len(todo') + 1
    BY <2>1 DEF OpenLen, DriverLeft
  <2>3. Len(todo') + 1 \in 1 .. 4
    BY LaddersShort DEF DriverInv
  <2>4. DriverLeft' \in 1 .. 4
    BY <2>2, <2>3
  <2>. QED  BY <2>2, <2>4
<1>4. ASSUME NEW k, CallReplace(k) \/ CallSelect(k)
      PROVE  OpenLen' = OpenLen /\ DriverLeft' = 1
  BY <1>4 DEF CallReplace, CallSelect, CallOn, OpenLen, DriverLeft
<1>. QED  BY <1>1, <1>2, <1>3, <1>4

LEMMA PluginCosts ==
  /\ PluginLeft \in 0 .. 6 /\ (pluginPc = "idle" => PluginLeft = 0)
  /\ UNCHANGED pluginVars => PluginLeft' = PluginLeft
  /\ CallLoad => PluginLeft' = 6
  /\ CallUnload => PluginLeft' = 2
  /\ PluginStep => PluginLeft' < PluginLeft
<1>1. PluginLeft \in 0 .. 6 /\ (pluginPc = "idle" => PluginLeft = 0)
  BY DEF PluginLeft
<1>2. UNCHANGED pluginVars => PluginLeft' = PluginLeft
  BY DEF PluginLeft, pluginVars
<1>3. (CallLoad => PluginLeft' = 6) /\ (CallUnload => PluginLeft' = 2)
  BY DEF PluginLeft, CallLoad, CallUnload
<1>4. PluginStep => PluginLeft' < PluginLeft
  BY DEF PluginLeft, PluginStep, MallocPlugin, Dlopen, Dlsym, CheckName, Dlclose, FreePlugin
<1>. QED  BY <1>1, <1>2, <1>3, <1>4

LEMMA RandomCosts ==
  /\ RandomLeft \in 0 .. 8 /\ (randomPc = "idle" => RandomLeft = 0)
  /\ \A l : UNCHANGED randomVars \/ Advance(l) => RandomLeft' = RandomLeft
  /\ CallCreate => RandomLeft' = 8
  /\ CallDestroy => RandomLeft' = 3
<1>1. RandomLeft \in 0 .. 8 /\ (randomPc = "idle" => RandomLeft = 0)
  BY DEF RandomLeft, IoLeft
<1>2. ASSUME NEW l, UNCHANGED randomVars \/ Advance(l)
      PROVE  RandomLeft' = RandomLeft
  BY <1>2 DEF RandomLeft, IoLeft, Advance, randomVars, readerVars, fileVars
<1>3. (CallCreate => RandomLeft' = 8) /\ (CallDestroy => RandomLeft' = 3)
  BY DEF RandomLeft, IoLeft, CallCreate, CallDestroy, CallOpenFile, CallCloseFile
<1>. QED  BY <1>1, <1>2, <1>3

LEMMA RandomStepLess == ASSUME FInv, RandomStep  PROVE RandomLeft' < RandomLeft
<1>1. CASE InKeyFile
  <2>1. IoLeft' < IoLeft /\ IoLeft \in 0 .. 4 /\ IoLeft' \in 0 .. 4
    BY <1>1 DEF InKeyFile, FileStep, Open, Fstat, Mmap, UndoOpen, Munmap, Close, Return, IoLeft
  <2>2. randomPc' = randomPc /\ randomPc \in {"opening", "closing"}
    BY <1>1, FileStepFInv DEF FInv
  <2>3. \/ RandomLeft = 4 + IoLeft /\ RandomLeft' = 4 + IoLeft'
        \/ RandomLeft = 1 + IoLeft /\ RandomLeft' = 1 + IoLeft'
    BY <2>2 DEF RandomLeft
  <2>. QED  BY <2>1, <2>3
<1>2. CASE CreateFailed \/ FileClosed
  BY <1>2 DEF CreateFailed, FileClosed, FileReturned, fileVars, RandomLeft, IoLeft
<1>3. CASE Madvise
  BY <1>3 DEF Madvise, FileReturned, CallCloseFile, fileVars, RandomLeft, IoLeft
<1>. QED  BY <1>1, <1>2, <1>3 DEF RandomStep

-----------------------------------------------------------------------------
(* The steps of the engine's own code: a label pays for the call it makes,  *)
(* and an iteration that ends for the labels of the next one.              *)

LEMMA PartsTypes ==
  ASSUME EInv
  PROVE  /\ OpenLen \in Nat /\ DriverLeft \in Nat /\ PluginLeft \in Nat /\ RandomLeft \in Nat
         /\ PartsLeft \in Nat /\ LabelsLeft \in Nat
<1>1. OpenLen \in Nat /\ DriverLeft \in 0 .. OpenLen + 4
  BY DriverTypes DEF EInv
<1>2. PluginLeft \in 0 .. 6 /\ RandomLeft \in 0 .. 8
  BY PluginCosts, RandomCosts
<1>3. LabelsLeft \in Nat
  BY <1>1 DEF LabelsLeft
<1>4. PartsLeft \in Nat
  BY <1>1, <1>2 DEF PartsLeft
<1>. QED  BY <1>1, <1>2, <1>3, <1>4

LEMMA LoopTypes == ASSUME EInv, KInv  PROVE LoopLeft \in Nat
<1>1. count \in Nat /\ kk \in Nat /\ (pc \in {"loop", "called"} => kk <= count)
  BY DEF EInv, CInv, CTypes, KInv, ArgsInv, LoopInv
<1>2. CASE pc \in {"loop", "called"}
  <2>1. LoopLeft = 3 * (count - kk)
    BY <1>2 DEF LoopLeft
  <2>. QED  BY <1>1, <1>2, <2>1
<1>3. CASE pc \notin {"loop", "called"}
  <2>1. LoopLeft = 3 * count \/ LoopLeft = 0
    BY <1>3 DEF LoopLeft
  <2>. QED  BY <1>1, <2>1
<1>. QED  BY <1>2, <1>3

LEMMA LoopKept ==
  ASSUME EInv, KInv, EngineStep, ~OperationDone
  PROVE  LoopLeft' = LoopLeft \/ LoopLeft' = 0
<1>1. count' = count /\ kk' = kk
  BY DEF EngineStep, args, counters, Setup, LoadPlugin, OpenDatabase, DatabaseOpened, MallocKey,
    MallocVal, RandomCreated, MallocHist, Loop, OutOfKeys, CallDriver, SelectFailed,
    ReplaceFailed, End, Dump, CloseDatabase, DeleteHist, FreeBuffers, Finish, ErrorPath, Error6,
    Error5, Error4, Error3, Error2, Error1
<1>2. CASE MallocHist
  <2>1. pc = "hist" /\ kk = 0 /\ count \in Nat /\ (pc' = "loop" \/ pc' = "error_6")
    BY <1>2 DEF MallocHist, EInv, CInv, Cursor, KInv, ArgsInv
  <2>2. LoopLeft = 3 * count
    BY <2>1 DEF LoopLeft
  <2>3. LoopLeft' = 3 * (count' - kk') \/ LoopLeft' = 0
    BY <2>1 DEF LoopLeft
  <2>4. 3 * (count' - kk') = 3 * count
    BY <1>1, <2>1
  <2>. QED  BY <2>2, <2>3, <2>4
<1>3. CASE Setup /\ ~MallocHist
  BY <1>1, <1>3 DEF LoopLeft, Setup, LoadPlugin, OpenDatabase, DatabaseOpened, MallocKey,
    MallocVal, RandomCreated
<1>4. CASE Loop
  BY <1>1, <1>4 DEF LoopLeft, Loop, OutOfKeys, CallDriver, SelectFailed, ReplaceFailed
<1>5. CASE End \/ ErrorPath
  BY <1>5 DEF LoopLeft, End, Dump, CloseDatabase, DeleteHist, FreeBuffers, Finish, ErrorPath,
    Error6, Error5, Error4, Error3, Error2, Error1
<1>. QED  BY <1>2, <1>3, <1>4, <1>5 DEF EngineStep

(* What the parts have left when the engine calls one of them, or none.    *)
LEMMA PartsKept ==
  ASSUME EInv, EInv', UNCHANGED <<randomVars, pluginVars, driverVars>>
  PROVE  OpenLen' = OpenLen /\ PartsLeft' = PartsLeft
  BY DriverCalls, PluginCosts, RandomCosts DEF EInv, PartsLeft

LEMMA SumGrows ==
  ASSUME NEW a \in Int, NEW b \in Int, NEW c \in Int, NEW m \in Int, a <= m
  PROVE  a + b + c <= (0 + b + c) + m
  OBVIOUS

LEMMA DriverPaid ==
  ASSUME EInv, EInv', driverPc = "idle", UNCHANGED pluginVars,
         UNCHANGED randomVars \/ Advance(klen)
  PROVE  /\ CallOpen => OpenLen' = OpenLen /\ PartsLeft' <= PartsLeft + (OpenLen + 4)
         /\ CallClose => OpenLen' = OpenLen /\ PartsLeft' <= PartsLeft + 4
         /\ \A k : CallReplace(k) \/ CallSelect(k) =>
              OpenLen' = OpenLen /\ PartsLeft' <= PartsLeft + 1
<1>1. DriverLeft = 0 /\ DriverInv /\ DriverInv'
  BY DEF DriverLeft, EInv
<1>2. /\ PluginLeft' = PluginLeft /\ RandomLeft' = RandomLeft
      /\ PluginLeft \in Int /\ RandomLeft \in Int /\ OpenLen \in Nat
  BY PluginCosts, RandomCosts, PartsTypes
<1>3. /\ PartsLeft' = DriverLeft' + PluginLeft + RandomLeft
      /\ PartsLeft = 0 + PluginLeft + RandomLeft
  BY <1>1, <1>2 DEF PartsLeft
<1>4. ASSUME NEW m \in Int, DriverLeft' \in Int, DriverLeft' <= m
      PROVE  PartsLeft' <= PartsLeft + m
  BY <1>2, <1>3, <1>4, SumGrows
<1>5. ASSUME CallOpen
      PROVE  OpenLen' = OpenLen /\ PartsLeft' <= PartsLeft + (OpenLen + 4)
  <2>1. OpenLen' = OpenLen /\ DriverLeft' = OpenLen + 4
    BY <1>1, <1>5, DriverCalls
  <2>2. OpenLen + 4 \in Int /\ OpenLen + 4 <= OpenLen + 4
    BY <1>2
  <2>. QED  BY <1>4, <2>1, <2>2
<1>6. ASSUME CallClose  PROVE OpenLen' = OpenLen /\ PartsLeft' <= PartsLeft + 4
  <2>1. OpenLen' = OpenLen /\ DriverLeft' \in 0 .. 4
    BY <1>1, <1>6, DriverCalls
  <2>. QED  BY <1>4, <2>1
<1>7. ASSUME NEW k, CallReplace(k) \/ CallSelect(k)
      PROVE  OpenLen' = OpenLen /\ PartsLeft' <= PartsLeft + 1
  <2>1. OpenLen' = OpenLen /\ DriverLeft' = 1
    BY <1>1, <1>7, DriverCalls
  <2>. QED  BY <1>4, <2>1
<1>. QED  BY <1>5, <1>6, <1>7

LEMMA PluginPaid ==
  ASSUME EInv, EInv', pluginPc = "idle", UNCHANGED <<randomVars, driverVars>>
  PROVE  /\ OpenLen' = OpenLen
         /\ CallLoad => PartsLeft' = PartsLeft + 6
         /\ CallUnload => PartsLeft' = PartsLeft + 2
<1>1. /\ OpenLen' = OpenLen /\ DriverLeft' = DriverLeft /\ RandomLeft' = RandomLeft
      /\ PluginLeft = 0 /\ (CallLoad => PluginLeft' = 6) /\ (CallUnload => PluginLeft' = 2)
  BY DriverCalls, PluginCosts, RandomCosts DEF EInv
<1>2. DriverLeft \in Nat /\ RandomLeft \in Nat
  BY PartsTypes
<1>. QED  BY <1>1, <1>2 DEF PartsLeft

LEMMA RandomPaid ==
  ASSUME EInv, EInv', randomPc = "idle", UNCHANGED <<pluginVars, driverVars>>
  PROVE  /\ OpenLen' = OpenLen
         /\ CallCreate => PartsLeft' = PartsLeft + 8
         /\ CallDestroy => PartsLeft' = PartsLeft + 3
<1>1. /\ OpenLen' = OpenLen /\ DriverLeft' = DriverLeft /\ PluginLeft' = PluginLeft
      /\ RandomLeft = 0 /\ (CallCreate => RandomLeft' = 8) /\ (CallDestroy => RandomLeft' = 3)
  BY DriverCalls, PluginCosts, RandomCosts DEF EInv
<1>2. DriverLeft \in Nat /\ PluginLeft \in Nat
  BY PartsTypes
<1>. QED  BY <1>1, <1>2 DEF PartsLeft

LEMMA StepsTypes ==
  EInv /\ KInv => /\ PartsLeft \in Nat /\ LabelsLeft \in Nat /\ LoopLeft \in Nat
                  /\ StepsLeft \in Nat
                  /\ DriverLeft \in Nat /\ PluginLeft \in Nat /\ RandomLeft \in Nat
<1> SUFFICES ASSUME EInv, KInv
             PROVE  /\ PartsLeft \in Nat /\ LabelsLeft \in Nat /\ LoopLeft \in Nat
                    /\ StepsLeft \in Nat
                    /\ DriverLeft \in Nat /\ PluginLeft \in Nat /\ RandomLeft \in Nat
  OBVIOUS
<1>1. PartsLeft \in Nat /\ LabelsLeft \in Nat /\ LoopLeft \in Nat
  BY PartsTypes, LoopTypes
<1>. QED  BY <1>1, PartsTypes DEF StepsLeft

LEMMA StepsTypesNext ==
  (EInv /\ KInv)' => (/\ PartsLeft \in Nat /\ LabelsLeft \in Nat /\ LoopLeft \in Nat
                      /\ StepsLeft \in Nat
                      /\ DriverLeft \in Nat /\ PluginLeft \in Nat /\ RandomLeft \in Nat)'
  BY StepsTypes, PTL

LEMMA Pays ==
  ASSUME NEW l \in Int, NEW l2 \in Int, NEW p \in Int, NEW p2 \in Int, NEW m \in Int,
         p2 <= p + m, l2 + m < l
  PROVE  l2 + p2 < l + p
  OBVIOUS

LEMMA PaysAlone ==
  ASSUME NEW l \in Int, NEW l2 \in Int, NEW p \in Int, l2 < l
  PROVE  l2 + p < l + p
  OBVIOUS

LEMMA LabelPays ==
  ASSUME EInv, KInv, EInv', KInv', EngineStep, ~OperationDone
  PROVE  OpenLen' = OpenLen /\ LabelsLeft' + PartsLeft' < LabelsLeft + PartsLeft
<1>1. /\ LabelsLeft \in Int /\ LabelsLeft' \in Int /\ PartsLeft \in Int /\ PartsLeft' \in Int
      /\ OpenLen \in Nat
  BY StepsTypes, StepsTypesNext, PartsTypes
<1>2. ASSUME NEW m \in Int, PartsLeft' <= PartsLeft + m, LabelsLeft' + m < LabelsLeft
      PROVE  LabelsLeft' + PartsLeft' < LabelsLeft + PartsLeft
  BY <1>1, <1>2, Pays
<1>. DEFINE Quiet ==
       OpenDatabase \/ DatabaseOpened \/ MallocKey \/ MallocVal \/ RandomCreated
         \/ MallocHist \/ OutOfKeys \/ SelectFailed \/ ReplaceFailed \/ Dump \/ Finish
         \/ Error5 \/ Error4 \/ Error1
<1>3. CASE Quiet /\ UNCHANGED <<randomVars, pluginVars, driverVars>>
  <2>1. OpenLen' = OpenLen /\ PartsLeft' = PartsLeft
    BY <1>3, PartsKept
  <2>2. LabelsLeft' < LabelsLeft
    <3>1. CASE pc = "called"
      BY <1>3, <3>1 DEF LabelsLeft, Quiet, OpenDatabase, DatabaseOpened, MallocKey, MallocVal,
        RandomCreated, MallocHist, OutOfKeys, SelectFailed, ReplaceFailed, Dump, Finish,
        Error5, Error4, Error1
    <3>2. CASE pc = "loading"
      <4>1. LabelsLeft = 34 + OpenLen /\ pc' = "error_1"
        BY <1>3, <3>2 DEF LabelsLeft, Quiet, OpenDatabase, CallOpen, driverVars, DatabaseOpened,
          MallocKey, MallocVal, RandomCreated, MallocHist, OutOfKeys, SelectFailed,
          ReplaceFailed, Dump, Finish, Error5, Error4, Error1, EInv, PcD
      <4>. QED  BY <1>1, <4>1 DEF LabelsLeft
    <3>3. CASE pc \notin {"called", "loading"}
      BY <1>3, <3>3 DEF LabelsLeft, Quiet, OpenDatabase, DatabaseOpened, MallocKey, MallocVal,
        CallCreate, randomVars, readerVars, EInv, PcF,
        RandomCreated, MallocHist, OutOfKeys, SelectFailed, ReplaceFailed, Dump, Finish,
        Error5, Error4, Error1
    <3>. QED  BY <3>1, <3>2, <3>3
  <2>. QED  BY <1>1, <2>1, <2>2, PaysAlone
<1>4. CASE LoadPlugin
  <2>1. pc = "start" /\ pc' = "loading" /\ pluginPc = "idle"
    BY <1>4 DEF LoadPlugin, EInv, PcP
  <2>2. OpenLen' = OpenLen /\ PartsLeft' <= PartsLeft + 6
    BY <1>1, <1>4, <2>1, PluginPaid DEF LoadPlugin
  <2>3. LabelsLeft = 41 + OpenLen /\ LabelsLeft' = 34 + OpenLen
    BY <2>1, <2>2 DEF LabelsLeft
  <2>4. LabelsLeft' + 6 < LabelsLeft
    BY <1>1, <2>3
  <2>. QED  BY <1>2, <2>2, <2>4
<1>5. CASE OpenDatabase /\ CallOpen
  <2>1. pc = "loading" /\ driverPc = "idle"
    BY <1>5 DEF OpenDatabase, EInv, PcD
  <2>2. pc' = "opening"
    BY <1>5, <2>1 DEF OpenDatabase, CallOpen, driverVars
  <2>3. OpenLen' = OpenLen /\ PartsLeft' <= PartsLeft + (OpenLen + 4)
    BY <1>5, <2>1, DriverPaid DEF OpenDatabase
  <2>4. LabelsLeft = 34 + OpenLen /\ LabelsLeft' = 29
    BY <2>1, <2>2 DEF LabelsLeft
  <2>5. LabelsLeft' + (OpenLen + 4) < LabelsLeft /\ OpenLen + 4 \in Int
    BY <1>1, <2>4
  <2>. QED  BY <1>2, <2>3, <2>5
<1>6. CASE CallDriver
  <2>1. pc = "loop" /\ pc' = "called" /\ driverPc = "idle"
    BY <1>6 DEF CallDriver, EInv, PcD
  <2>2. \E k : CallReplace(k) \/ CallSelect(k)
    BY <1>6 DEF CallDriver
  <2>3. OpenLen' = OpenLen /\ PartsLeft' <= PartsLeft + 1
    BY <1>6, <2>1, <2>2, DriverPaid DEF CallDriver
  <2>4. LabelsLeft = 16 /\ LabelsLeft' = 14
    BY <2>1 DEF LabelsLeft
  <2>. QED  BY <1>2, <2>3, <2>4
<1>7. CASE CloseDatabase \/ Error3
  <2>1. /\ driverPc = "idle"
        /\ \/ pc = "close" /\ pc' = "delete_hist"
           \/ pc = "error_3" /\ pc' = "error_2"
    BY <1>7 DEF CloseDatabase, Error3, EInv, PcD
  <2>2. OpenLen' = OpenLen /\ PartsLeft' <= PartsLeft + 4
    BY <1>7, <2>1, DriverPaid DEF CloseDatabase, Error3
  <2>3. LabelsLeft' + 4 < LabelsLeft
    BY <2>1 DEF LabelsLeft
  <2>. QED  BY <1>2, <2>2, <2>3
<1>8. CASE FreeBuffers \/ Error2
  <2>1. /\ pluginPc = "idle"
        /\ \/ pc = "free_bufs" /\ pc' = "unload"
           \/ pc = "error_2" /\ pc' = "error_1"
    BY <1>8 DEF FreeBuffers, Error2, EInv, PcP
  <2>2. OpenLen' = OpenLen /\ PartsLeft' <= PartsLeft + 2
    BY <1>1, <1>8, <2>1, PluginPaid DEF FreeBuffers, Error2
  <2>3. LabelsLeft' + 2 < LabelsLeft
    BY <2>1 DEF LabelsLeft
  <2>. QED  BY <1>2, <2>2, <2>3
<1>9. CASE MallocVal /\ CallCreate
  <2>1. pc = "valbuf" /\ randomPc = "idle"
    BY <1>9 DEF MallocVal, EInv, PcF, FInv
  <2>2. pc' = "random"
    BY <1>9, <2>1 DEF MallocVal, CallCreate, randomVars, readerVars
  <2>3. OpenLen' = OpenLen /\ PartsLeft' <= PartsLeft + 8
    BY <1>1, <1>9, <2>1, RandomPaid DEF MallocVal
  <2>4. LabelsLeft' + 8 < LabelsLeft
    BY <2>1, <2>2 DEF LabelsLeft
  <2>. QED  BY <1>2, <2>3, <2>4
<1>10. CASE DeleteHist \/ Error6
  <2>1. /\ randomPc = "idle"
        /\ \/ pc = "delete_hist" /\ pc' = "free_bufs"
           \/ pc = "error_6" /\ pc' = "error_5"
    BY <1>10 DEF DeleteHist, Error6, EInv, PcF, FInv
  <2>2. OpenLen' = OpenLen /\ PartsLeft' <= PartsLeft + 3
    BY <1>1, <1>10, <2>1, RandomPaid DEF DeleteHist, Error6
  <2>3. LabelsLeft' + 3 < LabelsLeft
    BY <2>1 DEF LabelsLeft
  <2>. QED  BY <1>2, <2>2, <2>3
<1>11. CASE DatabaseOpened \/ MallocKey \/ RandomCreated \/ MallocHist \/ OutOfKeys
           \/ SelectFailed \/ ReplaceFailed \/ Dump \/ Finish \/ Error5 \/ Error4 \/ Error1
  BY <1>3, <1>11 DEF DatabaseOpened, MallocKey, RandomCreated, MallocHist, OutOfKeys,
    SelectFailed, ReplaceFailed, Dump, Finish, Error5, Error4, Error1
<1>12. OpenDatabase => CallOpen \/ UNCHANGED <<randomVars, pluginVars, driverVars>>
  BY DEF OpenDatabase
<1>13. MallocVal => CallCreate \/ UNCHANGED <<randomVars, pluginVars, driverVars>>
  BY DEF MallocVal
<1>. QED
  BY <1>3, <1>4, <1>5, <1>6, <1>7, <1>8, <1>9, <1>10, <1>11, <1>12, <1>13
    DEF EngineStep, Setup, Loop, End, ErrorPath

(* An operation that returned pays for the labels of the next iteration.   *)
LEMMA OperationPays ==
  ASSUME EInv, KInv, EInv', KInv', OperationDone
  PROVE  OpenLen' = OpenLen /\ StepsLeft' < StepsLeft
<1>1. /\ pc = "called" /\ pc' = "loop" /\ kk' = kk + 1 /\ count' = count
      /\ OpenLen' = OpenLen /\ PartsLeft' = PartsLeft
      /\ kk \in Nat /\ count \in Nat /\ PartsLeft \in Nat
  BY StepsTypes, PartsKept DEF OperationDone, args, EInv, CInv, CTypes, KInv, ArgsInv
<1>2. /\ LabelsLeft = 14 /\ LabelsLeft' = 16
      /\ LoopLeft = 3 * (count - kk) /\ LoopLeft' = 3 * (count - (kk + 1))
  BY <1>1 DEF LabelsLeft, LoopLeft
<1>3. /\ StepsLeft = 3 * (count - kk) + 14 + PartsLeft
      /\ StepsLeft' = 3 * (count - (kk + 1)) + 16 + PartsLeft
  BY <1>1, <1>2 DEF StepsLeft
<1>. DEFINE p == PartsLeft
<1>4. p \in Nat
  BY <1>1
<1>. HIDE DEF p
<1>5. 3 * (count - (kk + 1)) + 16 + p < 3 * (count - kk) + 14 + p
  BY <1>1, <1>4
<1>. QED  BY <1>1, <1>3, <1>5 DEF p

LEMMA SumLess ==
  ASSUME NEW a \in Int, NEW b \in Int, NEW p \in Int, NEW c \in Int, NEW d \in Int,
         NEW q \in Int, c <= a, d + q < b + p
  PROVE  c + d + q < a + b + p
  OBVIOUS

LEMMA RightLess ==
  ASSUME NEW b \in Int, NEW p \in Int, NEW q \in Int, q < p
  PROVE  b + q < b + p
  OBVIOUS

LEMMA OneLess ==
  ASSUME NEW a \in Int, NEW b \in Int, NEW c \in Int, NEW d \in Int, d < a
  PROVE  d + b + c < a + b + c /\ b + d + c < b + a + c /\ b + c + d < b + c + a
  OBVIOUS

(* A step of a part uses up one of its own.                                *)
LEMMA PartLess ==
  ASSUME EInv, KInv, EInv', KInv', InRandom \/ InPlugin \/ InDriver
  PROVE  OpenLen' = OpenLen /\ PartsLeft' < PartsLeft
<1>1. /\ DriverLeft \in Int /\ PluginLeft \in Int /\ RandomLeft \in Int
      /\ DriverLeft' \in Int /\ PluginLeft' \in Int /\ RandomLeft' \in Int
      /\ DriverInv /\ DriverInv' /\ FInv
  BY StepsTypes, StepsTypesNext DEF EInv
<1>2. CASE InRandom
  <2>1. /\ OpenLen' = OpenLen /\ DriverLeft' = DriverLeft /\ PluginLeft' = PluginLeft
        /\ RandomLeft' < RandomLeft
    BY <1>1, <1>2, RandomStepLess, DriverCalls, PluginCosts DEF InRandom
  <2>2. DriverLeft + PluginLeft + RandomLeft' < DriverLeft + PluginLeft + RandomLeft
    BY <1>1, <2>1, OneLess
  <2>. QED  BY <2>1, <2>2 DEF PartsLeft
<1>3. CASE InPlugin
  <2>1. /\ OpenLen' = OpenLen /\ DriverLeft' = DriverLeft /\ RandomLeft' = RandomLeft
        /\ PluginLeft' < PluginLeft
    BY <1>1, <1>3, RandomCosts, DriverCalls, PluginCosts DEF InPlugin
  <2>2. DriverLeft + PluginLeft' + RandomLeft < DriverLeft + PluginLeft + RandomLeft
    BY <1>1, <2>1, OneLess
  <2>. QED  BY <2>1, <2>2 DEF PartsLeft
<1>4. CASE InDriver
  <2>1. /\ OpenLen' = OpenLen /\ PluginLeft' = PluginLeft /\ RandomLeft' = RandomLeft
        /\ DriverLeft' < DriverLeft
    BY <1>1, <1>4, DriverStepLess, RandomCosts, PluginCosts DEF InDriver
  <2>2. DriverLeft' + PluginLeft + RandomLeft < DriverLeft + PluginLeft + RandomLeft
    BY <1>1, <2>1, OneLess
  <2>. QED  BY <2>1, <2>2 DEF PartsLeft
<1>. QED  BY <1>2, <1>3, <1>4

LEMMA RunLess ==
  ASSUME EInv, KInv, EInv', KInv', Run
  PROVE  OpenLen' = OpenLen /\ StepsLeft' < StepsLeft
<1>1. /\ LoopLeft \in Int /\ LoopLeft' \in Int /\ LoopLeft >= 0
      /\ LabelsLeft \in Int /\ LabelsLeft' \in Int
      /\ PartsLeft \in Int /\ PartsLeft' \in Int
  BY StepsTypes, StepsTypesNext
<1>2. ASSUME LoopLeft' <= LoopLeft, LabelsLeft' + PartsLeft' < LabelsLeft + PartsLeft
      PROVE  StepsLeft' < StepsLeft
  BY <1>1, <1>2, SumLess DEF StepsLeft
<1>3. CASE EngineStep /\ ~OperationDone
  <2>1. LoopLeft' <= LoopLeft
    BY <1>1, <1>3, LoopKept
  <2>. QED  BY <1>2, <1>3, <2>1, LabelPays
<1>4. CASE InRandom \/ InPlugin \/ InDriver
  <2>1. OpenLen' = OpenLen /\ PartsLeft' < PartsLeft
    BY <1>4, PartLess
  <2>2. pc' = pc /\ count' = count /\ kk' = kk
    BY <1>4 DEF InRandom, InPlugin, InDriver, engineVars, args, counters
  <2>3. LabelsLeft' = LabelsLeft /\ LoopLeft' = LoopLeft
    BY <2>1, <2>2 DEF LabelsLeft, LoopLeft
  <2>4. LabelsLeft + PartsLeft' < LabelsLeft + PartsLeft
    BY <1>1, <2>1, RightLess
  <2>. QED  BY <1>1, <1>2, <2>1, <2>3, <2>4
<1>. QED  BY <1>3, <1>4, OperationPays DEF Run, EngineStep

\* The benchmark runs no loop and no path of errors forever, whatever calls
\* fail and whatever the driver answers: every step of its thread uses up one
\* of at most 3 * count + 41 steps and one for each call of the open of the
\* driver, and the flushes of the library give it no new ones.
THEOREM BenchmarkBounded == Spec => []StepsInBound /\ StepsUsedUp
<1>1. Init => StepsInBound
  <2> SUFFICES ASSUME Init PROVE StepsInBound
    OBVIOUS
  <2>1. /\ pc = "start" /\ driverPc = "idle" /\ pluginPc = "idle" /\ randomPc = "idle"
    BY DEF Init, Begin, DriverInit, PluginInit, RandomInit
  <2>2. /\ LabelsLeft = 41 + OpenLen /\ LoopLeft = 3 * count
        /\ DriverLeft = 0 /\ PluginLeft = 0 /\ RandomLeft = 0
    BY <2>1 DEF LabelsLeft, LoopLeft, DriverLeft, PluginLeft, RandomLeft
  <2>3. OpenLen \in Nat /\ count \in Nat
    BY InitEInv, InitKInv, PartsTypes DEF KInv, ArgsInv
  <2>4. PartsLeft = 0 /\ StepsLeft = 3 * count + (41 + OpenLen) + 0
    BY <2>2 DEF PartsLeft, StepsLeft
  <2>. QED  BY <2>3, <2>4 DEF StepsInBound, StepsBound
<1>2. ASSUME EInv, KInv, EInv', KInv', LibraryFlush \/ UNCHANGED vars
      PROVE  OpenLen' = OpenLen /\ StepsLeft' = StepsLeft
  <2>1. /\ pc' = pc /\ count' = count /\ kk' = kk
        /\ UNCHANGED <<randomVars, pluginVars>> /\ (UNCHANGED driverVars \/ Flush)
    BY <1>2 DEF LibraryFlush, vars, engineVars, args, counters
  <2>2. /\ OpenLen' = OpenLen /\ DriverLeft' = DriverLeft
        /\ PluginLeft' = PluginLeft /\ RandomLeft' = RandomLeft
    BY <1>2, <2>1, DriverCalls, PluginCosts, RandomCosts DEF EInv
  <2>. QED  BY <2>1, <2>2 DEF StepsLeft, PartsLeft, LabelsLeft, LoopLeft
<1>3. EInv /\ KInv /\ (EInv /\ KInv)' /\ [Next]_vars
        => [IF Run THEN StepsLeft' < StepsLeft ELSE StepsLeft' = StepsLeft]_vars
  BY <1>2, RunLess DEF Next
<1>4. EInv /\ KInv /\ (EInv /\ KInv)' /\ [Next]_vars /\ StepsInBound => StepsInBound'
  <2> SUFFICES ASSUME EInv, KInv, EInv', KInv', [Next]_vars, StepsInBound
               PROVE  StepsInBound'
    OBVIOUS
  <2>1. OpenLen' = OpenLen /\ count' = count /\ StepsBound' = StepsBound
    BY <1>2, RunLess, NextFixed DEF Next, Fixed, StepsBound
  <2>2. StepsLeft' = StepsLeft \/ StepsLeft' < StepsLeft
    BY <1>2, RunLess DEF Next
  <2>3. /\ StepsLeft \in Nat /\ StepsLeft' \in Nat /\ StepsLeft <= StepsBound
        /\ StepsBound \in Nat
    <3>1. OpenLen \in Nat /\ count \in Nat
      BY PartsTypes DEF KInv, ArgsInv
    <3>. QED  BY <3>1, StepsTypes, StepsTypesNext DEF StepsInBound, StepsBound
  <2>. QED  BY <2>1, <2>2, <2>3 DEF StepsInBound
<1>. QED  BY <1>1, <1>3, <1>4, Invariants, PTL DEF Spec, StepsUsedUp

-----------------------------------------------------------------------------
(* The refinement. One step of the engine ends the run, one step of the     *)
(* driver or of the library saves keys or fails; all others stutter.        *)

LEMMA NoSaveAfterSuccess == ASSUME EInv, DbOpen \/ driverPc # "idle"  PROVE Status # "success"
<1>1. pc # "done" \/ rc # 0 \/ (Held = {} /\ driverPc = "idle")
  BY DEF EInv, PcD
<1>. QED  BY <1>1, NothingHeld DEF Status, Stopped, Missed

LEMMA InitRefines == ASSUME Init  PROVE Bench!Init
<1>1. bench \in {"get", "put"} /\ errs = {} /\ Status = "running" /\ Blind \in BOOLEAN
  BY EngineAssumption DEF Init, Begin, DriverInit, Status, Stopped, Blind
<1>. QED  BY <1>1 DEF Bench!Init, Failed, LongEnough

\* What the abstract benchmark calls its arguments.
LEMMA ArgumentsFixed ==
  ASSUME [Next]_vars
  PROVE  /\ bench' = bench /\ Wanted' = Wanted /\ LongEnough' = LongEnough
         /\ Blind' = Blind
  BY NextFixed DEF Fixed, Wanted, LongEnough, Blind

LEMMA EngineRefines ==
  ASSUME EInv, KInv, (EInv /\ KInv)', EngineStep \/ InRandom \/ InPlugin \/ UNCHANGED vars
  PROVE  [Bench!Next]_(Bench!benchVars)
<1>1. /\ bench' = bench /\ Wanted' = Wanted /\ LongEnough' = LongEnough
      /\ Blind' = Blind /\ saved' = saved /\ Failed' = Failed
  BY ArgumentsFixed, EngineKeepsKeys DEF EngineStep, Next, Run, Failed
<1>2. CASE Finish
  <2>1. Status = "running" /\ Status' = "success"
    BY <1>2 DEF Finish, Status, Stopped
  <2>2. (LongEnough /\ kk = count)'
    BY <1>2 DEF Finish, KInv, LoopInv
  <2>3. Failed \/ Bench!Refused = {}
    <3>1. (Wanted \subseteq DoneKeys)'
      BY <1>2, <2>2 DEF Finish, Wanted, DoneKeys, FirstKeys, Done, Answered
    <3>2. ~DbOpen'
      BY <1>2, NothingHeld, EngineKeepsKeys DEF Finish, EInv, PcD, ClosedLabels
    <3>3. CASE bench = "put"
      <4>1. (Failed \/ Wanted \subseteq saved)'
        BY <1>1, <3>1, <3>2, <3>3 DEF KInv, PutInv, Seen, Failed
      <4>. QED  BY <1>1, <3>3, <4>1 DEF Bench!Refused
    <3>4. CASE bench = "get"
      <4>1. (Failed \/ RefusedOf(DoneKeys) = {})'
        BY <1>1, <3>4 DEF KInv, GetInv, Failed
      <4>2. RefusedOf(DoneKeys)' = {} => Bench!Refused = {}
        BY <1>1, <3>1, <3>4 DEF RefusedOf, Bench!Refused
      <4>. QED  BY <1>1, <4>1, <4>2
    <3>. QED  BY <3>3, <3>4 DEF KInv, ArgsInv
  <2>. QED  BY <1>1, <2>1, <2>2, <2>3 DEF Bench!Next, Bench!Succeed
<1>3. CASE Status' = Status
  BY <1>1, <1>3 DEF Bench!benchVars
<1>4. CASE Status = "running" /\ Status' = "failure"
  BY <1>1, <1>4 DEF Bench!Next, Bench!Fail
<1>5. CASE SelectFailed
  <2>1. /\ pc = "called" /\ pc' = "done" /\ rc' = 1 /\ heap' = heap /\ driverRet' = driverRet
        /\ driverPc = "idle" /\ driverRet # 0 /\ bench = "get"
    BY <1>5 DEF SelectFailed, DriverReturned, driverVars
  <2>2. "hist" \in heap
    BY <2>1 DEF EInv, HInv
  <2>3. Status = "running" /\ Status' = "missed"
    BY <2>1, <2>2 DEF Status, Stopped, Missed
  <2>4. Failed \/ Bench!Refused # {}
    BY <2>1, KeyWanted DEF KInv, ReasonInv, Refused, RefusedOf, Failed, Bench!Refused
  <2>. QED  BY <1>1, <2>1, <2>3, <2>4 DEF Bench!Next, Bench!Miss
<1>6. CASE OutOfKeys
  <2>1. pc = "loop" /\ pc' = "done" /\ rc' = 1 /\ driverRet' = driverRet
    BY <1>6 DEF OutOfKeys, driverVars
  <2>2. driverRet = 0
    BY <2>1 DEF KInv, RetInv
  <2>. QED  BY <1>4, <2>1, <2>2 DEF Status, Stopped, Missed
<1>7. CASE Setup \/ CloseDatabase \/ DeleteHist \/ FreeBuffers
  BY <1>3, <1>7 DEF Status, Stopped, Setup, LoadPlugin, OpenDatabase, DatabaseOpened, MallocKey,
    MallocVal, RandomCreated, MallocHist, CloseDatabase, DeleteHist, FreeBuffers
<1>8. CASE CallDriver \/ OperationDone \/ ReplaceFailed \/ Dump
  BY <1>3, <1>4, <1>8 DEF Status, Stopped, CallDriver, OperationDone, ReplaceFailed, Dump
<1>9. CASE ErrorPath
  <2>1. pc = "error_1" => rc # 0 /\ ~Missed
    BY DEF EInv, HInv, KInv, RetInv, Missed
  <2>2. CASE Error1
    <3>1. pc = "error_1" /\ pc' = "done" /\ rc' = rc /\ Missed' = Missed
      BY <2>2 DEF Error1, Missed, driverVars
    <3>. QED  BY <1>4, <2>1, <3>1 DEF Status, Stopped
  <2>3. CASE Error6 \/ Error5 \/ Error4 \/ Error3 \/ Error2
    BY <1>3, <2>3 DEF Status, Stopped, Error6, Error5, Error4, Error3, Error2
  <2>. QED  BY <1>9, <2>2, <2>3 DEF ErrorPath
<1>10. CASE InRandom \/ InPlugin \/ UNCHANGED vars
  <2>1. pc' = pc /\ rc' = rc /\ Missed' = Missed
    BY <1>10 DEF InRandom, InPlugin, vars, engineVars, driverVars, Missed
  <2>. QED  BY <1>3, <2>1 DEF Status, Stopped
<1>. QED  BY <1>2, <1>5, <1>6, <1>7, <1>8, <1>9, <1>10 DEF EngineStep, Loop, End

\* Keys that come to the files are keys that the database was given, all of
\* them asked for.
LEMMA SaveRefines ==
  ASSUME EInv, KInv, [Next]_vars, Status' = Status, Failed' = Failed, Status # "success",
         DbOpen, saved' \subseteq stored, saved \subseteq saved' \/ bench = "get",
         bench = "get" => saved' = saved
  PROVE  [Bench!Next]_(Bench!benchVars)
<1>1. bench' = bench /\ Wanted' = Wanted /\ LongEnough' = LongEnough /\ Blind' = Blind
  BY ArgumentsFixed
<1>2. CASE bench = "get"
  BY <1>1, <1>2 DEF Bench!benchVars
<1>3. CASE bench = "put"
  <2>1. stored \subseteq saved \cup Wanted /\ saved \subseteq saved'
    BY <1>3 DEF KInv, PutInv
  <2>2. saved' = saved \cup (saved' \cap Wanted)
    BY <2>1
  <2>3. saved' \cap Wanted \in SUBSET Wanted
    OBVIOUS
  <2>. QED  BY <1>1, <1>3, <2>2, <2>3 DEF Bench!Next, Bench!Save
<1>. QED  BY <1>2, <1>3 DEF KInv, ArgsInv

LEMMA DriverRefines ==
  ASSUME EInv, KInv, InDriver
  PROVE  [Bench!Next]_(Bench!benchVars)
<1>1. /\ bench' = bench /\ Wanted' = Wanted /\ LongEnough' = LongEnough
      /\ Blind' = Blind /\ pc' = pc
  BY ArgumentsFixed DEF Next, Run, InDriver, engineVars
<1>2. Status' = Status /\ Status # "success" /\ Status = "running"
  <2>1. driverPc # "idle"
    BY DEF InDriver, DriverStep, CallSucceeds, CallFails, Release, Released,
      Replace, Select, Fetch, Remove, Operate
  <2>2. pc \notin {"done", "aborted"}
    BY <2>1 DEF EInv, PcD
  <2>. QED  BY <1>1, <2>2 DEF Status, Stopped
<1>3. CASE UNCHANGED <<saved, errs>>
  BY <1>1, <1>2, <1>3 DEF Bench!benchVars, Failed
<1>4. CASE saved' = saved /\ errs' # {}
  <2>1. Failed'
    BY <1>4 DEF Failed
  <2>2. CASE Failed
    BY <1>1, <1>2, <1>4, <2>1, <2>2 DEF Bench!benchVars, Failed
  <2>3. CASE ~Failed
    BY <1>1, <1>2, <1>4, <2>1, <2>3 DEF Bench!Next, Bench!Fault, Failed
  <2>. QED  BY <2>2, <2>3
<1>5. CASE saved' = stored /\ errs' = errs /\ DbOpen
  <2>1. [Next]_vars /\ Failed' = Failed
    BY <1>5 DEF Next, Run, Failed
  <2>2. (bench = "put" => saved \subseteq stored) /\ (bench = "get" => stored = saved)
        /\ bench \in {"get", "put"}
    BY <1>5 DEF KInv, PutInv, GetInv, ArgsInv
  <2>. QED  BY <1>1, <1>2, <1>5, <2>1, <2>2, SaveRefines
<1>6. CASE CallSucceeds \/ CallFails \/ Released
  BY <1>3, <1>6 DEF CallSucceeds, CallFails, Released
<1>7. CASE Release
  <2>1. ClosesDb \/ KeepsDb
    BY <1>7, OneRelease DEF EInv
  <2>. QED  BY <1>3, <1>4, <1>5, <2>1 DEF ClosesDb, KeepsDb
<1>8. CASE Replace \/ Select \/ Fetch \/ Remove
  <2>1. saved' = saved /\ (errs' = errs \/ errs' # {})
    BY <1>8 DEF Replace, Select, Fetch, Remove, Operate
  <2>. QED  BY <1>3, <1>4, <2>1
<1>. QED  BY <1>6, <1>7, <1>8 DEF InDriver, DriverStep

LEMMA FlushRefines ==
  ASSUME EInv, KInv, LibraryFlush
  PROVE  [Bench!Next]_(Bench!benchVars)
<1>1. /\ DbOpen /\ errs' = errs /\ driverRet' = driverRet
      /\ \/ \E k \in stored \ saved : saved' = saved \cup {k}
         \/ \E k \in saved \ stored : saved' = saved \ {k}
  BY DEF LibraryFlush, Flush
<1>2. [Next]_vars /\ Failed' = Failed /\ Status' = Status /\ Status # "success"
  BY <1>1, NoSaveAfterSuccess DEF Next, LibraryFlush, engineVars, Failed, Status,
    Stopped, Missed
<1>3. /\ bench \in {"get", "put"}
      /\ bench = "put" => saved \subseteq stored
      /\ bench = "get" => stored = saved
  BY <1>1 DEF KInv, ArgsInv, PutInv, GetInv
<1>4. saved \subseteq saved' /\ saved' \subseteq stored /\ bench = "put"
  BY <1>1, <1>3
<1>. QED  BY <1>1, <1>2, <1>4, SaveRefines

\* nb_engine_run keeps the promises of Benchmark.tla, with all of its
\* resources, its calls and the failures of each of them.
THEOREM BenchmarkImplemented == Spec => ImplementsBenchmark
<1>1. EInv /\ KInv /\ (EInv /\ KInv)' /\ [Next]_vars => [Bench!Next]_(Bench!benchVars)
  BY EngineRefines, DriverRefines, FlushRefines DEF Next, Run, EngineStep
<1>. QED  BY <1>1, InitRefines, Invariants, PTL DEF Spec, ImplementsBenchmark, Bench!Spec
=============================================================================
