--------------------------- MODULE NbEngineProofs ---------------------------
(***************************************************************************)
(* Proofs about nb_engine_run, for every driver, every file, every content *)
(* of the database and every count and length of the options: the shared   *)
(* object of a driver outlives the database, a run that returns gives      *)
(* everything back, and the counters and the cursor agree. The inductive   *)
(* invariant EInv has a part for each component that holds resources       *)
(* (DriverInv, PInv, FInv), the parts that tie them to the labels of the   *)
(* engine (PcD, PcP, PcF), one for the buffers and one for the counters.   *)
(***************************************************************************)
EXTENDS NbEngine, NbDriverSteps

-----------------------------------------------------------------------------
(* What the engine knows of the driver at each label                       *)

\* Where the database is open, and where nothing is held.
OpenLabels ==
  {"keybuf", "valbuf", "random", "hist", "loop", "called", "close", "aborted",
   "error_3", "error_4", "error_5", "error_6"}
ClosedLabels == {"start", "loading", "free_bufs", "unload", "error_1"}

PcD ==
  /\ pc \in Labels
  /\ pc \notin {"opening", "called", "delete_hist", "error_2"} => driverPc = "idle"
  /\ pc = "opening" => driverPc \in {"open", "release", "idle"}
  /\ pc = "called" => driverPc \in {"replace", "select", "idle"}
  /\ pc \in {"delete_hist", "error_2"} => driverPc \in {"release", "idle"}
  /\ pc = "opening" /\ driverPc = "release" => driverRet # 0
  /\ pc \in ClosedLabels => Held = {}
  /\ pc \in {"delete_hist", "error_2"} /\ driverPc = "idle" => Held = {}
  /\ pc = "opening" /\ driverPc = "idle" =>
       IF driverRet = 0 THEN DbOpen ELSE Held = {}
  /\ pc \in OpenLabels => DbOpen
  /\ pc = "done" => Held = {} \/ (rc = 1 /\ "hist" \in heap /\ DbOpen)

LEMMA NothingHeld == Held = {} => ~DbOpen
  BY DEF Held, Handles, DbOpen

(* The calls of the engine.                                                *)
LEMMA CallsDriver ==
  ASSUME DriverInv
  PROVE  /\ driverPc = "idle" /\ Held = {} /\ CallOpen =>
              DriverInv' /\ ~DbOpen' /\ Held' = Held /\ driverPc' = "open"
         /\ driverPc = "idle" /\ DbOpen /\ CallClose =>
              DriverInv' /\ DbOpen' /\ Held' = Held /\ driverPc' = "release"
         /\ \A k : driverPc = "idle" /\ DbOpen /\ (CallReplace(k) \/ CallSelect(k)) =>
              /\ DriverInv' /\ DbOpen' /\ Held' = Held
              /\ driverPc' \in {"replace", "select"}
         /\ UNCHANGED driverVars \/ Flush =>
              /\ DriverInv' /\ DbOpen' = DbOpen /\ Held' = Held
              /\ driverPc' = driverPc /\ driverRet' = driverRet
<1>1. driverPc = "idle" /\ Held = {} /\ CallOpen =>
        DriverInv' /\ ~DbOpen' /\ Held' = Held /\ driverPc' = "open"
  <2>1. CallOpen => Held' = Held /\ driverPc' = "open"
    BY DEF CallOpen, Held
  <2>. QED  BY <2>1, OpenBegins, NothingHeld DEF DriverReturned
<1>2. driverPc = "idle" /\ DbOpen /\ CallClose =>
        DriverInv' /\ DbOpen' /\ Held' = Held /\ driverPc' = "release"
  <2>1. CallClose => Held' = Held /\ driverPc' = "release"
    BY DEF CallClose, Held
  <2>. QED  BY <2>1, CloseBegins DEF DriverReturned
<1>3. ASSUME NEW k, driverPc = "idle", DbOpen, CallReplace(k) \/ CallSelect(k)
      PROVE  /\ DriverInv' /\ DbOpen' /\ Held' = Held
             /\ driverPc' \in {"replace", "select"}
  <2>1. Held' = Held /\ driverPc' \in {"replace", "select"}
    BY <1>3 DEF CallReplace, CallSelect, CallOn, Held
  <2>. QED
    BY <1>3, <2>1, OperationBegins DEF DriverReturned, CallReplace, CallSelect, Operations
<1>4. UNCHANGED driverVars =>
        /\ DriverInv' /\ DbOpen' = DbOpen /\ Held' = Held
        /\ driverPc' = driverPc /\ driverRet' = driverRet
  BY UnchangedKeeps DEF driverVars, DriverInv, Held
<1>5. Flush =>
        /\ DriverInv' /\ DbOpen' = DbOpen /\ Held' = Held
        /\ driverPc' = driverPc /\ driverRet' = driverRet
  BY FlushKeeps DEF Held
<1>. QED  BY <1>1, <1>2, <1>3, <1>4, <1>5

-----------------------------------------------------------------------------
(* The buffers and the result                                              *)

HInv ==
  /\ pc \in Labels
  /\ pc \in {"start", "loading", "opening", "keybuf", "unload"} => heap = {}
  /\ pc = "valbuf" => heap = {"key"}
  /\ pc \in {"random", "hist", "error_6", "free_bufs"} => heap = {"key", "val"}
  /\ pc \in {"loop", "called", "close", "delete_hist"} => heap = {"key", "val", "hist"}
  /\ pc = "error_5" => heap \ {"hist"} = {"key", "val"}
  /\ pc = "error_4" => heap \ {"hist"} = {"key"}
  /\ pc \in {"error_1", "error_2", "error_3"} => heap \subseteq {"hist"}
  /\ pc = "done" /\ (rc = 0 \/ "hist" \notin heap) => heap = {}
  /\ rc \in 0 .. 2
  /\ pc = "loading" => rc = 1
  /\ pc = "error_1" => rc # 0
  /\ pc \notin {"start", "loading", "error_1", "done"} => rc = 2

LEMMA NextHInv == HInv /\ [Next]_vars => HInv'
<1> SUFFICES ASSUME HInv, [Next]_vars PROVE HInv'
  OBVIOUS
<1>1. CASE Setup
  BY <1>1 DEF HInv, Labels, Setup, LoadPlugin, OpenDatabase, DatabaseOpened, MallocKey,
    MallocVal, RandomCreated, MallocHist
<1>2. CASE Loop
  BY <1>2 DEF HInv, Labels, Loop, OutOfKeys, CallDriver, OperationDone, SelectFailed,
    ReplaceFailed
<1>3. CASE End
  BY <1>3 DEF HInv, Labels, End, Dump, CloseDatabase, DeleteHist, FreeBuffers, Finish
<1>4. CASE ErrorPath
  BY <1>4 DEF HInv, Labels, ErrorPath, Error6, Error5, Error4, Error3, Error2, Error1
<1>5. CASE UNCHANGED engineVars
  BY <1>5 DEF HInv, engineVars
<1>6. InRandom \/ InPlugin \/ InDriver \/ LibraryFlush \/ UNCHANGED vars
        => UNCHANGED engineVars
  BY DEF InRandom, InPlugin, InDriver, LibraryFlush, vars
<1>. QED  BY <1>1, <1>2, <1>3, <1>4, <1>5, <1>6 DEF Next, Run

-----------------------------------------------------------------------------
(* The driver at each label of the engine                                  *)

LEMMA NextDriver ==
  ASSUME DriverInv, PcD, HInv, [Next]_vars
  PROVE  DriverInv' /\ PcD'
<1>. USE DEF DriverReturned, OpenLabels, ClosedLabels
<1>1. CASE Setup
  BY <1>1, CallsDriver DEF PcD, Labels, Setup, LoadPlugin, OpenDatabase, DatabaseOpened,
    MallocKey, MallocVal, RandomCreated, MallocHist
<1>2. CASE Loop
  BY <1>2, CallsDriver DEF PcD, HInv, Labels, Loop, OutOfKeys, CallDriver, OperationDone,
    SelectFailed, ReplaceFailed
<1>3. CASE End
  BY <1>3, CallsDriver DEF PcD, Labels, End, Dump, CloseDatabase, DeleteHist, FreeBuffers,
    Finish
<1>4. CASE ErrorPath
  BY <1>4, CallsDriver DEF PcD, Labels, ErrorPath, Error6, Error5, Error4, Error3, Error2,
    Error1
<1>5. CASE InRandom \/ InPlugin \/ UNCHANGED vars
  BY <1>5, CallsDriver DEF PcD, InRandom, InPlugin, vars, engineVars
<1>6. CASE LibraryFlush
  BY <1>6, CallsDriver DEF PcD, LibraryFlush, engineVars
<1>7. CASE InDriver
  <2>1. pc' = pc /\ rc' = rc /\ heap' = heap
    BY <1>7 DEF InDriver, engineVars
  <2>2. CASE CallSucceeds
    <3>1. driverPc = "open" /\ (driverPc' = "open" \/ (driverPc' = "idle" /\ driverRet' = 0))
      BY <2>2 DEF CallSucceeds, Returns
    <3>. QED  BY <2>1, <2>2, <3>1, OneMoreCall DEF PcD
  <2>3. CASE CallFails
    <3>1. driverPc = "open" /\ driverPc' = "release" /\ driverRet' # 0
      BY <2>3 DEF CallFails
    <3>. QED  BY <2>1, <2>3, <3>1, OneCallFails DEF PcD
  <2>4. CASE Release
    <3>1. driverPc = "release" /\ driverPc' = "release" /\ driverRet' = driverRet
      BY <2>4 DEF Release
    <3>. QED  BY <2>1, <2>4, <3>1, OneRelease DEF PcD
  <2>5. CASE Released
    <3>1. driverPc = "release" /\ driverPc' = "idle"
      BY <2>5 DEF Released
    <3>. QED  BY <2>1, <2>5, <3>1, LastRelease DEF PcD
  <2>6. CASE Replace \/ Select \/ Fetch \/ Remove
    <3>1. PICK call \in Operations : \E r : Operate(call, r)
      BY <2>6 DEF Replace, Select, Fetch, Remove, Operations
    <3>2. DriverInv' /\ DbOpen /\ DbOpen' /\ driverPc = call /\ driverPc' = "idle"
      BY <3>1, OneOperation
    <3>3. pc = "called"
      BY <3>2 DEF PcD, Operations, Labels
    <3>. QED  BY <2>1, <3>2, <3>3 DEF PcD
  <2>. QED  BY <1>7, <2>2, <2>3, <2>4, <2>5, <2>6 DEF InDriver, DriverStep
<1>. QED  BY <1>1, <1>2, <1>3, <1>4, <1>5, <1>6, <1>7 DEF Next, Run

-----------------------------------------------------------------------------
(* The shared object                                                       *)

Loaded == Labels \ {"start", "loading", "unload", "error_1", "done"}

\* What is held between two calls, and inside of a load or an unload.
PInv ==
  /\ pluginPc \in {"idle", "malloc", "dlopen", "dlsym", "check", "dlclose", "free"}
  /\ pluginPc = "idle" => (plugin <=> loaded) /\ (handle <=> loaded)
  /\ pluginPc \in {"malloc", "dlopen", "free"} => ~handle
  /\ pluginPc \in {"dlopen", "dlsym", "check"} => plugin
  /\ pluginPc = "malloc" => ~plugin
  /\ pluginPc \in {"dlsym", "check"} => handle
  /\ pluginPc # "idle" => ~loaded

\* What the engine knows of it at each label.
PcP ==
  /\ pc \in Labels
  /\ pc \notin {"loading", "unload", "error_1"} => pluginPc = "idle"
  /\ pluginPc \in {"malloc", "dlopen", "dlsym", "check"} => pc = "loading"
  /\ pc \in {"start", "unload", "error_1"} => ~loaded
  /\ pc \in Loaded => loaded
  /\ pc = "done" /\ (rc = 0 \/ "hist" \notin heap) => ~loaded
  /\ pc = "done" /\ Held # {} => loaded

(* The steps inside of a load or an unload: a load returns from "check" or  *)
(* at an error, an unload leaves nothing.                                  *)
LEMMA PluginStepPInv ==
  ASSUME PInv, PluginStep
  PROVE  /\ PInv'
         /\ pluginPc # "idle"
         /\ pluginPc \in {"malloc", "dlopen", "dlsym", "check"}
              \/ (pluginPc' \in {"free", "idle"} /\ ~loaded')
<1>1. CASE MallocPlugin
  BY <1>1 DEF PInv, MallocPlugin
<1>2. CASE Dlopen
  BY <1>2 DEF PInv, Dlopen
<1>3. CASE Dlsym
  BY <1>3 DEF PInv, Dlsym
<1>4. CASE CheckName
  BY <1>4 DEF PInv, CheckName
<1>5. CASE Dlclose
  BY <1>5 DEF PInv, Dlclose
<1>6. CASE FreePlugin
  BY <1>6 DEF PInv, FreePlugin
<1>. QED  BY <1>1, <1>2, <1>3, <1>4, <1>5, <1>6 DEF PluginStep

(* What a step of the engine does to the plugin.                           *)
LEMMA PluginCalls ==
  ASSUME PInv
  PROVE  /\ UNCHANGED pluginVars =>
              PInv' /\ pluginPc' = pluginPc /\ (loaded' <=> loaded)
         /\ ~loaded /\ pluginPc = "idle" /\ CallLoad =>
              PInv' /\ pluginPc' = "malloc" /\ ~loaded'
         /\ CallUnload => PInv' /\ pluginPc' = "dlclose" /\ ~loaded'
<1>1. UNCHANGED pluginVars => PInv' /\ pluginPc' = pluginPc /\ (loaded' <=> loaded)
  BY DEF PInv, pluginVars
<1>2. ~loaded /\ pluginPc = "idle" /\ CallLoad =>
        PInv' /\ pluginPc' = "malloc" /\ ~loaded'
  BY DEF PInv, CallLoad
<1>3. CallUnload => PInv' /\ pluginPc' = "dlclose" /\ ~loaded'
  BY DEF PInv, CallUnload
<1>. QED  BY <1>1, <1>2, <1>3

LEMMA NextPlugin == PInv /\ PcP /\ DriverInv /\ PcD /\ HInv /\ [Next]_vars => PInv' /\ PcP'
<1> SUFFICES ASSUME PInv, PcP, DriverInv, PcD, HInv, [Next]_vars PROVE PInv' /\ PcP'
  OBVIOUS
<1>. USE DEF PluginReturned, Loaded
<1>1. CASE Setup
  BY <1>1, PluginCalls DEF PcP, Labels, Setup, LoadPlugin, OpenDatabase, DatabaseOpened,
    MallocKey, MallocVal, RandomCreated, MallocHist
<1>2. CASE Loop
  BY <1>2, PluginCalls DEF PcP, HInv, Labels, Loop, OutOfKeys, CallDriver, OperationDone,
    SelectFailed, ReplaceFailed
<1>3. CASE End
  <2>1. CASE Dump \/ CloseDatabase \/ DeleteHist \/ FreeBuffers
    BY <2>1, PluginCalls DEF PcP, Labels, Dump, CloseDatabase, DeleteHist, FreeBuffers
  <2>2. CASE Finish
    <3>1. Held' = {}
      BY <2>2, CallsDriver DEF PcD, Finish, ClosedLabels
    <3>. QED  BY <2>2, <3>1, PluginCalls DEF PcP, Labels, Finish
  <2>. QED  BY <1>3, <2>1, <2>2 DEF End
<1>4. CASE ErrorPath
  <2>1. CASE Error6 \/ Error5 \/ Error4 \/ Error3 \/ Error2
    BY <2>1, PluginCalls DEF PcP, Labels, Error6, Error5, Error4, Error3, Error2
  <2>2. CASE Error1
    <3>1. Held' = {}
      BY <2>2, CallsDriver DEF PcD, Error1, ClosedLabels
    <3>. QED  BY <2>2, <3>1, PluginCalls DEF PcP, Labels, Error1
  <2>. QED  BY <1>4, <2>1, <2>2 DEF ErrorPath
<1>5. CASE InPlugin
  <2>1. pc' = pc /\ rc' = rc /\ heap' = heap /\ Held' = Held
    BY <1>5, CallsDriver DEF InPlugin, engineVars
  <2>. QED  BY <1>5, <2>1, PluginStepPInv DEF InPlugin, PcP
<1>6. CASE InDriver
  <2>1. pc' = pc /\ rc' = rc /\ heap' = heap /\ UNCHANGED pluginVars
    BY <1>6 DEF InDriver, engineVars
  <2>2. driverPc # "idle"
    BY <1>6 DEF InDriver, DriverStep, CallSucceeds, CallFails, Release, Released,
      Replace, Select, Fetch, Remove, Operate
  <2>3. pc # "done"
    BY <2>2 DEF PcD
  <2>. QED  BY <2>1, <2>3, PluginCalls DEF PcP
<1>7. CASE InRandom \/ LibraryFlush \/ UNCHANGED vars
  <2>1. /\ UNCHANGED pluginVars /\ Held' = Held
        /\ pc' = pc /\ rc' = rc /\ heap' = heap
    BY <1>7, CallsDriver DEF InRandom, LibraryFlush, vars, engineVars
  <2>. QED  BY <2>1, PluginCalls DEF PcP
<1>. QED  BY <1>1, <1>2, <1>3, <1>4, <1>5, <1>6, <1>7 DEF Next, Run

-----------------------------------------------------------------------------
(* The file of keys                                                        *)

\* Only a munmap that fails keeps the file open.
Closed == fd => ret = -1

FInv ==
  /\ randomPc \in {"idle", "opening", "closing"}
  /\ randomPc = "idle" => io = "idle"
  /\ randomPc = "opening" => io \in {"idle", "open", "fstat", "mmap", "undo"}
  /\ randomPc = "closing" => io \in {"idle", "munmap", "close"}
  /\ io = "open" => ~fd
  /\ io = "undo" => ret # 0
  /\ randomPc = "opening" /\ io = "idle" /\ ret # 0 => ~fd
  /\ randomPc = "closing" /\ io = "idle" => Closed

\* What the engine knows of it at each label. A failed replace leaves the
\* file open, with the histogram allocated.
PcF ==
  /\ pc \in Labels
  /\ randomPc = "opening" => pc = "random"
  /\ randomPc = "closing" => pc \in {"random", "error_5", "free_bufs"}
  /\ pc \in {"start", "loading", "opening", "keybuf", "valbuf"} => ~fd
  /\ pc = "random" /\ randomPc = "idle" => randomRet = 0 \/ Closed
  /\ /\ pc \in {"free_bufs", "unload", "done"}
            \cup {"error_1", "error_2", "error_3", "error_4", "error_5"}
     /\ randomPc = "idle" /\ "hist" \notin heap
     => Closed

(* The steps of the system calls.                                          *)
LEMMA FileStepFInv ==
  ASSUME FInv, InKeyFile
  PROVE  FInv' /\ randomPc # "idle" /\ randomPc' = randomPc
<1>1. randomPc' = randomPc
  BY DEF InKeyFile, readerVars
<1>2. CASE Open
  BY <1>1, <1>2 DEF FInv, Closed, Open, Return
<1>3. CASE Fstat
  BY <1>1, <1>3 DEF FInv, Closed, Fstat
<1>4. CASE Mmap
  BY <1>1, <1>4 DEF FInv, Closed, Mmap, Return
<1>5. CASE UndoOpen
  BY <1>1, <1>5 DEF FInv, Closed, UndoOpen
<1>6. CASE Munmap
  BY <1>1, <1>6 DEF FInv, Closed, Munmap, Return
<1>7. CASE Close
  BY <1>1, <1>7 DEF FInv, Closed, Close, Return
<1>. QED  BY <1>2, <1>3, <1>4, <1>5, <1>6, <1>7 DEF InKeyFile, FileStep

(* An open that fails and a destroy return with the file closed.           *)
LEMMA RandomStepFInv ==
  ASSUME FInv, RandomStep
  PROVE  /\ FInv'
         /\ randomPc # "idle"
         /\ randomPc' = "opening" => randomPc = "opening"
         /\ randomPc' = "idle" => Closed' \/ (randomPc = "opening" /\ randomRet' = 0)
<1>1. CASE CreateFailed
  BY <1>1 DEF FInv, Closed, CreateFailed, FileReturned, fileVars
<1>2. CASE Madvise
  BY <1>2 DEF FInv, Closed, Madvise, FileReturned, CallCloseFile, fileVars
<1>3. CASE FileClosed
  BY <1>3 DEF FInv, Closed, FileClosed, FileReturned, fileVars
<1>4. CASE InKeyFile
  BY <1>4, FileStepFInv
<1>. QED  BY <1>1, <1>2, <1>3, <1>4 DEF RandomStep

(* What a step of the engine does to the file of keys.                     *)
LEMMA RandomCalls ==
  ASSUME FInv
  PROVE  /\ \A l : UNCHANGED randomVars \/ Advance(l) =>
              /\ FInv' /\ randomPc' = randomPc /\ randomRet' = randomRet
              /\ (fd' <=> fd) /\ (Closed' <=> Closed)
         /\ ~fd /\ CallCreate => FInv' /\ randomPc' = "opening"
         /\ CallDestroy => FInv' /\ randomPc' = "closing"
<1>1. ASSUME NEW l, UNCHANGED randomVars \/ Advance(l)
      PROVE  /\ FInv' /\ randomPc' = randomPc /\ randomRet' = randomRet
             /\ (fd' <=> fd) /\ (Closed' <=> Closed)
  BY <1>1 DEF FInv, Closed, randomVars, readerVars, fileVars, Advance
<1>2. ~fd /\ CallCreate => FInv' /\ randomPc' = "opening"
  BY DEF FInv, Closed, CallCreate, CallOpenFile
<1>3. CallDestroy => FInv' /\ randomPc' = "closing"
  BY DEF FInv, Closed, CallDestroy, CallCloseFile
<1>. QED  BY <1>1, <1>2, <1>3

LEMMA NextFile == FInv /\ PcF /\ HInv /\ [Next]_vars => FInv' /\ PcF'
<1> SUFFICES ASSUME FInv, PcF, HInv, [Next]_vars PROVE FInv' /\ PcF'
  OBVIOUS
<1>. USE DEF RandomReturned
<1>1. CASE Setup
  <2>1. ~fd => Closed
    BY DEF Closed
  <2>2. CASE LoadPlugin \/ OpenDatabase \/ DatabaseOpened \/ MallocKey
    BY <2>1, <2>2, RandomCalls DEF PcF, Labels, LoadPlugin, OpenDatabase, DatabaseOpened,
      MallocKey
  <2>3. CASE MallocVal
    BY <2>1, <2>3, RandomCalls DEF PcF, Labels, MallocVal
  <2>4. CASE RandomCreated \/ MallocHist
    BY <2>4, RandomCalls DEF PcF, Labels, RandomCreated, MallocHist
  <2>. QED  BY <1>1, <2>2, <2>3, <2>4 DEF Setup
<1>2. CASE Loop
  BY <1>2, RandomCalls DEF PcF, HInv, Labels, Loop, OutOfKeys, CallDriver,
    OperationDone, SelectFailed, ReplaceFailed
<1>3. CASE End
  <2>1. CASE Dump \/ CloseDatabase
    BY <2>1, RandomCalls DEF PcF, Labels, Dump, CloseDatabase
  <2>2. CASE DeleteHist
    BY <2>2, RandomCalls DEF PcF, Labels, DeleteHist
  <2>3. CASE FreeBuffers \/ Finish
    BY <2>3, RandomCalls DEF PcF, HInv, Labels, FreeBuffers, Finish
  <2>. QED  BY <1>3, <2>1, <2>2, <2>3 DEF End
<1>4. CASE ErrorPath
  BY <1>4, RandomCalls DEF PcF, HInv, Labels, ErrorPath, Error6, Error5, Error4, Error3,
    Error2, Error1
<1>5. CASE InRandom
  <2>1. pc' = pc /\ heap' = heap
    BY <1>5 DEF InRandom, engineVars
  <2>2. pc \in {"random", "error_5", "free_bufs"}
    BY <1>5, RandomStepFInv DEF InRandom, PcF, FInv
  <2>. QED  BY <1>5, <2>1, <2>2, RandomStepFInv DEF InRandom, PcF, FInv
<1>6. CASE InPlugin \/ InDriver \/ LibraryFlush \/ UNCHANGED vars
  <2>1. UNCHANGED randomVars /\ pc' = pc /\ heap' = heap
    BY <1>6 DEF InPlugin, InDriver, LibraryFlush, vars, engineVars
  <2>. QED  BY <2>1, RandomCalls DEF PcF
<1>. QED  BY <1>1, <1>2, <1>3, <1>4, <1>5, <1>6 DEF Next, Run

-----------------------------------------------------------------------------
(* The counters of the loop and the cursor in the file                     *)

CTypes ==
  /\ kk \in Nat /\ prev \in Nat /\ total \in Nat /\ recorded \in Nat /\ reports \in Nat
  /\ interval \in Nat /\ klen \in 0 .. Word - 1 /\ size \in Nat
  /\ cur \in Nat /\ Word \in Nat /\ 2 * size < Word

\* The sums do not wrap: the first key lies in the file, and with it the
\* length of a key is below half of the word.
Cursor ==
  /\ pc \in {"start", "loading", "opening", "keybuf", "valbuf", "random", "hist"} => kk = 0
  /\ pc \in {"random", "hist"} => cur = 0
  /\ pc = "loop" => cur = kk * klen /\ cur <= size /\ (kk # 0 => cur < size /\ klen < size)
  /\ pc = "called" => cur = (kk + 1) * klen /\ cur < size /\ klen < size

CInv == pc \in Labels /\ CTypes /\ OperationsAccounted /\ Cursor

LEMMA CallDriverCInv == CInv /\ CallDriver => CInv'
<1> SUFFICES ASSUME CInv, CallDriver PROVE CInv'
  OBVIOUS
<1>1. /\ kk' = kk /\ prev' = prev /\ total' = total /\ recorded' = recorded
      /\ reports' = reports /\ interval' = interval /\ klen' = klen /\ size' = size
      /\ pc = "loop" /\ pc' = "called"
      /\ cur' = (cur + klen) % Word /\ (cur + klen) % Word < size
  BY DEF CallDriver, NoMoreKeys, Advance, args, counters, fileVars, CInv, CTypes
<1>2. /\ kk \in Nat /\ klen \in 0 .. Word - 1 /\ size \in Nat /\ cur \in Nat
      /\ Word \in Nat /\ 2 * size < Word
      /\ cur = kk * klen /\ cur <= size /\ (kk # 0 => klen < size)
  BY <1>1 DEF CInv, CTypes, Cursor
<1>3. kk = 0 => cur = 0
  BY <1>2
<1>4. cur + klen \in 0 .. Word - 1
  <2>1. CASE kk = 0
    BY <1>2, <1>3, <2>1
  <2>2. CASE kk # 0
    BY <1>2, <2>2
  <2>. QED  BY <2>1, <2>2
<1>5. (cur + klen) % Word = cur + klen
  BY <1>2, <1>4
<1>6. cur' = cur + klen /\ cur' < size /\ klen < size
  BY <1>1, <1>2, <1>5
<1>7. kk * klen + klen = (kk + 1) * klen
  BY <1>2
<1>8. cur' = (kk + 1) * klen
  BY <1>2, <1>6, <1>7
<1>9. CTypes'
  BY <1>1, <1>2, <1>6 DEF CInv, CTypes
<1>10. OperationsAccounted'
  BY <1>1 DEF CInv, OperationsAccounted
<1>11. Cursor'
  BY <1>1, <1>2, <1>6, <1>8 DEF Cursor
<1>. QED  BY <1>1, <1>9, <1>10, <1>11 DEF CInv, Labels

(* One more operation: a line is printed when prev would reach interval.   *)
LEMMA OperationDoneCInv == CInv /\ OperationDone => CInv'
<1> SUFFICES ASSUME CInv, OperationDone PROVE CInv'
  OBVIOUS
<1>1. /\ kk' = kk + 1 /\ total' = total + 1 /\ recorded' = recorded + 1
      /\ interval' = interval /\ klen' = klen /\ size' = size /\ cur' = cur
      /\ pc = "called" /\ pc' = "loop"
      /\ IF prev + 1 < interval THEN prev' = prev + 1 /\ reports' = reports
                                ELSE prev' = 0 /\ reports' = reports + 1
  BY DEF OperationDone, args, randomVars, fileVars, readerVars
<1>2. CTypes
  BY DEF CInv
<1>3. CTypes'
  BY <1>1, <1>2 DEF CTypes
<1>4. /\ recorded = kk /\ total = kk
      /\ IF interval = 0 THEN reports = total /\ prev = 0
                         ELSE prev < interval /\ total = reports * interval + prev
  BY DEF CInv, OperationsAccounted
<1>5. (reports + 1) * interval = reports * interval + interval
  BY <1>2 DEF CTypes
<1>6. interval # 0 => prev' < interval /\ total + 1 = reports' * interval + prev'
  <2>1. CASE prev + 1 < interval
    BY <1>1, <1>2, <1>4, <2>1 DEF CTypes
  <2>2. CASE ~(prev + 1 < interval)
    <3>. SUFFICES ASSUME interval # 0
                  PROVE  prev' < interval /\ total + 1 = reports' * interval + prev'
      OBVIOUS
    <3>1. prev + 1 = interval /\ prev' = 0 /\ reports' = reports + 1
      BY <1>1, <1>2, <1>4, <2>2 DEF CTypes
    <3>2. total + 1 = reports * interval + interval
      BY <1>2, <1>4, <3>1 DEF CTypes
    <3>3. reports' * interval + prev' = reports * interval + interval
      BY <1>2, <1>5, <3>1 DEF CTypes
    <3>. QED  BY <1>2, <3>1, <3>2, <3>3 DEF CTypes
  <2>. QED  BY <2>1, <2>2
<1>7. interval = 0 => reports' = total + 1 /\ prev' = 0
  BY <1>1, <1>2, <1>4 DEF CTypes
<1>8. OperationsAccounted'
  BY <1>1, <1>4, <1>6, <1>7 DEF OperationsAccounted
<1>9. Cursor'
  BY <1>1, <1>2 DEF CInv, CTypes, Cursor
<1>. QED  BY <1>1, <1>3, <1>8, <1>9 DEF CInv, Labels

(* What the other steps keep. Only a create sets the cursor.               *)
Kept == UNCHANGED <<args, counters, size>>

LEMMA KeptCInv ==
  ASSUME CInv, Kept, pc' \in Labels,
         cur' = cur \/ (pc' = "random" /\ cur' = 0 /\ kk = 0),
         pc' \in {"loading", "opening", "keybuf", "valbuf"} => kk = 0,
         pc' = "random" => kk = 0 /\ cur' = 0,
         pc' = "hist" => kk = 0 /\ cur = 0,
         pc' = "loop" => (kk = 0 /\ cur = 0) \/ pc = "loop",
         pc' \in {"start", "called"} => pc' = pc
  PROVE  CInv'
<1>1. /\ kk' = kk /\ prev' = prev /\ total' = total /\ recorded' = recorded
      /\ reports' = reports /\ interval' = interval /\ klen' = klen /\ size' = size
  BY DEF Kept, args, counters
<1>2. CTypes'
  BY <1>1 DEF CInv, CTypes
<1>3. OperationsAccounted'
  BY <1>1 DEF CInv, OperationsAccounted
<1>4. kk = 0 => kk * klen = 0
  BY DEF CInv, CTypes
<1>5. size \in Nat
  BY DEF CInv, CTypes
<1>6. Cursor'
  BY <1>1, <1>4, <1>5 DEF CInv, Cursor
<1>. QED  BY <1>2, <1>3, <1>6 DEF CInv

LEMMA NextCInv == CInv /\ [Next]_vars => CInv'
<1> SUFFICES ASSUME CInv, [Next]_vars PROVE CInv'
  OBVIOUS
<1>. USE DEF Kept, CInv, Cursor, Labels
<1>0. UNCHANGED randomVars => size' = size /\ cur' = cur
  BY DEF randomVars, fileVars, readerVars
<1>1. CASE CallDriver
  BY <1>1, CallDriverCInv
<1>2. CASE OperationDone
  BY <1>2, OperationDoneCInv
<1>3. CASE Setup
  <2>1. CASE MallocVal
    <3>1. CallCreate => size' = size /\ cur' = 0
      BY DEF CallCreate, CallOpenFile
    <3>. QED  BY <1>0, <2>1, <3>1, KeptCInv DEF MallocVal
  <2>2. CASE LoadPlugin \/ OpenDatabase \/ DatabaseOpened \/ MallocKey
    BY <1>0, <2>2, KeptCInv DEF LoadPlugin, OpenDatabase, DatabaseOpened, MallocKey
  <2>3. CASE RandomCreated \/ MallocHist
    BY <1>0, <2>3, KeptCInv DEF RandomCreated, MallocHist
  <2>. QED  BY <1>3, <2>1, <2>2, <2>3 DEF Setup
<1>4. CASE OutOfKeys \/ SelectFailed \/ ReplaceFailed
  BY <1>0, <1>4, KeptCInv DEF OutOfKeys, SelectFailed, ReplaceFailed
<1>5. CallDestroy => size' = size /\ cur' = cur
  BY DEF CallDestroy, CallCloseFile
<1>6. CASE End
  BY <1>0, <1>5, <1>6, KeptCInv DEF End, Dump, CloseDatabase, DeleteHist, FreeBuffers,
    Finish
<1>7. CASE ErrorPath
  BY <1>0, <1>5, <1>7, KeptCInv DEF ErrorPath, Error6, Error5, Error4, Error3, Error2,
    Error1
<1>8. CASE InRandom
  <2>1. size' = size /\ cur' = cur
    BY <1>8 DEF InRandom, RandomStep, CreateFailed, Madvise, FileClosed, InKeyFile,
      FileStep, Open, Fstat, Mmap, UndoOpen, Munmap, Close, CallCloseFile, fileVars,
      readerVars
  <2>2. pc' = pc /\ UNCHANGED <<args, counters>>
    BY <1>8 DEF InRandom, engineVars
  <2>. QED  BY <2>1, <2>2, KeptCInv
<1>9. CASE InPlugin \/ InDriver \/ LibraryFlush \/ UNCHANGED vars
  <2>1. pc' = pc /\ UNCHANGED <<args, counters>> /\ UNCHANGED randomVars
    BY <1>9 DEF InPlugin, InDriver, LibraryFlush, vars, engineVars
  <2>. QED  BY <1>0, <2>1, KeptCInv
<1>. QED
  BY <1>1, <1>2, <1>3, <1>4, <1>6, <1>7, <1>8, <1>9 DEF Next, Run, Loop

-----------------------------------------------------------------------------
(* The theorems                                                            *)

EInv == DriverInv /\ PcD /\ HInv /\ PInv /\ PcP /\ FInv /\ PcF /\ CInv

LEMMA InitEInv == Init => EInv
<1> SUFFICES ASSUME Init PROVE EInv
  OBVIOUS
<1>1. DriverInv
  BY EngineAssumption, DriverInvInit DEF Init
<1>0. PcD /\ HInv
  BY DEF Init, Begin, DriverInit, PcD, HInv, Labels, OpenLabels, ClosedLabels, Held
<1>2. PInv /\ PcP
  BY DEF Init, Begin, PluginInit, DriverInit, PInv, PcP, Labels, Loaded, Held
<1>3. FInv /\ PcF
  BY DEF Init, Begin, RandomInit, FileInit, FInv, PcF, Labels, Closed
<1>4. CInv
  <2>1. /\ count \in 0 .. Word - 1 /\ klen \in 0 .. Word - 1 /\ interval \in 0 .. Word - 1
        /\ size \in Nat /\ Word \in Nat /\ 2 * size < Word
    BY EngineAssumption DEF Init
  <2>. QED  BY <2>1 DEF Init, Begin, RandomInit, CInv, CTypes, Cursor,
    OperationsAccounted, Labels
<1>. QED  BY <1>0, <1>1, <1>2, <1>3, <1>4 DEF EInv

LEMMA NextEInv == EInv /\ [Next]_vars => EInv'
  BY NextDriver, NextHInv, NextPlugin, NextFile, NextCInv DEF EInv

(* At every moment of every run, for every driver, nb_plugin_unload comes   *)
(* after the driver has closed its database and returned, whichever        *)
(* allocation, call of the library or operation failed on the way.         *)
THEOREM LibraryMapped == Spec => []LibraryOutlivesDatabase
<1>1. EInv => LibraryOutlivesDatabase
  <2> SUFFICES ASSUME EInv, driverPc # "idle" \/ Held # {} PROVE handle
    BY DEF LibraryOutlivesDatabase, Held
  <2>1. CASE driverPc # "idle"
    <3>1. pc \in Loaded
      BY <2>1 DEF EInv, PcD, Labels, Loaded
    <3>. QED  BY <3>1 DEF EInv, PInv, PcP, Loaded
  <2>2. CASE driverPc = "idle" /\ Held # {}
    <3>1. pc = "done" \/ pc \in Loaded
      BY <2>2 DEF EInv, PcD, Labels, Loaded, ClosedLabels
    <3>. QED  BY <2>2, <3>1 DEF EInv, PInv, PcP, Loaded
  <2>. QED  BY <2>1, <2>2
<1>. QED  BY InitEInv, NextEInv, <1>1, PTL DEF Spec

(* A run that never started the benchmark, or that reports success, has     *)
(* freed the buffers and the histogram, closed the database and the file    *)
(* of keys, and unloaded the driver: no jump of the error path skips a      *)
(* release, whatever the count, the lengths and the file.                   *)
THEOREM NothingLeaks == Spec => []EverythingReleased
<1>1. EInv => EverythingReleased
  <2> SUFFICES ASSUME EInv, pc = "done", rc = 0 \/ "hist" \notin heap
               PROVE  /\ heap = {} /\ ~plugin /\ ~handle /\ Held = {}
                      /\ fd => ret = -1
    BY DEF EverythingReleased, Held
  <2>1. heap = {}
    BY DEF EInv, HInv
  <2>2. pluginPc = "idle" /\ ~loaded
    BY DEF EInv, PcP
  <2>3. ~plugin /\ ~handle
    BY <2>2 DEF EInv, PInv
  <2>4. Held = {}
    BY <2>1 DEF EInv, PcD
  <2>5. fd => ret = -1
    BY <2>1 DEF EInv, PcF, FInv, Closed
  <2>. QED  BY <2>1, <2>3, <2>4, <2>5
<1>. QED  BY InitEInv, NextEInv, <1>1, PTL DEF Spec

(* Every operation that returned zero is one sample of the histogram, and   *)
(* the progress lines come every "interval" operations, for any count and   *)
(* interval.                                                               *)
THEOREM CountersAgree == Spec => []OperationsAccounted
<1>1. EInv => OperationsAccounted
  BY DEF EInv, CInv
<1>. QED  BY InitEInv, NextEInv, <1>1, PTL DEF Spec

(* The unsigned sum of nb_random_next never wraps in a way that matters:    *)
(* memcpy reads each key from inside the mapping, one after the other, for  *)
(* every size of a file and every key length that a size_t can hold.        *)
THEOREM KeysInsideFile == Spec => []ReadsInsideFile
<1>1. EInv => ReadsInsideFile
  BY DEF EInv, CInv, CTypes, Cursor, ReadsInsideFile
<1>. QED  BY InitEInv, NextEInv, <1>1, PTL DEF Spec
=============================================================================
