------------------------------ MODULE NbEngine ------------------------------
(***************************************************************************)
(* nb_engine_run: the benchmark. It acquires its resources one after the   *)
(* other, reads a key and calls the driver in a loop, prints the report    *)
(* and releases everything; an error jumps into the ladder of labels at    *)
(* the end, or returns at once. The parts it calls take several steps,     *)
(* each of which may fail, so the engine waits for their results.          *)
(***************************************************************************)
EXTENDS NbRandom, NbPlugin, NbDriver, FiniteSets

CONSTANTS
  Drivers,               \* the drivers to check
  Benches,               \* of {"get", "put"}: enum nb_bench_type
  Sizes, KeyLens,        \* bounds: the file of keys and opts->key_len
  Counts, Intervals,     \* bounds: opts->count and opts->report_interval
  Databases,             \* bounds: the keys saved before the run
  AssertsOn              \* the build keeps assert: NDEBUG is not defined

ASSUME EngineAssumption ==
  /\ Drivers \subseteq DriverNames
  /\ Benches \subseteq {"get", "put"}
  /\ Sizes \subseteq Nat
  /\ Counts \cup KeyLens \cup Intervals \subseteq 0 .. Word - 1
  /\ \A d \in Databases : d \subseteq Nat
  /\ Bare \subseteq Nat
  /\ Word \in Nat /\ AssertsOn \in BOOLEAN
  /\ \A s \in Sizes : 2 * s < Word  \* st_size is signed

VARIABLES
  bench, count, interval, klen,  \* the arguments
  pc, rc,
  heap,      \* of {"key", "val", "hist"}: keybuf, valbuf and the histogram
  kk, prev, total,
  recorded,  \* the samples in the histogram
  reports    \* how many lines "ops done..." the loop printed

args == <<bench, count, interval, klen>>
counters == <<kk, prev, total, recorded, reports>>
engineVars == <<args, pc, rc, heap, counters>>
vars == <<engineVars, randomVars, pluginVars, driverVars>>

\* The arguments and the file are those of the command; the rest is fresh.
\* The keys of the file are distinct; a key of no byte is the one at offset 0.
Begin ==
  /\ pc = "start" /\ rc = 0 /\ heap = {}
  /\ kk = 0 /\ prev = 0 /\ total = 0 /\ recorded = 0 /\ reports = 0

Init ==
  /\ bench \in Benches /\ count \in Counts
  /\ interval \in Intervals /\ klen \in KeyLens
  /\ Begin
  /\ size \in Sizes
  /\ file = [o \in 0 .. size |-> o]
  /\ RandomInit
  /\ PluginInit
  /\ driver \in Drivers
  /\ DriverInit
  /\ saved \in Databases

-----------------------------------------------------------------------------
(* Setup                                                                   *)

LoadPlugin ==
  /\ pc = "start" /\ pc' = "loading"
  /\ rc' = 1
  /\ CallLoad
  /\ UNCHANGED <<args, heap, counters, randomVars, driverVars>>

OpenDatabase ==
  /\ pc = "loading" /\ PluginReturned
  /\ \/ loaded /\ rc' = 2 /\ pc' = "opening" /\ CallOpen
     \/ ~loaded /\ pc' = "error_1" /\ UNCHANGED <<rc, driverVars>>
  /\ UNCHANGED <<args, heap, counters, randomVars, pluginVars>>

DatabaseOpened ==
  /\ pc = "opening" /\ DriverReturned
  /\ pc' = IF driverRet = 0 THEN "keybuf" ELSE "error_2"
  /\ UNCHANGED <<args, rc, heap, counters, randomVars, pluginVars, driverVars>>

MallocKey ==
  /\ pc = "keybuf"
  /\ \/ heap' = heap \cup {"key"} /\ pc' = "valbuf"
     \/ pc' = "error_3" /\ UNCHANGED heap
  /\ UNCHANGED <<args, rc, counters, randomVars, pluginVars, driverVars>>

MallocVal ==
  /\ pc = "valbuf"
  /\ \/ heap' = heap \cup {"val"} /\ pc' = "random" /\ CallCreate
     \/ pc' = "error_4" /\ UNCHANGED <<heap, randomVars>>
  /\ UNCHANGED <<args, rc, counters, pluginVars, driverVars>>

RandomCreated ==
  /\ pc = "random" /\ RandomReturned
  /\ pc' = IF randomRet = 0 THEN "hist" ELSE "error_5"
  /\ UNCHANGED <<args, rc, heap, counters, randomVars, pluginVars, driverVars>>

\* Mutant: goto error_5.
MallocHistOr5 ==
  /\ pc = "hist"
  /\ \/ heap' = heap \cup {"hist"} /\ pc' = "loop"
     \/ pc' = "error_5" /\ UNCHANGED heap
  /\ UNCHANGED <<args, rc, counters, randomVars, pluginVars, driverVars>>

MallocHist ==
  /\ pc = "hist"
  /\ \/ heap' = heap \cup {"hist"} /\ pc' = "loop"
     \/ pc' = "error_6" /\ UNCHANGED heap
  /\ UNCHANGED <<args, rc, counters, randomVars, pluginVars, driverVars>>

-----------------------------------------------------------------------------
(* The loop. Two errors return at once, with everything still held.        *)

\* Mutants: the key is read before the count is compared; return -1.
OutOfKeysEarly ==
  /\ pc = "loop" /\ kk <= count /\ NoMoreKeys(klen)
  /\ pc' = "done" /\ rc' = 1
  /\ UNCHANGED <<args, heap, counters, randomVars, pluginVars, driverVars>>

OutOfKeysNegative ==
  /\ pc = "loop" /\ kk < count /\ NoMoreKeys(klen)
  /\ pc' = "done" /\ rc' = -1
  /\ UNCHANGED <<args, heap, counters, randomVars, pluginVars, driverVars>>

OutOfKeys ==
  /\ pc = "loop" /\ kk < count /\ NoMoreKeys(klen)
  /\ pc' = "done" /\ rc' = 1
  /\ UNCHANGED <<args, heap, counters, randomVars, pluginVars, driverVars>>

CallDriver ==
  /\ pc = "loop" /\ kk < count /\ ~NoMoreKeys(klen)
  /\ pc' = "called"
  /\ Advance(klen)
  /\ \/ bench = "get" /\ CallSelect(NextKey)
     \/ bench = "put" /\ CallReplace(NextKey)
  /\ UNCHANGED <<args, rc, heap, counters, pluginVars>>

\* Mutant: prev_count is not set back to zero.
OperationDoneNoReset ==
  /\ pc = "called" /\ DriverReturned /\ driverRet = 0
  /\ pc' = "loop"
  /\ recorded' = recorded + 1
  /\ total' = total + 1
  /\ prev' = prev + 1
  /\ reports' = IF prev + 1 < interval THEN reports ELSE reports + 1
  /\ kk' = kk + 1
  /\ UNCHANGED <<args, rc, heap, randomVars, pluginVars, driverVars>>

\* nb_histogram_add, and the counters of the progress report.
OperationDone ==
  /\ pc = "called" /\ DriverReturned /\ driverRet = 0
  /\ pc' = "loop"
  /\ recorded' = recorded + 1
  /\ total' = total + 1
  /\ IF prev + 1 < interval
     THEN prev' = prev + 1 /\ UNCHANGED reports
     ELSE prev' = 0 /\ reports' = reports + 1
  /\ kk' = kk + 1
  /\ UNCHANGED <<args, rc, heap, randomVars, pluginVars, driverVars>>

\* Mutants: the get goes on with the next key; it tries the key again.
SelectFailedGoesOn ==
  /\ pc = "called" /\ DriverReturned /\ driverRet # 0 /\ bench = "get"
  /\ pc' = "loop" /\ kk' = kk + 1
  /\ UNCHANGED <<args, rc, heap, prev, total, recorded, reports>>
  /\ UNCHANGED <<randomVars, pluginVars, driverVars>>

SelectFailedRetries ==
  /\ pc = "called" /\ DriverReturned /\ driverRet # 0 /\ bench = "get"
  /\ CallSelect(key)
  /\ UNCHANGED <<engineVars, randomVars, pluginVars>>

SelectFailed ==
  /\ pc = "called" /\ DriverReturned /\ driverRet # 0 /\ bench = "get"
  /\ pc' = "done" /\ rc' = 1
  /\ UNCHANGED <<args, heap, counters, randomVars, pluginVars, driverVars>>

\* Mutant: return, as a failed get does.
ReplaceFailedReturn ==
  /\ pc = "called" /\ DriverReturned /\ driverRet # 0 /\ bench = "put"
  /\ pc' = "done"
  /\ UNCHANGED <<args, rc, heap, counters, randomVars, pluginVars, driverVars>>

\* goto error_5: the file of keys stays open, and the histogram allocated.
ReplaceFailed ==
  /\ pc = "called" /\ DriverReturned /\ driverRet # 0 /\ bench = "put"
  /\ pc' = "error_5"
  /\ UNCHANGED <<args, rc, heap, counters, randomVars, pluginVars, driverVars>>

-----------------------------------------------------------------------------
(* The report and the normal end                                           *)

\* nb_histogram_dump begins with assert (hist->size > 0).
Dump ==
  /\ pc = "loop" /\ kk >= count
  /\ pc' = IF AssertsOn /\ recorded = 0 THEN "aborted" ELSE "close"
  /\ UNCHANGED <<args, rc, heap, counters, randomVars, pluginVars, driverVars>>

\* Mutant: the database is not closed.
CloseNothing ==
  /\ pc = "close" /\ pc' = "delete_hist"
  /\ UNCHANGED <<args, rc, heap, counters, randomVars, pluginVars, driverVars>>

CloseDatabase ==
  /\ pc = "close" /\ pc' = "delete_hist"
  /\ CallClose
  /\ UNCHANGED <<args, rc, heap, counters, randomVars, pluginVars>>

DeleteHist ==
  /\ pc = "delete_hist" /\ DriverReturned
  /\ pc' = "free_bufs"
  /\ heap' = heap \ {"hist"}
  /\ CallDestroy
  /\ UNCHANGED <<args, rc, counters, pluginVars, driverVars>>

FreeBuffers ==
  /\ pc = "free_bufs" /\ RandomReturned
  /\ pc' = "unload"
  /\ heap' = heap \ {"val", "key"}
  /\ CallUnload
  /\ UNCHANGED <<args, rc, counters, randomVars, driverVars>>

Finish ==
  /\ pc = "unload" /\ PluginReturned
  /\ pc' = "done" /\ rc' = 0
  /\ UNCHANGED <<args, heap, counters, randomVars, pluginVars, driverVars>>

-----------------------------------------------------------------------------
(* The labels of the error path, each of which falls into the next         *)

Error6 ==
  /\ pc = "error_6" /\ pc' = "error_5"
  /\ CallDestroy
  /\ UNCHANGED <<args, rc, heap, counters, pluginVars, driverVars>>

Error5 ==
  /\ pc = "error_5" /\ RandomReturned /\ pc' = "error_4"
  /\ heap' = heap \ {"val"}
  /\ UNCHANGED <<args, rc, counters, randomVars, pluginVars, driverVars>>

\* Mutant: falls past the close of the database.
Error4Then2 ==
  /\ pc = "error_4" /\ pc' = "error_2"
  /\ heap' = heap \ {"key"}
  /\ UNCHANGED <<args, rc, counters, randomVars, pluginVars, driverVars>>

Error4 ==
  /\ pc = "error_4" /\ pc' = "error_3"
  /\ heap' = heap \ {"key"}
  /\ UNCHANGED <<args, rc, counters, randomVars, pluginVars, driverVars>>

Error3 ==
  /\ pc = "error_3" /\ pc' = "error_2"
  /\ CallClose
  /\ UNCHANGED <<args, rc, heap, counters, randomVars, pluginVars>>

Error2 ==
  /\ pc = "error_2" /\ DriverReturned /\ pc' = "error_1"
  /\ CallUnload
  /\ UNCHANGED <<args, rc, heap, counters, randomVars, driverVars>>

Error1 ==
  /\ pc = "error_1" /\ PluginReturned /\ pc' = "done"
  /\ UNCHANGED <<args, rc, heap, counters, randomVars, pluginVars, driverVars>>

-----------------------------------------------------------------------------
Setup ==
  LoadPlugin \/ OpenDatabase \/ DatabaseOpened \/ MallocKey \/ MallocVal
    \/ RandomCreated \/ MallocHist

Loop == OutOfKeys \/ CallDriver \/ OperationDone \/ SelectFailed \/ ReplaceFailed

End == Dump \/ CloseDatabase \/ DeleteHist \/ FreeBuffers \/ Finish

ErrorPath == Error6 \/ Error5 \/ Error4 \/ Error3 \/ Error2 \/ Error1

InRandom == RandomStep /\ UNCHANGED <<engineVars, pluginVars, driverVars>>
InPlugin == PluginStep /\ UNCHANGED <<engineVars, randomVars, driverVars>>
InDriver == DriverStep /\ UNCHANGED <<engineVars, randomVars, pluginVars>>

Run == Setup \/ Loop \/ End \/ ErrorPath \/ InRandom \/ InPlugin \/ InDriver

LibraryFlush == Flush /\ UNCHANGED <<engineVars, randomVars, pluginVars>>

Next == Run \/ LibraryFlush

\* One thread runs the benchmark; the library flushes or does not.
Spec == Init /\ [][Next]_vars /\ WF_vars(Run)

-----------------------------------------------------------------------------
Stopped == pc \in {"done", "aborted"}

\* The first m keys of the file.
FirstKeys(m) == {file[b * klen] : b \in 0 .. m - 1}

\* The drivers that report success for a library error other than DB_NOTFOUND.
Unchecked == driver \in {"berkeleydb", "tokukv"}

Labels ==
  {"start", "loading", "opening", "keybuf", "valbuf", "random", "hist", "loop",
   "called", "close", "delete_hist", "free_bufs", "unload", "done", "aborted",
   "error_1", "error_2", "error_3", "error_4", "error_5", "error_6"}

\* Every variable has its type.
TypeOK ==
  /\ RandomTypeOK /\ PluginTypeOK /\ DriverTypeOK(Nat)
  /\ bench \in {"get", "put"} /\ count \in Nat
  /\ interval \in Nat /\ klen \in Nat
  /\ pc \in Labels /\ rc \in 0 .. 2
  /\ heap \subseteq {"key", "val", "hist"}
  /\ kk \in Nat /\ prev \in Nat /\ total \in Nat
  /\ recorded \in Nat /\ reports \in Nat

\* No path closes the shared object of a driver whose database is open, or
\* whose function is running.
LibraryOutlivesDatabase ==
  (driverPc # "idle" \/ res \cap Handles # {}) => handle

\* A run that returns before the benchmark started, or that reports success,
\* gave back everything the engine acquired, whichever call failed: only a
\* munmap that fails keeps the file open.
EverythingReleased ==
  pc = "done" /\ (rc = 0 \/ "hist" \notin heap) =>
    /\ heap = {}
    /\ ~plugin /\ ~handle /\ res \cap Handles = {}
    /\ fd => ret = -1

\* A put that reports success has saved the first "count" keys of the file,
\* and one that ends with a replace that failed those it had put before: all
\* of them are in the files of the database when the function returns, unless
\* the library failed and the driver did not tell.
PutSavesKeys ==
  pc = "done" /\ bench = "put" /\ rc \in {0, 2} =>
    /\ acked = FirstKeys(kk) /\ (rc = 0 => kk = count)
    /\ "close" \in errs \/ (Unchecked /\ "replace" \in errs) \/ acked \subseteq saved

\* The keys that a select of the benchmark refuses, though the library does
\* not fail: those that are not there, and with kyotocabinet those that are
\* there with an empty value.
RefusedOf(keys) == IF Blind THEN keys \cap saved \cap Bare ELSE keys \ saved
RefusedKeys == RefusedOf(FirstKeys(count))

\* A get that reports success has found the first "count" keys of the file
\* in the database, and with kyotocabinet no empty value, unless the library
\* failed and the driver did not tell.
GetFindsKeys ==
  pc = "done" /\ bench = "get" /\ rc = 0 =>
    ((Unchecked \/ Blind) /\ "select" \in errs) \/ RefusedKeys = {}

\* If the library reports no error, a benchmark that started fails only when
\* the file has no byte after the last key that is asked for, or when a get
\* is asked for a key that was never saved; with kyotocabinet not then, but
\* when it is asked for a key that was saved with an empty value.
FailureHasReason ==
  pc = "done" /\ rc # 0 /\ "hist" \in heap /\ errs = {} =>
    \/ size <= count * klen
    \/ bench = "get" /\ RefusedKeys # {}

\* The key buffer is always filled from inside the mapping, one key after
\* the other, also for a key length near the largest size_t.
ReadsInsideFile == pc = "called" => cur <= size /\ cur = (kk + 1) * klen

\* Every operation that succeeded is one sample of the histogram, and the
\* progress lines come every "interval" operations.
OperationsAccounted ==
  /\ recorded = kk /\ total = kk
  /\ IF interval = 0 THEN reports = total /\ prev = 0
                     ELSE prev < interval /\ total = reports * interval + prev

\* The benchmark ends: no path of errors runs forever.
Terminates == <>Stopped

\* The benchmark, as the next process sees it, implements what Benchmark.tla
\* promises of the files of the database and of the exit status.
Wanted == {file[b * klen] : b \in {m \in 0 .. count - 1 : (m + 1) * klen < size}}
LongEnough == count = 0 \/ count * klen < size
Failed == errs # {}

\* A select that failed is the last call of the driver.
Missed == rc = 1 /\ "hist" \in heap /\ driverRet # 0

Status ==
  CASE ~Stopped                        -> "running"
    [] pc = "done" /\ rc = 0           -> "success"
    [] pc = "done" /\ rc # 0 /\ Missed -> "missed"
    [] pc = "done" /\ rc # 0 /\ ~Missed -> "failure"
    [] pc = "aborted"                  -> "failure"

Bench == INSTANCE Benchmark WITH
           wanted <- Wanted, enough <- LongEnough, database <- saved,
           fault <- Failed, status <- Status, blind <- Blind

ImplementsBenchmark == Bench!Spec

\* nb_histogram.c:182 asserts that there is a sample when the histogram is
\* dumped.
DumpHasSamples == pc # "aborted"
=============================================================================
