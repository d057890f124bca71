# mininb in TLA+

This directory holds a formal model of mininb, the mini NoSQL benchmark: TLA+
modules of its parts, TLC configurations that model-check them on small
instances, and proofs that TLAPS checks for every value of the constants.
Paths such as `nb_random.c:190` are relative to `src/`.

Check it with

    tlc -workers 2 -config NbShuffle_safety.cfg MCNbShuffle
    tlapm NbShuffleProofs.tla

and likewise for the other configurations (table below) and `*Proofs.tla`.

## 1. The system

mininb is one sequential C program. A command is one process that runs one of
three actions, and the commands of a benchmark follow each other: `put` writes
the first `count` keys of a file of random keys into a database, `shuffle`
permutes these keys in the file, `get` reads them back in the new order. There
are no threads of its own. What is concurrent to it is the kernel, which writes
pages of the mapped file when it likes, the database library, which writes to
its files when it likes, and whoever kills the process.

| component | state it keeps | operations | hard part | correct when |
|---|---|---|---|---|
| latency histogram, `nb_histogram.c` | counts per bucket, min, max, sum, sum of squares, size | `new`, `add`, `clear`, `delete` | bisection with a twice rounded midpoint, samples on a limit, infinite limit | every sample is counted once, in the bucket that encloses it; min and max are those of the samples; `add` returns |
| report, `nb_histogram.c` | the bucket and the count of the loop, what was printed | `percentile`, `dump` | empty buckets, threshold zero, INFINITY | an estimate lies in the bucket of the exact percentile, estimates are ordered, and a number wherever the threshold is positive |
| key file, `nb_random.c` | descriptor, mapping, cursor, end | `open_file`, `close_file`, `create`, `next`, `destroy` | error labels, unsigned sums | reads stay in the mapping; an error path releases what was acquired |
| shuffle, `nb_random.c` | indexes, swap buffer, the file itself | `shuffle` | in-place exchange that may be killed, division of random numbers, unsigned `n - 1`, `msync` | no key is lost, keys beyond `count` stay, success means complete and on disk |
| plugin loader, `nb_plugin.c` | handle of the shared object | `load`, `unload` | error labels | a failed load holds nothing |
| drivers, `plugins/*` | handles of the library | `open`, `close`, `replace`, `remove`, `select`, `valfree` | ladders of eight calls, database inside an environment, reported results | a failed open holds no handle; a database is closed before its environment; success means success, which the save of two drivers and the select of a third do not keep |
| engine, `nb_engine.c` | all of the above, counters | `nb_engine_run` | six error labels, two early returns, four resources that nest | a shared object outlives its database, everything is released, a put saves its keys and a get finds them, but for a driver whose select does not tell |
| command line, `mininb.c`, `nb_opts.*` | options, action | `main`, `usage`, actions | options given twice, a wrong action before or after a right one, `atol` of a text that is negative or no number | a clear line runs the action and the options it names last, any other runs nothing |
| clock, `nb_time.c` | none | `nb_clock` | | |
| workflow, `contrib/run.sh` | directories, link, file of keys, databases | PUT, SHUFFLE, GET in loops over rounds, counts and drivers | exit statuses are ignored, commands may be killed, all rounds share one file of keys | a get that misses a key has its reason in this round; the file loses at most a key for each shuffle that is killed |

Calls: `main` calls the engine or the shuffle; the engine loads a driver through
the loader and calls it through `struct nb_db_if`, reads keys through the key
file, and adds samples to the histogram. The shuffle and the engine of later
commands share the file of keys; the engines of a put and a get share the
database.

## 2. Modules

| module | models | built on |
|---|---|---|
| `HistogramTable` | the table of bucket limits and what it means for a bucket to enclose a value | |
| `HistogramAbs` | abstract histogram: a sample is counted in one step | `HistogramTable` |
| `NbHistogram` | `nb_histogram_new`, `_add`, `_clear` | `HistogramTable`, refines `HistogramAbs` |
| `NbPercentile` | `nb_histogram_dump`: one call of `nb_histogram_percentile` after the other, one step per iteration of its loop; the rows and the averages as functions of the histogram | `NbHistogram` |
| `KeyFile` | `nb_random_open_file`, `nb_random_close_file`, one step per system call | |
| `KeyPermutation` | abstract shuffle: one exchange is one step; it may fail, or be killed in an exchange | |
| `NbShuffle` | `nb_random_shuffle`, kills and write-backs | `KeyFile`, refines `KeyPermutation` |
| `NbRandom` | `nb_random_create`, `_next`, `_destroy` | `KeyFile` |
| `NbPlugin` | `nb_plugin_load`, `_unload` | |
| `NbDriver` | the six drivers and, as far as they use it, a database library | |
| `NbDriverApi` | any client of a driver, and kills | `NbDriver` |
| `Benchmark` | abstract benchmark: keys, database and status, no resources and no calls | |
| `NbEngine` | `nb_engine_run` | `NbRandom`, `NbPlugin`, `NbDriver`, refines `Benchmark` |
| `NbMain` | `main`: options, action, exit status | |
| `NbCommand` | one command with any line and any result of its action | `NbMain` |
| `NbWorkflow` | `contrib/run.sh` and the commands it runs | `NbMain`, `KeyPermutation`, `Benchmark` |
| `NbDriverSteps` | lemmas about the drivers that the proofs of their two clients share | `NbDriver`, `TLAPS` |
| `NbHistogramProofs`, `NbShuffleProofs`, `NbDriverProofs`, `NbEngineProofs`, `NbEngineKeys`, `NbCommandProofs`, `NbWorkflowProofs` | theorems | their modules and `TLAPS` |
| `MC*` | values of the constants for TLC | |

### How state and actions correspond to the code

*Control.* Each C function has a variable that says which statement is next
(`pc`, `io`, `randomPc`, `pluginPc`, `driverPc`). An action is a statement, or a
run of statements that no one else can observe in part. A call sets the
variable of the callee with a `Call...` operator and waits until it is "idle"
again; the result is in `ret`, `randomRet`, `loaded` or `driverRet`. The labels
`error_6` to `error_1` of the engine are values of its `pc`. Every call that
the code expects to fail is a disjunction of its success and its failure.

*Histogram.* `begin`, `end`, `val` and the fields of `hist` are those of the
code. One iteration of the `while` loop is `NarrowUp` or `NarrowDown`, the scan
and the updates after it are `Record`. Only comparisons of a sample with limits
matter, so a limit is a natural number and the last one stands for INFINITY.
`power` is constant and folded into the samples. `samples` is a history
variable. `sum` and `sumsq` are exact; the rounding of doubles is not modelled.

*Report.* `DumpCall` begins a dump, of a histogram with samples if the build keeps
`assert` (`AssertsOn`), of any otherwise, and `DumpReturn` ends it; between them the
histogram does not change, for it is `const` and nothing runs beside it (`Build` is
any step of `NbHistogram` outside of a dump). `printed` holds what was printed so
far, so its length says which percentile of the list comes next. `SkipBucket` is an
iteration of the loop that goes on, `PrintPercentile` the one that returns, or the
return below the loop; `bucket` and `count` are the locals of the call. A
percentile is a fraction `num / den`. The result of the interpolation is a fraction too, or NaN (`0/0`), or infinity (`1/0`), as double
arithmetic gives them. NaN fails both comparisons of the clamp, as in C. `Row`,
`Average` and `Throughput` are what the dump prints. `Marks` is its bar: the cast
of `(unsigned) percents * 1e2 / 5.0` binds before the product, so that the bar is
empty for every row but one that holds all samples, as in the output that
`README.md` shows.

*Key file and shuffle.* `file[b]` is the key in block `b`; block `b` first holds
key `b`. A block that `memcpy` is writing holds `Torn`. `disk` is what a crash
of the machine would leave: `WriteBack` copies one block to it at any time,
`msync` all of them. `Kill` stops the process but not the kernel. Unsigned sums
wrap at `Word`; a division by zero ends the process (`DivideByZero`). The bytes
after the last whole block are never read or written by the shuffle and are
left out.

*Drivers.* The code of a driver is a record: the calls of its `open` with what
each acquires and what is released when it fails, the releases of its `close`
in order, the results of the library that it reports as success though the call
did not do what it was asked for (`hides`), and those that it reports as failure
though it did (`denies`). berkeleydb and tokukv compare each result with DB_NOTFOUND
only, so they hide every other error. kyotocabinet takes the number that
`kyotocabinet::BasicDB::get` returns, the size of the value or -1, for a truth value
(`nb_db_kyotocabinet.cc:140`): its select hides a missing key and an error, and
denies a value of no byte. `Bare` is the set of the keys whose value is empty, as
after a put with `--val_len=0`; the library's result for them is "empty" instead of
"ok". `Blind` is the driver whose select does not look for the key. `CallSucceeds`,
`CallFails`, `Release` and `Operate` interpret the record. `CallFetch` is a select
that is given room for a value; `"value"` in `res` is one that the client has to
give to `valfree`. The library is
external: `stored` is what an open database answers with, `saved` what is in
its files; it may flush at any time, and any of its calls may fail without
effect. `acked` and `errs` are history variables: the keys whose replace
reported success, and the calls for which the library reported an error. Memory
that a failed open leaks stays in `res`; the properties speak of the handles.

*Engine.* The histogram is the number of its samples, `recorded`
(`NbHistogram` is about the rest). Keys are blocks of the file; `cur` counts
bytes and wraps. The database may hold keys of earlier runs (`Databases`).
`AssertsOn` is the build: TRUE when no build type is given to CMake, FALSE in
the Release build of the installation guide. For the refinement of `Benchmark`, a
run "missed" if it returned because a select was refused a key, and "failed" if it
returned for another reason; a failed run may leave its database open, so the
library may still write afterwards. Which keys a select refuses depends on the
driver (`RefusedOf`): those that are not in the database, or with kyotocabinet those
that are in it with an empty value. `Benchmark` has a variable `blind` for it.

*Command line.* `line` is what `getopt_long` returns, item by item: a letter with
its argument, `"?"` for an option that is unknown or lacks its argument, and `"-"`
for a word that is none, which it skips. `ParseAction` is the case `'a'` with its
search of the table, `ParseOption` the other seven cases. `Atol` is a constant,
the number at the beginning of a text; `Value` converts it to a `size_t`, modulo
`Word`. The parent sees the low byte of the status, or 128 and the signal.

*Workflow.* `pos` counts the commands that have ended; it names the directory
`nb-${i}-${size}`, the driver and the action of the next one. The script writes a
command line, `NbMain` parses it, and the action does to the files what
`KeyPermutation` and `Benchmark` promise: the two specifications that
`nb_random_shuffle` and `nb_engine_run` are shown to implement. `blind` is set for
kyotocabinet, one of the drivers of the script; `Bare` is empty, as the script gives
no `--val_len`. `directories` holds
the keys of each database below each directory, and `nb` is the link that selects
one. `keyfile` is `keys.bin`: the script finds it as one of `Files`, in which a key
may be twice and another one missing, as earlier scripts may have left it. A shuffle that ends composes it with the order it
left. A torn block holds a key that was never there, `next`. `given`, `kills`, `torn`,
`putSound` and `putAdded` are history variables: the keys that the file had at
first, how many shuffles were killed, whether the last one left a torn block, whether the last put succeeded without an
error of its library, and what it added.

Definitions marked as mutants stand before the one they replace. They are not
part of a specification: each is a slip that could have been made in the code,
and TLC finds the property they belong to violated when it takes the place of
the definition.

## 3. Runs

| run | configuration | question and result |
|---|---|---|
| histogram | `NbHistogram_small.cfg` | all sequences of up to four samples on six buckets: `BucketsCountSamples`, `ExtremesOfSamples`, `AddReturns`, `ImplementsHistogram` hold |
| histogram_table | `NbHistogram_full.cfg` | 155 limits, as in the source, 310 values: `SearchBrackets`, `SearchShrinks` hold |
| percentile | `NbPercentile_estimate.cfg` | `PercentileNearExact`, `LatenciesOrdered` hold |
| percentile_nan | `NbPercentile_nan.cfg` | `PercentileIsNumber` is violated |
| histogram_rows | `NbPercentile_rows.cfg` | `RowsAreHalfOpen` is violated |
| shuffle | `NbShuffle_safety.cfg` | `KeysSurvive`, `RestUntouched`, `SuccessIsComplete`, `ReturnReleases`, `CrashOnlyOnZero`, `AllPartnersPossible`, `Terminates`, `ImplementsPermutation` hold |
| drivers | `NbDriverApi_all.cfg` | `EnvOutlivesDb`, `ClosedHoldsNoHandle`, `CloseSaves`, `SelectAgrees`, `CheckedReplaceStores` hold |
| drivers_success | `NbDriverApi_success.cfg` | `SuccessIsTrue` is violated |
| engine | `NbEngine_all.cfg` | `LibraryOutlivesDatabase`, `EverythingReleased`, `PutSavesKeys`, `GetFindsKeys`, `FailureHasReason`, `ReadsInsideFile`, `OperationsAccounted`, `Terminates`, `ImplementsBenchmark` hold |
| engine_assert | `NbEngine_assert.cfg` | `DumpHasSamples` is violated |
| command | `NbCommand_all.cfg` | every line of up to three items of ten: `RunsAsAsked` holds |
| workflow | `NbWorkflow_all.cfg` | a put, a shuffle and a get for each of two counts and two drivers, one of them kyotocabinet: `GetExplained`, `LossesCounted` hold |

Each component has a type invariant `TypeOK` besides.

### What the violated properties show

* `percentile_nan`: `(size_t) size * p` is zero for a low percentile of few
  operations. The loop of `nb_histogram_percentile` then stops in bucket 0; if
  that is empty, `scale` is 0/0 and the report prints NaN.
* `histogram_rows`: the header prints rows as `[t min, t max)`, but
  `nb_histogram_add` counts a sample equal to a limit in the bucket below it.
  Rows are open below and closed above.
* `drivers_success`: the library need not hold the key of a replace or a select
  that reports success. `nb_db_kyotocabinet_select` tests `!get(...)`, where `get`
  returns the size of the value or -1: a select of a key that is not there
  succeeds, and so does one that the library failed. (TLC's trace is a select in an
  empty database; a select of a value of no byte fails instead, which
  `SelectAgrees` states.) `nb_db_berkeleydb_*` and `nb_db_tokukv_*` compare each
  result with DB_NOTFOUND only. Any other error, also of a put, is a success to the
  engine, and its time a sample. `CheckedReplaceStores` says of which drivers the
  replace is right.
* `engine_assert`: `--count=0` reaches `assert (hist->size > 0)`.

More facts that a reader of the properties will notice, which no text of the
repository denies: `nb_random_next` compares with `>=`, so the last key of a
file that ends with it is never used (`FailureHasReason` says so: a run fails
also when `size = count * key_len`). An error in the loop leaves the
histogram, and on two of three paths everything, to the end of the process
(`EverythingReleased` leaves these returns out by its condition). A get with
kyotocabinet misses no key: in `run.sh`, it succeeds also after a put that failed,
so that what it measures is not a read of the keys (`GetFindsKeys` and
`GetExplained` except it). The shuffle can draw every block only as long as at most RAND_MAX pairs of
blocks are left (`AllPartnersPossible`): for the RAND_MAX of glibc, 2^31 - 1, these
are some 46 000 blocks. `run.sh` shuffles 500 000: the last three offsets of the
first exchange are never drawn. A get after a shuffle that was killed may miss a key,
and `run.sh` goes on with the damaged file in all later rounds (`LossesCounted`).

### Bounds, and why they are enough

* *Histogram*: `MaxSamples` samples between two clears. Calls of `add` do not
  influence each other's search, so four are enough for counts and extremes to
  interact. `FullRanks` replaces the limits of the source by the even numbers:
  the code only compares, so every order relation of a sample with the table is
  covered. The theorems hold for any table.
* *Percentile*: dumps of all histograms of up to five samples on six buckets, with six
  percentiles that reach thresholds from zero to four, empty buckets on each side, and the infinite bucket.
* *Shuffle*: files of zero to five blocks with and without a part of a block at
  the end; `count` zero, below, at and above the blocks; block size zero. RAND_MAX
  is 6: as many as the ordered pairs of three blocks, so that `AllPartnersPossible`
  is at its edge with three blocks left and does not apply with five. The theorems
  hold for any values.
* *Drivers*: two keys, one of them with an empty value; histories over several opens
  are unbounded, because all variables are finite.
* *Engine*: zero to two operations, and the count that `atol` makes of -1, on
  files of no key, of two keys to the byte, and of a byte more; report intervals
  zero and two; the empty key and the largest key length; databases without a key,
  with one and with two, the second with an empty value; all six drivers. Larger
  counts repeat the iteration. `Word` is 16. All of the properties but `Terminates`
  are theorems for any of these values.
* *Commands*: three items let an option be given before and after another, or
  three times. The theorems hold for lines of any length.
* *Workflow*: one round of two counts with two drivers, tokukv, which looks for a
  key, and kyotocabinet, which does not, over a file of three whole keys, distinct
  ones or two of them equal. Count 2 leaves a key alone; count 1 is a shuffle that
  moves nothing. Four triples of commands are enough for damage of three shuffles to
  add up before the last get, and a directory left by an earlier script has any
  keys. That a count asks for more than the file has is left to the engine run and
  to the theorems, which hold for any rounds, counts, drivers and files.

### Fairness

`NbHistogram`: `WF(Search)`; a call that began runs on, for its loop waits for
nothing (`AddReturns`). `NbShuffle` and `NbEngine`: `WF(Run)`, where `Run` is any
step of the process (`Terminates`). One thread of a live process is scheduled again
and again. There is no fairness for kills, write-backs and flushes, and none for the choice between
success and failure. The commands and the script are checked for safety only.
`CHECK_DEADLOCK FALSE` is set where the program ends.

## 4. Proofs

All theorems are of the form `Spec => []Inv`, `Spec => [][A]_vars` (or both) or
`Spec => Abs!Spec` (`ReportSpec` for the report). They assume what the modules
assume of their constants:

* `TableAssumption`: the table is sorted and has at least one bucket;
* `ValuesAssumption`: samples are natural numbers below the last limit (a
  difference of two readings of a monotonic clock is finite and not negative);
* `ShuffleAssumption`: sizes, block sizes and counts are natural numbers, a size
  is less than `Word`, and RAND_MAX is positive;
* `ApiAssumption`: the drivers are among the six, the keys are natural numbers, and
  any of them may have an empty value;
* `EngineAssumption`: the same, counts, intervals and key lengths are values of a
  `size_t`, a file is shorter than half of its range (`st_size` is signed), and the
  databases hold keys;
* `MainAssumption`, `LinesAssumption`: `atol` gives an integer for each text, a
  line consists of items that `getopt_long` can return;
* `WorkflowAssumption`: counts are positive values of a `size_t` whose text `atol`
  reads back, each driver is named once, the file has some whole keys, which need
  not differ, and less than a key after them;
* `PercentilesAssumption`: the percentiles of the list lie between 0 and 1, as those
  of `nb_engine.c` do; the build keeps `assert` or not.

What a driver acquires and releases is no assumption: `NbDriverSteps` derives it
from the records of the six drivers.

**`NbHistogramProofs`.** The inductive invariant is `TInv`: types, and
`SearchBrackets`. Types alone are not inductive: that `Mid - 1` is an index of
the table needs `begin < end`. `MidRounding` says where the twice rounded
midpoint lies (between `begin` and `end`, at most one below the real one);
`EnclosesOnce` says that at most one bucket encloses a value, and `ScanEncloses`
that the scan stops in one that does: from below because the bracket holds,
from above because the scan has passed the buckets above. `BucketsCountSamples`
and `ExtremesOfSamples` follow by lemmas about a sample appended to the history.
`Refinement` maps `Record` to `Add`, `Clear` to `Clear` and the rest to
stuttering; the mapping forgets the search.

The second half is about the report. `RInv` adds to the invariant of the histogram
what the loop of `nb_histogram_percentile` knows: `count` is the number of samples
below its bucket, and that is less than the threshold unless the bucket is the
first (`ScanCounts`); each result in `printed` is the estimate of the first bucket
that reaches its threshold (`PrintedEstimates`); and a dump runs on an idle
histogram (`DumpAlone`), which may be empty if the build asserts nothing. No sum over buckets is needed, hence no
induction: the samples below a bucket are one set, and a step adds one bucket to it.
`PercentilesNear` then has two halves. `StopsAtOrderStatistic`: the bucket in which
the loop stops is the one that encloses the order statistic, because two buckets
that both reach the threshold first are one. `InterpolateBetween`: the estimate
lies between the limits of that bucket, and clamping to min and max keeps it there
since the bucket holds a sample (`ExtremesOfBucket`). `LatenciesInOrder` compares two
estimates that are numbers, hence from buckets with samples: in one bucket by `InterpolateMonotone`, in different ones by the limit
between them, and the clamp is monotone. `PositiveThresholdPrints` says when NaN is
printed: for a threshold of zero only. So the violated `PercentileIsNumber` has no
other cause. The proofs multiply fractions out; `ProductGrows`, `Cancel` and
`FloorMonotone` are the arithmetic that the SMT solver does not find by itself.

**`NbShuffleProofs`.** `IInv` is the conjunction of

* `Control`: what each label implies of the system calls, the clamped `n`, the
  indexes, the resources and the life of the process (`CInv`, `BInv`, `FInv`,
  `RInv`, `LInv`). `RandomBelow` is the arithmetic fact about `rand()`: the
  quotient is below `n - i` for every RAND_MAX, also one less than `n - i`;
* `DInv`: `Restored`, the file with the exchange in progress undone, is a
  permutation of the keys. It is needed because `KeysSurvive` by itself does not
  say that the key in `buf` is the only one missing;
* `UInv`: blocks from `count` on still hold their first key;
* `SInv`: when the close after `msync` begins, the disk equals the file.

Each has one lemma per action that can disturb it. `StepsBounded` is the safety half
of `Terminates`: a variant, `StepsLeft`, is a natural number at most `6 * Total + 21`,
each step of the process makes it smaller, and the kernel and a kill leave it alone.
It adds up what is left of the system call, of the label and of the loop (six steps
for each block that is not passed); `i <= n` in the loop is what makes it a number,
also for `n` = 0, where the guard `i < n - 1` wraps. `Refinement` maps `EndCopyB`
to the abstract exchange, a kill to the abstract one, the returns to `Succeed` and
`Fail`, and the other steps to stuttering.

**`NbDriverSteps`, `NbDriverProofs`.** `DriverInv` is about one driver: before
call `k` of an open exactly the handles of the calls before it are held; while a
close runs, exactly those that its list still names; between calls, all of them
or none. It is stated with the ladders of the records, so each step has one
lemma for all drivers. `NbDriverProofs` adds what is in the library
(`Agreed`: while the database is open the library holds, and while it is closed
its files hold, exactly what was acknowledged, until an error is reported) and
that no value is left when one is asked for (`ValuesInv`). `SelectAgrees` and
`CheckedReplaceStores` are action properties: what a returning call says agrees with
these sets, with the exceptions that the records name. `HidesNotFound`, `HidesEmpty`
and `DeniesEmpty` read off the records that kyotocabinet's select is the only call
that mistakes an absent key for a present one, or an empty value for none.

**`NbEngineProofs`.** `LibraryOutlivesDatabase`, `EverythingReleased`,
`OperationsAccounted` and `ReadsInsideFile`. The inductive invariant is `EInv`.
Each component that holds resources has two parts in it:

* what is held in the middle of its calls and between them: `DriverInv` as above;
  `PInv` and `FInv` for the shared object and for the file of keys. These do not
  mention the engine, and each has one lemma for the steps inside of the
  component and one for the calls the engine can make;
* what the engine knows of it at each label (`PcD`, `PcP`, `PcF`): for example
  that no handle is held at `error_1` and that at `error_2` a close is running
  or has ended. `EverythingReleased` alone is not inductive: it says nothing
  before the end, and a jump to the wrong label would show only there.

`HInv` gives the buffers allocated at each label. `CInv` gives the counters and
the cursor: after the first key the length is known to be below half of the
word, so `cur + len` cannot wrap (`CallDriverCInv`); that `prev` is below
`interval` makes the number of progress lines a quotient (`OperationDoneCInv`).

**`NbEngineKeys`.** `TypeOK`, `PutSavesKeys`, `GetFindsKeys`, `FailureHasReason`, a bound
on the steps of a run, and that `NbEngine` implements `Benchmark`. `KInv` adds to `EInv` which keys the loop is
done with: the first `kk` of the file, or one more between the return of the
driver and the end of the iteration (`DoneKeys`). `PutInv` says that these are
acknowledged, and where they are (in the library while the database is open, in
its files when it is closed); `GetInv` that no select refuses one of them
(`RefusedOf`), and that a get does not change the database: with five drivers its keys
are there, with kyotocabinet none is there with an empty value; `ReasonInv` carries the reason of a failure from the call that
failed to the return. `BenchmarkBounded` is a variant as in the shuffle: `StepsLeft`
adds up what is left of the loop (three steps for each operation), of the label and
of the three parts the engine calls, and is at most `3 * count + 41` and one for each
call of the driver's open. A label pays for the call it makes (`LabelPays`; one lemma
for each part says what a call costs), an operation that returned for the labels of
the next iteration (`OperationPays`), and the ladders of releases are at most three
long (`LaddersShort`). So no jump of the error path leads back, and a failed
operation is never repeated. The refinement maps `Flush` and a close that saves to
`Save`, an error of the library to `Fault`, and the steps to "done" to `Succeed`,
`Miss` or `Fail`.

**`NbCommandProofs`.** `CInv` says of the items read so far what `RunsAsAsked` says of
the line: the last of each option is in `opts`, and the last action or "NULL" in
`action`. `OneRead` extends it by one item.

**`NbWorkflowProofs`.** `TWInv` has a part for each piece of state: the position
(`ScriptInv`), what `main` has parsed of the line that the script wrote
(`ProcessInv`), and, while an action runs, what the abstract module it belongs to
guarantees (`OrderInv`, `PutInv`, `GetInv`). Two parts tie commands together.
`FreshInv`: the database of a put that has not ended is empty, because no two
positions name the same directory and driver (`TriplesApart`). `BetweenInv`: from
the put to the get its database holds only what the put added, and, if it was
sound, all that a get of the same count reads; the shuffle between them keeps the
keys of the first `count` blocks a subset of those, unless it left a torn block.
`LossesCounted` needs of each shuffle that all blocks but one, and all if it was
not killed, are the source of a block of the file it leaves (`OrderInv`).

Only model-checked, not proved: `AddReturns` and both `Terminates` (liveness is
out of the prover's reach); the four violated properties. What is proved of these
three is that the thread cannot step forever: `SearchShrinks` drops a bucket in each
iteration, `StepsBounded` and `BenchmarkBounded` bound all steps of a run. That a step
is possible until the function has returned (ENABLED) is left to TLC, which checks
it with the fairness.

## 5. Not modelled

* `nb_time.c`: the clock is read; the difference is any sample.
* The text of `usage` and of all other messages; how `getopt_long` splits
  arguments into items (abbreviated long options, letters behind one dash) and an
  `atol` whose number does not fit in a `long`, which is undefined.
* Values, beyond whether they are empty: `valbuf` is never initialised and never
  compared with what is read back. leveldb and cascadedb forget to free the copy of
  a value that no one asked for, in every select of the benchmark; the model has only
  the values that a client is given.
* Rounding of doubles in `sum`, `sumsq` and in the fractions of the report.
* The builds (`CMakeLists.txt`), except for the choice of `AssertsOn`; nessdb is
  the driver for the second version of the library, whose values must be freed.
* The database libraries, beyond the sets of keys and the values they hand out.
* In `run.sh`, building mininb, generating the file of keys and dropping caches;
  and commands of the shell that fail (a `mkdir` or an `ln` on a full disk).
* Two commands at once: `run.sh` runs them one after the other, and nothing in the
  code guards the file or the database against a second process.

## 6. Plan

Done: every part of the program that keeps state is modelled, and every safety
property that a passing run checks is proved.

What is left: an `NbWorkflow` whose commands are `NbShuffle` and `NbEngine`
themselves, to check the composition without the abstract modules on the smallest
instance.
