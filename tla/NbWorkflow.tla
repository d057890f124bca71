----------------------------- MODULE NbWorkflow -----------------------------
(***************************************************************************)
(* contrib/run.sh: for each round and each count, a new directory; for     *)
(* each driver a put, a shuffle and a get of mininb, over one file of keys *)
(* that all of them share. The script looks at no exit status. A command   *)
(* is main of NbMain, and what its action does to the files is what        *)
(* Benchmark and KeyPermutation promise, which nb_engine_run and           *)
(* nb_random_shuffle are shown to implement. Any command may be killed.    *)
(***************************************************************************)
EXTENDS NbMain, FiniteSets

CONSTANTS
  Rounds,    \* how often all is repeated
  Counts,    \* the counts of a round, in order
  Drivers,   \* the drivers, in order
  Blocks,    \* how many whole keys the file has
  Rest,      \* how many bytes it has after them
  Files,     \* what its blocks may hold at first
  Text       \* Text[n]: the decimal text of a count n

KeyLen == Defaults.k
NewKey == Blocks  \* the first of the keys that no block had at first

\* Every count of the script is a positive size_t, and its text is read back.
\* The blocks need not hold different keys: earlier scripts may have lost some.
ASSUME WorkflowAssumption ==
  /\ Rounds \in Nat /\ Blocks \in Nat /\ Rest \in 0 .. KeyLen - 1
  /\ Counts \in Seq(1 .. Word - 1) /\ Len(Counts) > 0
  /\ \A s \in DOMAIN Counts : Text[Counts[s]] \in DOMAIN Atol
                             /\ Atol[Text[Counts[s]]] = Counts[s]
  /\ Drivers \in Seq(STRING) /\ Len(Drivers) > 0
  /\ \A d, e \in DOMAIN Drivers : Drivers[d] = Drivers[e] => d = e
  /\ Files \subseteq [0 .. Blocks - 1 -> 0 .. Blocks - 1]

VARIABLES
  pos,         \* how many commands have ended
  scriptPc,    \* "begin", "directory", "command", "waiting" or "end"
  nb,          \* the directory that the link ./nb names, -1 before the first
  directories, \* directories[d][driver]: the keys in the database below it
  keyfile,     \* keyfile[b]: the key that block b of keys.bin holds
  next,        \* the first key that was in no block yet
  given,       \* history: the keys that the file had at first
  order, settled, limit,                    \* KeyPermutation, while a shuffle runs
  bench, wanted, enough, database, fault, blind,  \* Benchmark, in a put or a get
  status,      \* of the action that runs
  kills,       \* history: how many shuffles were killed
  torn,        \* history: the last shuffle left a block that is no key
  putSound,    \* history: the last put succeeded, and its library did not fail
  putAdded     \* history: the keys that it added to its database

scriptVars == <<pos, scriptPc, nb>>
fileVars == <<directories, keyfile, next, given>>
permVars == <<order, settled, limit>>
benchVars == <<bench, wanted, enough, database, fault, blind>>
historyVars == <<kills, torn, putSound, putAdded>>
vars == <<mainVars, scriptVars, fileVars, permVars, benchVars, status, historyVars>>

Perm == INSTANCE KeyPermutation WITH keys <- order
Bench == INSTANCE Benchmark WITH Bare <- {}  \* the script gives no --val_len

-----------------------------------------------------------------------------
(* The script                                                              *)

Verbs == <<"put", "shuffle", "get">>

Commands == 3 * Len(Drivers) * Len(Counts) * Rounds

\* The position names the directory nb-i-size, the driver and the action.
Directory(p) == (p \div 3) \div Len(Drivers)
Count(p) == Counts[(Directory(p) % Len(Counts)) + 1]
Driver(p) == Drivers[((p \div 3) % Len(Drivers)) + 1]
Verb(p) == Verbs[(p % 3) + 1]

\* ./mininb -d ${driver} -c ${size} -a ...
Command(p) ==
  <<Item("d", Driver(p)), Item("c", Text[Count(p)]), Item("a", Verb(p))>>

DriverNames == {Drivers[d] : d \in DOMAIN Drivers}
AllDirectories == {Directory(p) : p \in 0 .. Commands - 1}
NoDatabase == [driver \in DriverNames |-> {}]

\* The file was generated, or shuffled, whole or not, by earlier scripts; the
\* directories of these are still there.
Init ==
  /\ line = <<>> /\ MainInit
  /\ pos = 0 /\ scriptPc = "begin" /\ nb = -1
  /\ keyfile \in Files /\ next = NewKey
  /\ given = {keyfile[b] : b \in DOMAIN keyfile}
  /\ \E old \in SUBSET DOMAIN keyfile :
       directories = [d \in AllDirectories |-> [driver \in DriverNames |-> old]]
  /\ order = <<>> /\ settled = 0 /\ limit = 0
  /\ bench = "get" /\ wanted = {} /\ enough = FALSE /\ database = {} /\ fault = FALSE
  /\ blind = FALSE /\ status = "none"
  /\ kills = 0 /\ torn = FALSE /\ putSound = FALSE /\ putAdded = {}

\* Mutant: the directories of an earlier script stay.
BeginKeeping ==
  /\ scriptPc = "begin" /\ scriptPc' = "directory"
  /\ UNCHANGED <<mainVars, pos, nb, fileVars, permVars, benchVars, status, historyVars>>

\* rm -rf nb-*-*/
Begin ==
  /\ scriptPc = "begin" /\ scriptPc' = "directory"
  /\ directories' = [d \in AllDirectories |-> NoDatabase]
  /\ UNCHANGED <<mainVars, pos, nb, keyfile, next, given, permVars, benchVars>>
  /\ UNCHANGED <<status, historyVars>>

\* Mutant: the link stays, and with it the directory of the first count.
NewDirectoryLinked ==
  /\ scriptPc = "directory" /\ pos < Commands /\ scriptPc' = "command"
  /\ nb' = IF nb = -1 THEN Directory(pos) ELSE nb
  /\ UNCHANGED <<mainVars, pos, fileVars, permVars, benchVars, status, historyVars>>

\* rm -f nb, mkdir, ln -s
NewDirectory ==
  /\ scriptPc = "directory" /\ pos < Commands /\ scriptPc' = "command"
  /\ nb' = Directory(pos)
  /\ UNCHANGED <<mainVars, pos, fileVars, permVars, benchVars, status, historyVars>>

StartCommand ==
  /\ scriptPc = "command" /\ scriptPc' = "waiting"
  /\ Exec(Command(pos))
  /\ UNCHANGED <<pos, nb, fileVars, permVars, benchVars, status, historyVars>>

\* The shell waits, and goes on whatever the status.
NextCommand ==
  /\ scriptPc = "waiting" /\ mainPc = "exited"
  /\ pos' = pos + 1
  /\ scriptPc' = IF pos' = Commands THEN "end"
                 ELSE IF Directory(pos') # Directory(pos) THEN "directory" ELSE "command"
  /\ UNCHANGED <<mainVars, nb, fileVars, permVars, benchVars, status, historyVars>>

-----------------------------------------------------------------------------
(* A command                                                               *)

\* The keys that nb_random_next reads, and whether these are all.
Reads(count) == {keyfile[b] : b \in {m \in 0 .. count - 1 :
                                       (m + 1) * KeyLen < Blocks * KeyLen + Rest}}
HasAll(count) == count = 0 \/ count * KeyLen < Blocks * KeyLen + Rest

Identity == [b \in 0 .. Blocks - 1 |-> b]

BeginShuffle ==
  /\ action = "shuffle"
  /\ order' = Identity /\ settled' = 0
  /\ limit' = IF Blocks > opts["c"] THEN opts["c"] ELSE Blocks
  /\ UNCHANGED <<benchVars, putSound, putAdded>>

BeginBenchmark ==
  /\ action \in {"get", "put"}
  /\ bench' = action /\ fault' = FALSE
  /\ wanted' = Reads(opts["c"]) /\ enough' = HasAll(opts["c"])
  /\ database' = directories[nb][opts["d"]]
  /\ blind' = (opts["d"] = "kyotocabinet")
  /\ IF action = "put" THEN putSound' = FALSE /\ putAdded' = {}
                       ELSE UNCHANGED <<putSound, putAdded>>
  /\ UNCHANGED permVars

\* The command line is parsed; the last step of it calls the action.
ParseCommand ==
  /\ scriptPc = "waiting" /\ Parse
  /\ IF mainPc' = "running"
     THEN status' = "running" /\ (BeginShuffle \/ BeginBenchmark)
     ELSE UNCHANGED <<status, permVars, benchVars, putSound, putAdded>>
  /\ UNCHANGED <<scriptVars, fileVars, kills, torn>>

Benchmarks ==
  /\ mainPc = "running" /\ action \in {"get", "put"} /\ Bench!Next
  /\ putAdded' = IF action = "put" THEN putAdded \cup (database' \ database) ELSE putAdded
  /\ UNCHANGED <<mainVars, scriptVars, fileVars, permVars, kills, torn, putSound>>

Shuffles ==
  /\ mainPc = "running" /\ action = "shuffle" /\ Perm!Next
  /\ UNCHANGED <<mainVars, scriptVars, fileVars, benchVars, historyVars>>

\* A benchmark that was killed counts as failed. The file of its database
\* stays as it is.
BenchmarkEnds ==
  /\ action \in {"get", "put"}
  /\ \/ status = "success" /\ Return(0)
     \/ status = "missed" /\ Return(1)
     \/ status = "failure" /\ \E r \in {1, 2} : Return(r)
     \/ status = "failure" /\ Die(Sigkill)
  /\ directories' = [directories EXCEPT ![nb][opts["d"]] = database]
  /\ IF action = "put" THEN putSound' = (status = "success" /\ ~fault)
                       ELSE UNCHANGED putSound
  /\ UNCHANGED <<keyfile, next, given, kills, torn, putAdded>>

\* Mutant: a shuffle that fails returns between the two copies of an exchange.
ShuffleEndsHalfway ==
  /\ action = "shuffle"
  /\ \/ status = "success" /\ Return(0)
     \/ status = "failure" /\ \E r \in {-1, -2, -3} : Return(r)
     \/ status = "killed" /\ Die(Sigkill)
  /\ LET left == IF status = "failure" /\ settled + 1 < limit
                 THEN [order EXCEPT ![settled] = order[settled + 1]] ELSE order
     IN keyfile' = [b \in DOMAIN keyfile |->
                      IF left[b] = Perm!Torn THEN next ELSE keyfile[left[b]]]
  /\ torn' = (\E b \in DOMAIN order : order[b] = Perm!Torn)
  /\ next' = IF torn' THEN next + 1 ELSE next
  /\ kills' = IF status = "killed" THEN kills + 1 ELSE kills
  /\ UNCHANGED <<directories, given, putSound, putAdded>>

\* The blocks of the file take the order that the shuffle left. What is in a
\* block that is torn is a key that no one has put.
ShuffleEnds ==
  /\ action = "shuffle"
  /\ \/ status = "success" /\ Return(0)
     \/ status = "failure" /\ \E r \in {-1, -2, -3} : Return(r)
     \/ status = "killed" /\ Die(Sigkill)
  /\ keyfile' = [b \in DOMAIN keyfile |->
                   IF order[b] = Perm!Torn THEN next ELSE keyfile[order[b]]]
  /\ torn' = (\E b \in DOMAIN order : order[b] = Perm!Torn)
  /\ next' = IF torn' THEN next + 1 ELSE next
  /\ kills' = IF status = "killed" THEN kills + 1 ELSE kills
  /\ UNCHANGED <<directories, given, putSound, putAdded>>

CommandEnds ==
  /\ mainPc = "running" /\ status # "running"
  /\ BenchmarkEnds \/ ShuffleEnds
  /\ UNCHANGED <<scriptVars, permVars, benchVars, status>>

-----------------------------------------------------------------------------
Next ==
  \/ Begin \/ NewDirectory \/ StartCommand \/ NextCommand
  \/ ParseCommand \/ Benchmarks \/ Shuffles \/ CommandEnds

Spec == Init /\ [][Next]_vars

-----------------------------------------------------------------------------
Keys == 0 .. next - 1

\* Every variable has its type.
TypeOK ==
  /\ MainTypeOK
  /\ pos \in 0 .. Commands
  /\ scriptPc \in {"begin", "directory", "command", "waiting", "end"}
  /\ nb \in AllDirectories \cup {-1}
  /\ next \in Nat /\ keyfile \in [0 .. Blocks - 1 -> Keys] /\ given \subseteq Keys
  /\ database \subseteq Keys /\ wanted \subseteq Keys /\ putAdded \subseteq Keys
  /\ blind \in BOOLEAN /\ status \in Perm!Statuses \cup {"none", "missed"}

\* A get that ended, in a library that did not fail. If it was refused a key,
\* then the put before it did not succeed, or the shuffle between them was
\* killed while it wrote a block: neither a shuffle that failed nor one that
\* was killed elsewhere makes a get miss, nor does any earlier command. If it
\* succeeded, then that put added all the keys it got, none an earlier put.
\* All this but with kyotocabinet, whose get misses nothing, put or not.
GetExplained ==
  mainPc = "exited" /\ action = "get" /\ ~fault =>
    /\ status = "missed" => ~blind /\ (~putSound \/ torn)
    /\ status = "success" => blind \/ wanted \subseteq putAdded

Lost == {k \in given : \A b \in DOMAIN keyfile : keyfile[b] # k}

\* All rounds share one file of keys. It loses at most one key for every
\* shuffle that is killed, whatever the commands before and after it do.
LossesCounted == Cardinality(Lost) <= kills
=============================================================================
