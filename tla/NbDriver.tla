------------------------------ MODULE NbDriver ------------------------------
(***************************************************************************)
(* The drivers under plugins/: how each opens and closes its library, and  *)
(* what it reports to the engine for a result of the library. The ladders  *)
(* of calls are data, one sequence per driver. The library itself is       *)
(* external: a set of keys that it holds, and a set that is in its files.  *)
(* A caller is a module that EXTENDS this one; it calls with CallOpen,     *)
(* CallClose, CallReplace, CallSelect, CallFetch (a select that is given   *)
(* room for a value) or CallRemove and goes on when driverPc is "idle".    *)
(***************************************************************************)
EXTENDS Integers, Sequences

\* The keys whose value has no byte, as after a put with --val_len=0.
CONSTANT Bare

VARIABLES
  driver,     \* which one, opts->driver
  driverPc,   \* the call in progress
  step,       \* how many calls of the open ladder were made
  todo,       \* what a close or a failed open has still to release
  res,        \* the resources held
  driverRet,  \* the result of the last call
  key,        \* its argument
  stored,     \* keys the library holds
  saved,      \* keys in the files of the library
  acked,      \* history: keys whose replace reported success, not removed
  errs        \* history: the calls for which the library reported an error

driverVars ==
  <<driver, driverPc, step, todo, res, driverRet, key, stored, saved, acked, errs>>

-----------------------------------------------------------------------------
(* The code of each driver, as data.                                       *)

\* One call of an open: the resource it acquires, or "none", whether the code
\* expects it to fail, and what it releases then.
Call(gets, fails, undo) == [gets |-> gets, fails |-> fails, undo |-> undo]

\* A driver: the calls of its open, the releases of its close, both in
\* order, the calls for which it reports success though the library did not
\* do what it was asked for, and those that it reports failed though it did.
Driver(open, close, hides, denies) ==
  [open |-> open, close |-> close, hides |-> hides, denies |-> denies]

Leveldb ==
  Driver(<<Call("memory", TRUE, <<>>),
           Call("options", FALSE, <<>>),
           Call("instance", TRUE, <<"memory">>)>>,
         <<"instance", "options", "memory">>, {}, {})

\* Neither cdb_del nor db_remove is asked for its result.
Cascadedb ==
  Driver(<<Call("memory", TRUE, <<>>),
           Call("instance", TRUE, <<"memory">>)>>,
         <<"instance", "memory">>, {"remove"} \X {"notfound", "error"}, {})

\* The second version of the library.
Nessdb ==
  Driver(<<Call("memory", TRUE, <<>>),
           Call("instance", TRUE, <<"memory">>)>>,
         <<"instance", "memory">>, {"remove"} \X {"notfound", "error"}, {})

\* new, mkdir, TreeDB::open
OpenTree ==
  <<Call("memory", FALSE, <<>>), Call("none", TRUE, <<>>),
    Call("instance", TRUE, <<"memory">>)>>

\* The select takes the size of the value that get returns, or its -1, for
\* a truth value: no size but 0 is a failure to it.
Kyotocabinet ==
  Driver(OpenTree, <<"instance", "memory">>,
         {"select"} \X {"notfound", "error"}, {<<"select", "empty">>})

\* Only DB_NOTFOUND is an error to the drivers of the DB interface.
HidesErrors == {"replace", "select", "fetch", "remove"} \X {"error"}

\* malloc, mkdir, db_env_create, set_cachesize
OpenEnv ==
  <<Call("memory", TRUE, <<>>), Call("none", TRUE, <<>>),
    Call("env", TRUE, <<>>), Call("none", TRUE, <<"env">>)>>

\* Mutants: the last failure of the open jumps to error_2 and leaves the
\* database open; the environment is closed before the database.
BerkeleydbLeaking ==
  Driver(OpenEnv \o <<Call("none", TRUE, <<"env">>), Call("none", TRUE, <<"env">>),
                      Call("db", TRUE, <<"env">>), Call("none", TRUE, <<"env">>)>>,
         <<"db", "env", "memory">>, HidesErrors, {})

BerkeleydbEnvFirst ==
  Driver(OpenEnv \o <<Call("none", TRUE, <<"env">>), Call("none", TRUE, <<"env">>),
                      Call("db", TRUE, <<"env">>), Call("none", TRUE, <<"db", "env">>)>>,
         <<"env", "db", "memory">>, HidesErrors, {})

\* set_flags, env->open, db_create, db->open
Berkeleydb ==
  Driver(OpenEnv \o <<Call("none", TRUE, <<"env">>), Call("none", TRUE, <<"env">>),
                      Call("db", TRUE, <<"env">>), Call("none", TRUE, <<"db", "env">>)>>,
         <<"db", "env", "memory">>, HidesErrors, {})

\* env->open, db_create, set_compression_method, db->open,
\* get_compression_method
Tokukv ==
  Driver(OpenEnv \o <<Call("none", TRUE, <<"env">>), Call("db", TRUE, <<"env">>),
                      Call("none", TRUE, <<"db", "env">>), Call("none", TRUE, <<"db", "env">>),
                      Call("none", TRUE, <<"db", "env">>)>>,
         <<"db", "env", "memory">>, HidesErrors, {})

\* struct nb_db_if of each driver.
DbIf ==
  [leveldb |-> Leveldb, cascadedb |-> Cascadedb, nessdb |-> Nessdb,
   kyotocabinet |-> Kyotocabinet, berkeleydb |-> Berkeleydb, tokukv |-> Tokukv]

DriverNames == DOMAIN DbIf

\* The handles of the library; the rest is memory, a value that the client
\* has still to free among it.
DbHandles == {"instance", "db"}
Handles == DbHandles \cup {"env"}
Resources == Handles \cup {"memory", "options", "value"}

\* Mutants: the result of the library is not looked at; only DB_NOTFOUND is
\* an error; the code of the library is returned; nessdb's db_add is taken to
\* return 0 on success, as cdb_put does.
ReportsSuccess(d, call, result) == 0

ReportsNotFound(d, call, result) == IF result = "notfound" THEN -1 ELSE 0

ReportsCode(d, call, result) ==
  CASE result \in {"ok", "empty"} -> 0 [] result = "notfound" -> -1 [] OTHER -> 1

ReportsOtherCode(d, call, result) ==
  IF result \in {"ok", "empty"} /\ ~(d = "nessdb" /\ call = "replace") THEN 0 ELSE -1

\* What nb_db_*_replace, _select and _remove return for a result of the
\* library.
Reports(d, call, result) ==
  IF \/ result \in {"ok", "empty"} /\ <<call, result>> \notin DbIf[d].denies
     \/ <<call, result>> \in DbIf[d].hides
  THEN 0 ELSE -1

\* Every other driver tells a key that it does not find from one it finds.
Blind == driver = "kyotocabinet"

-----------------------------------------------------------------------------
DriverInit ==
  /\ driverPc = "idle" /\ step = 0 /\ todo = <<>> /\ res = {}
  /\ driverRet = 0 /\ key = -1
  /\ stored = {} /\ acked = {} /\ errs = {}

DriverReturned == driverPc = "idle"

Returns(r) == driverPc' = "idle" /\ driverRet' = r

CallOpen ==
  /\ driverPc' = "open"
  /\ step' = 0
  /\ UNCHANGED <<driver, todo, res, driverRet, key, stored, saved, acked, errs>>

CallSucceeds ==
  LET call == DbIf[driver].open[step + 1] IN
  /\ driverPc = "open"
  /\ res' = IF call.gets = "none" THEN res ELSE res \cup {call.gets}
  /\ step' = step + 1
  /\ IF step' = Len(DbIf[driver].open)
     THEN Returns(0) /\ stored' = saved
     ELSE UNCHANGED <<driverPc, driverRet, stored>>
  /\ UNCHANGED <<driver, todo, key, saved, acked, errs>>

CallFails ==
  LET call == DbIf[driver].open[step + 1] IN
  /\ driverPc = "open" /\ call.fails
  /\ driverPc' = "release" /\ driverRet' = -1
  /\ todo' = call.undo
  /\ UNCHANGED <<driver, step, res, key, stored, saved, acked, errs>>

\* close returns nothing, and no driver acts on an error of the library.
CallClose ==
  /\ driverPc' = "release" /\ driverRet' = 0
  /\ todo' = DbIf[driver].close
  /\ UNCHANGED <<driver, step, res, key, stored, saved, acked, errs>>

\* Closing the handle of an open database writes what it holds to its
\* files, or fails to.
Release ==
  LET closesDb == Head(todo) \in DbHandles /\ driverRet = 0 IN
  /\ driverPc = "release" /\ todo # <<>>
  /\ todo' = Tail(todo)
  /\ res' = res \ {Head(todo)}
  /\ \/ closesDb /\ saved' = stored /\ UNCHANGED errs
     \/ closesDb /\ errs' = errs \cup {"close"} /\ UNCHANGED saved
     \/ ~closesDb /\ UNCHANGED <<saved, errs>>
  /\ stored' = IF closesDb THEN {} ELSE stored
  /\ UNCHANGED <<driver, driverPc, step, driverRet, key, acked>>

Released ==
  /\ driverPc = "release" /\ todo = <<>>
  /\ driverPc' = "idle"
  /\ UNCHANGED <<driver, step, todo, res, driverRet, key, stored, saved, acked, errs>>

-----------------------------------------------------------------------------
CallOn(call, k) ==
  /\ driverPc' = call
  /\ key' = k
  /\ UNCHANGED <<driver, step, todo, res, driverRet, stored, saved, acked, errs>>

CallReplace(k) == CallOn("replace", k)
CallSelect(k) == CallOn("select", k)
CallFetch(k) == CallOn("fetch", k)
CallRemove(k) == CallOn("remove", k)

\* The library may fail at any call. It does not find a key it does not hold,
\* and some libraries take the removal of such a key for a success. What a
\* select finds for a bare key is an empty value.
LibraryResults(call) ==
  LET found == IF call = "select" /\ key \in Bare THEN "empty" ELSE "ok" IN
  IF call = "replace" \/ key \in stored THEN {"error", found}
  ELSE IF call = "remove" THEN {"error", "notfound", "ok"}
  ELSE {"error", "notfound"}

\* What is left to be freed: the value, if one was asked for.
ValueLeft(call, result) ==
  IF call = "fetch" /\ result = "ok" THEN {"value"} ELSE {}

Applied(call, keys) ==
  CASE call = "replace" -> keys \cup {key}
    [] call = "remove"  -> keys \ {key}
    [] OTHER            -> keys

Operate(call, result) ==
  /\ driverPc = call
  /\ Returns(Reports(driver, call, result))
  /\ errs' = IF result = "error" THEN errs \cup {call} ELSE errs
  /\ stored' = IF result = "ok" THEN Applied(call, stored) ELSE stored
  /\ acked' = IF driverRet' = 0 THEN Applied(call, acked) ELSE acked
  /\ res' = res \cup ValueLeft(call, result)
  /\ UNCHANGED <<driver, step, todo, key, saved>>

Replace == \E r \in LibraryResults("replace") : Operate("replace", r)
Select == \E r \in LibraryResults("select") : Operate("select", r)
Fetch == \E r \in LibraryResults("fetch") : Operate("fetch", r)
Remove == \E r \in LibraryResults("remove") : Operate("remove", r)

\* nb_db_*_valfree: the client gives the value back.
Valfree ==
  /\ res' = res \ {"value"}
  /\ UNCHANGED <<driver, driverPc, step, todo, driverRet, key>>
  /\ UNCHANGED <<stored, saved, acked, errs>>

\* Between a successful open and the close.
DbOpen == step = Len(DbIf[driver].open) /\ res \cap DbHandles # {}

\* The library writes to its files whenever it likes while it is open.
Flush ==
  /\ DbOpen
  /\ \/ \E k \in stored \ saved : saved' = saved \cup {k}
     \/ \E k \in saved \ stored : saved' = saved \ {k}
  /\ UNCHANGED <<driver, driverPc, step, todo, res, driverRet, key, stored, acked, errs>>

DriverStep ==
  CallSucceeds \/ CallFails \/ Release \/ Released
    \/ Replace \/ Select \/ Fetch \/ Remove

DriverTypeOK(keys) ==
  /\ driver \in DriverNames
  /\ driverPc \in {"idle", "open", "release", "replace", "select", "fetch", "remove"}
  /\ step \in 0 .. Len(DbIf[driver].open)
  /\ todo \in Seq(Resources)
  /\ res \subseteq Resources
  /\ driverRet \in {0, -1}
  /\ key \in keys \cup {-1}
  /\ stored \subseteq keys /\ saved \subseteq keys /\ acked \subseteq keys
  /\ errs \subseteq {"replace", "select", "fetch", "remove", "close"}
=============================================================================
