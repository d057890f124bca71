------------------------------- MODULE NbMain -------------------------------
(***************************************************************************)
(* main of mininb.c: the command line is read one option at a time, an     *)
(* action is called once, and its result is the exit status. getopt_long,  *)
(* atol and the actions are external here: a module that EXTENDS this one  *)
(* says with Return and Die how the action ends.                           *)
(***************************************************************************)
EXTENDS Integers, Sequences

CONSTANTS
  Word,  \* 2^w, for the w bits of a size_t
  Atol   \* Atol[t]: the long that the text t begins with, zero if none

ASSUME MainAssumption ==
  /\ Word \in Nat /\ Word > 0
  /\ \A t \in DOMAIN Atol : Atol[t] \in Int

VARIABLES
  line,    \* the command line: a sequence of items
  optind,  \* the next of them
  opts,    \* the options of struct nb_opts, by their letter
  action,  \* the name of the action chosen, or "NULL"
  mainPc,  \* "parsing", "running" or "exited"
  exit     \* the status that the parent sees, -1 before the exit

mainVars == <<line, optind, opts, action, mainPc, exit>>

\* One item as getopt_long returns it: a letter with its argument, "?" for an
\* option that is unknown or lacks its argument, "-" for a word that is no
\* option, which is skipped.
Item(opt, text) == [opt |-> opt, text |-> text]

Actions == {"get", "put", "shuffle"}
Lengths == {"k", "v", "r", "c"}  \* those that atol converts
Names == {"p", "d", "i"}

Defaults ==
  [p |-> "./nb", d |-> "leveldb", i |-> "keys.bin",
   k |-> 16, v |-> 100, r |-> 10000, c |-> 100000]

\* Mutant: the number keeps its sign.
ValueSigned(item) ==
  IF item.opt \in Lengths THEN Atol[item.text] ELSE item.text

\* A long is converted to a size_t.
Value(item) ==
  IF item.opt \in Lengths THEN Atol[item.text] % Word ELSE item.text

-----------------------------------------------------------------------------
MainInit ==
  /\ optind = 1 /\ opts = Defaults /\ action = "get"
  /\ mainPc = "parsing" /\ exit = -1

\* A new process.
Exec(command) ==
  /\ line' = command
  /\ optind' = 1 /\ opts' = Defaults /\ action' = "get"
  /\ mainPc' = "parsing" /\ exit' = -1

\* The parent takes the low byte.
ExitWith(r) == mainPc' = "exited" /\ exit' = r % 256

Parsing == mainPc = "parsing" /\ optind <= Len(line)

\* Mutant: a name that is unknown leaves the action as it was.
ParseActionKeeping ==
  /\ Parsing /\ line[optind].opt = "a"
  /\ optind' = optind + 1
  /\ action' = IF line[optind].text \in Actions THEN line[optind].text ELSE action
  /\ UNCHANGED <<line, opts, mainPc, exit>>

\* Mutant: the argument is skipped twice.
ParseActionTwice ==
  /\ Parsing /\ line[optind].opt = "a"
  /\ optind' = optind + 2
  /\ action' = IF line[optind].text \in Actions THEN line[optind].text ELSE "NULL"
  /\ UNCHANGED <<line, opts, mainPc, exit>>

ParseAction ==
  /\ Parsing /\ line[optind].opt = "a"
  /\ optind' = optind + 1
  /\ action' = IF line[optind].text \in Actions THEN line[optind].text ELSE "NULL"
  /\ UNCHANGED <<line, opts, mainPc, exit>>

ParseOption ==
  /\ Parsing /\ line[optind].opt \in Lengths \cup Names
  /\ optind' = optind + 1
  /\ opts' = [opts EXCEPT ![line[optind].opt] = Value(line[optind])]
  /\ UNCHANGED <<line, action, mainPc, exit>>

SkipWord ==
  /\ Parsing /\ line[optind].opt = "-"
  /\ optind' = optind + 1
  /\ UNCHANGED <<line, opts, action, mainPc, exit>>

InvalidOption ==
  /\ Parsing /\ line[optind].opt = "?"
  /\ ExitWith(-1)
  /\ UNCHANGED <<line, optind, opts, action>>

InvalidAction ==
  /\ mainPc = "parsing" /\ optind > Len(line) /\ action = "NULL"
  /\ ExitWith(-1)
  /\ UNCHANGED <<line, optind, opts, action>>

CallAction ==
  /\ mainPc = "parsing" /\ optind > Len(line) /\ action # "NULL"
  /\ mainPc' = "running"
  /\ UNCHANGED <<line, optind, opts, action, exit>>

Parse ==
  ParseAction \/ ParseOption \/ SkipWord \/ InvalidOption \/ InvalidAction \/ CallAction

\* action_get and action_put return what nb_engine_run does; action_shuffle
\* makes one number of the three that nb_random_shuffle fails with.
ActionResult(r) == IF action = "shuffle" /\ r # 0 THEN -1 ELSE r

Return(r) ==
  /\ mainPc = "running"
  /\ ExitWith(ActionResult(r))
  /\ UNCHANGED <<line, optind, opts, action>>

\* The status that a shell makes of a signal.
Die(signal) ==
  /\ mainPc = "running"
  /\ mainPc' = "exited" /\ exit' = 128 + signal
  /\ UNCHANGED <<line, optind, opts, action>>

Sigkill == 9
Sigfpe == 8

-----------------------------------------------------------------------------
ItemsOk(items) ==
  \A n \in DOMAIN items :
    /\ items[n].opt \in Lengths \cup Names \cup {"a", "?", "-"}
    /\ items[n].opt \in Lengths => items[n].text \in DOMAIN Atol

MainTypeOK ==
  /\ optind \in 1 .. Len(line) + 1
  /\ DOMAIN opts = DOMAIN Defaults
  /\ \A c \in Lengths : opts[c] \in Nat
  /\ action \in Actions \cup {"NULL"}
  /\ mainPc \in {"parsing", "running", "exited"}
  /\ exit \in -1 .. 255
=============================================================================
