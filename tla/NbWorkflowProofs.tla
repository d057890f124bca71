-------------------------- MODULE NbWorkflowProofs --------------------------
(***************************************************************************)
(* The script for any number of rounds, any counts and drivers, and any    *)
(* file of keys. TWInv has one part for the script, one for the process,   *)
(* one for the files, one for the action that runs, and one for what lies  *)
(* between a put and the get after it.                                     *)
(***************************************************************************)
EXTENDS NbWorkflow, FiniteSetTheorems, TLAPS

AllBlocks == 0 .. Blocks - 1
Limit(count) == IF Blocks > count THEN count ELSE Blocks

-----------------------------------------------------------------------------
(* Positions of the script                                                 *)

\* Division by a divisor that is not known.
LEMMA Division ==
  ASSUME NEW t \in Nat, NEW d \in Nat, d > 0
  PROVE  /\ t \div d \in Nat /\ t % d \in 0 .. d - 1
         /\ t = d * (t \div d) + (t % d)
  OBVIOUS

LEMMA CommandsNatural == Commands \in Nat
<1>1. /\ Len(Drivers) \in Nat /\ Len(Counts) \in Nat /\ Rounds \in Nat
  BY WorkflowAssumption
<1>2. \A l, c, r \in Nat : 3 * l * c * r \in Nat
  OBVIOUS
<1> QED
  BY <1>1, <1>2 DEF Commands

\* A put, a shuffle and a get follow each other on the same database.
LEMMA SameTriple ==
  ASSUME NEW p \in Nat, (p + 1) % 3 # 0
  PROVE  /\ p % 3 # 2 /\ (p + 1) % 3 = (p % 3) + 1
         /\ Directory(p + 1) = Directory(p) /\ Driver(p + 1) = Driver(p)
         /\ Count(p + 1) = Count(p)
<1>1. (p + 1) \div 3 = p \div 3 /\ p % 3 # 2 /\ (p + 1) % 3 = (p % 3) + 1
  OBVIOUS
<1> QED
  BY <1>1 DEF Directory, Driver, Count

\* No two triples use the same database.
LEMMA TriplesApart ==
  ASSUME NEW p \in Nat, NEW q \in Nat, p > q, p % 3 = 0,
         Directory(p) = Directory(q), Driver(p) = Driver(q)
  PROVE  FALSE
<1> DEFINE L == Len(Drivers)
           t == p \div 3
           u == q \div 3
<1>1. t \in Nat /\ u \in Nat /\ t > u
  OBVIOUS
<1>2. L \in Nat /\ L > 0 /\ DOMAIN Drivers = 1 .. L
  BY WorkflowAssumption
<1>3. /\ t = L * (t \div L) + (t % L) /\ t % L \in 0 .. L - 1
      /\ u = L * (u \div L) + (u % L) /\ u % L \in 0 .. L - 1
      /\ t \div L \in Nat /\ u \div L \in Nat
  BY <1>1, <1>2, Division
<1>4. t % L = u % L
  <2>1. (t % L) + 1 \in DOMAIN Drivers /\ (u % L) + 1 \in DOMAIN Drivers
    BY <1>2, <1>3
  <2>2. Drivers[(t % L) + 1] = Drivers[(u % L) + 1]
    BY DEF Driver
  <2>3. (t % L) + 1 = (u % L) + 1
    BY <2>1, <2>2, WorkflowAssumption
  <2> HIDE DEF t, u, L
  <2> QED
    BY <2>3, <1>3
<1>5. t \div L = u \div L
  BY DEF Directory
<1> HIDE DEF t, u, L
<1>6. t = u
  BY <1>3, <1>4, <1>5
<1> QED
  BY <1>1, <1>6

\* What a position of the script names.
LEMMA Positions ==
  ASSUME NEW p \in 0 .. Commands - 1
  PROVE  /\ Directory(p) \in AllDirectories /\ Driver(p) \in DriverNames
         /\ Count(p) \in 1 .. Word - 1
         /\ Text[Count(p)] \in DOMAIN Atol /\ Atol[Text[Count(p)]] = Count(p)
         /\ Verb(p) \in Actions
         /\ p % 3 = 0 <=> Verb(p) = "put"
         /\ p % 3 = 1 <=> Verb(p) = "shuffle"
         /\ p % 3 = 2 <=> Verb(p) = "get"
<1> DEFINE L == Len(Drivers)
           C == Len(Counts)
           t == p \div 3
<1>1. p \in Nat /\ t \in Nat /\ L \in Nat /\ L > 0 /\ C \in Nat /\ C > 0
      /\ DOMAIN Drivers = 1 .. L /\ DOMAIN Counts = 1 .. C
  BY WorkflowAssumption
<1>2. t % L \in 0 .. L - 1 /\ Directory(p) \in Nat
  BY <1>1, Division DEF Directory
<1>3. Directory(p) % C \in 0 .. C - 1
  BY <1>1, <1>2, Division
<1>4. (t % L) + 1 \in DOMAIN Drivers /\ (Directory(p) % C) + 1 \in DOMAIN Counts
  BY <1>1, <1>2, <1>3
<1>5. Driver(p) \in DriverNames
  BY <1>4 DEF Driver, DriverNames
<1>6. \E s \in DOMAIN Counts : Count(p) = Counts[s]
  BY <1>4 DEF Count
<1>7. Directory(p) \in AllDirectories
  BY DEF AllDirectories
<1>8. p % 3 \in 0 .. 2
  OBVIOUS
<1>9. Verb(p) = <<"put", "shuffle", "get">>[(p % 3) + 1]
  BY DEF Verb, Verbs
<1>10. /\ p % 3 = 0 => Verb(p) = "put"
       /\ p % 3 = 1 => Verb(p) = "shuffle"
       /\ p % 3 = 2 => Verb(p) = "get"
  <2>1. \A n \in 0 .. 2 :
          <<"put", "shuffle", "get">>[n + 1] =
            IF n = 0 THEN "put" ELSE IF n = 1 THEN "shuffle" ELSE "get"
    OBVIOUS
  <2> QED
    BY <1>8, <1>9, <2>1
<1>11. /\ Count(p) \in 1 .. Word - 1
       /\ Text[Count(p)] \in DOMAIN Atol /\ Atol[Text[Count(p)]] = Count(p)
  <2>1. PICK s \in DOMAIN Counts : Count(p) = Counts[s]
    BY <1>6
  <2>2. Counts[s] \in 1 .. Word - 1
    BY WorkflowAssumption, MainAssumption
  <2> QED
    BY <2>1, <2>2, WorkflowAssumption
<1>12. /\ Verb(p) \in Actions
       /\ p % 3 = 0 <=> Verb(p) = "put"
       /\ p % 3 = 1 <=> Verb(p) = "shuffle"
       /\ p % 3 = 2 <=> Verb(p) = "get"
  <2>1. p % 3 = 0 \/ p % 3 = 1 \/ p % 3 = 2
    BY <1>8
  <2> QED
    BY <2>1, <1>10 DEF Actions
<1> QED
  BY <1>5, <1>7, <1>11, <1>12

\* A file that has all keys of a count has them in its first blocks.
LEMMA FirstBlocks ==
  ASSUME NEW count \in Nat, HasAll(count)
  PROVE  /\ count <= Blocks
         /\ {m \in 0 .. count - 1 : (m + 1) * KeyLen < Blocks * KeyLen + Rest}
              = 0 .. count - 1
<1>1. KeyLen = 16
  BY DEF KeyLen, Defaults
<1>2. Blocks \in Nat /\ Rest \in 0 .. 15
  BY <1>1, WorkflowAssumption
<1>3. count <= Blocks
  BY <1>1, <1>2 DEF HasAll
<1>4. \A m \in 0 .. count - 1 : (m + 1) * 16 < Blocks * 16 + Rest
  BY <1>1, <1>2 DEF HasAll
<1> QED
  BY <1>1, <1>3, <1>4

-----------------------------------------------------------------------------
(* The invariant                                                           *)

\* The command at this position has ended.
Done == scriptPc = "waiting" /\ mainPc = "exited"

ScriptInv ==
  /\ pos \in 0 .. Commands
  /\ scriptPc \in {"begin", "directory", "command", "waiting", "end"}
  /\ scriptPc = "begin" => pos = 0
  /\ scriptPc = "directory" => pos % 3 = 0
  /\ scriptPc \in {"command", "waiting"} => pos < Commands /\ nb = Directory(pos)
  /\ nb \in AllDirectories \cup {-1}

\* main has read what the script wrote.
ProcessInv ==
  /\ MainTypeOK
  /\ mainPc = "running" => scriptPc = "waiting"
  /\ scriptPc = "waiting" =>
       /\ line = Command(pos)
       /\ optind > 1 => opts["d"] = Driver(pos)
       /\ optind > 2 => opts["c"] = Count(pos)
       /\ optind > 3 => action = Verb(pos)
       /\ mainPc # "parsing" => optind = 4

FilesInv ==
  /\ next \in Nat /\ next >= Blocks
  /\ keyfile \in [AllBlocks -> Keys] /\ given \subseteq Keys
  /\ directories \in [AllDirectories -> [DriverNames -> SUBSET Keys]]
  /\ database \subseteq Keys /\ wanted \subseteq Keys /\ putAdded \subseteq Keys
  /\ blind \in BOOLEAN /\ status \in Perm!Statuses \cup {"none", "missed"}
  /\ kills \in Nat

\* Every block but one, at most, is the source of one of the file that the
\* shuffle leaves, and of all unless it was killed; the blocks below the limit
\* come from below the limit.
OrderInv ==
  /\ limit = Limit(Count(pos)) /\ settled \in Nat
  /\ order \in [AllBlocks -> AllBlocks \cup {-1}]
  /\ \A b \in AllBlocks : b < limit => order[b] \in 0 .. limit - 1 \cup {-1}
  /\ status \in Perm!Statuses
  /\ status # "killed" =>
       /\ \A b \in AllBlocks : order[b] # -1
       /\ \A b \in AllBlocks : \E c \in AllBlocks : order[c] = b
  /\ \E lost \in AllBlocks \cup {-1} :
       \A b \in AllBlocks : b = lost \/ \E c \in AllBlocks : order[c] = b

ShuffleInv == mainPc = "running" /\ action = "shuffle" => OrderInv

PutInv ==
  mainPc = "running" /\ action = "put" =>
    /\ bench = "put" /\ wanted = Reads(Count(pos)) /\ enough = HasAll(Count(pos))
    /\ database \subseteq putAdded
    /\ status = "success" => enough /\ (fault \/ wanted \subseteq database)

Here == directories[nb][Driver(pos)]

GetInv ==
  mainPc = "running" /\ action = "get" =>
    /\ bench = "get" /\ wanted = Reads(Count(pos)) /\ database = Here
    /\ status = "success" => fault \/ blind \/ wanted \subseteq database
    /\ status = "missed" => fault \/ (~blind /\ ~(wanted \subseteq database))

\* The database of a put that has not ended is empty.
FreshInv ==
  scriptPc # "begin" =>
    \A p \in pos .. Commands - 1 :
      p % 3 = 0 /\ (p > pos \/ ~Done) => directories[Directory(p)][Driver(p)] = {}

\* From the end of a put to the end of the get, its database holds what it
\* added; if it was sound, these are the keys that a get reads, until the
\* shuffle leaves a torn block.
Shuffled == pos % 3 = 2 \/ (pos % 3 = 1 /\ Done)
BetweenInv ==
  scriptPc \in {"command", "waiting"} /\ (pos % 3 # 0 \/ Done) =>
    /\ Here \subseteq putAdded
    /\ putSound => /\ HasAll(Count(pos))
                   /\ (Shuffled /\ torn) \/ Reads(Count(pos)) \subseteq Here

TWInv ==
  /\ ScriptInv /\ ProcessInv /\ FilesInv
  /\ ShuffleInv /\ PutInv /\ GetInv
  /\ FreshInv /\ BetweenInv /\ GetExplained /\ LossesCounted

-----------------------------------------------------------------------------
(* The script                                                              *)

\* No command runs between two steps of the script.
LEMMA NothingRuns ==
  ASSUME TWInv, scriptPc # "waiting"
  PROVE  mainPc # "running" /\ ~Done
  BY DEF TWInv, ProcessInv, Done

LEMMA InitTWInv == Init => TWInv
<1> SUFFICES ASSUME Init PROVE TWInv
  OBVIOUS
<1> USE DEF Init, MainInit
<1>1. ScriptInv
  BY CommandsNatural DEF ScriptInv
<1>2. ProcessInv
  <2>1. \A c \in Lengths : Defaults[c] \in Nat
    BY DEF Lengths, Defaults
  <2> QED
    BY <2>1 DEF ProcessInv, MainTypeOK, Actions
<1>3. FilesInv
  <2>1. PICK old \in SUBSET DOMAIN keyfile :
          directories = [d \in AllDirectories |-> [driver \in DriverNames |-> old]]
    OBVIOUS
  <2>2. next = Blocks /\ Blocks \in Nat
    BY WorkflowAssumption DEF NewKey
  <2>3. keyfile \in [AllBlocks -> Keys] /\ DOMAIN keyfile = Keys
    BY <2>2, WorkflowAssumption DEF Keys, AllBlocks
  <2>4. directories \in [AllDirectories -> [DriverNames -> SUBSET Keys]]
    BY <2>1, <2>3
  <2>5. blind \in BOOLEAN
    OBVIOUS
  <2> QED
    BY <2>2, <2>3, <2>4, <2>5 DEF FilesInv
<1>4. ShuffleInv /\ PutInv /\ GetInv
  BY DEF ShuffleInv, PutInv, GetInv
<1>5. FreshInv /\ BetweenInv /\ GetExplained
  BY DEF FreshInv, BetweenInv, GetExplained
<1>6. LossesCounted
  <2>1. Lost = {}
    BY DEF Lost
  <2> QED
    BY <2>1, FS_EmptySet DEF LossesCounted
<1> QED
  BY <1>1, <1>2, <1>3, <1>4, <1>5, <1>6 DEF TWInv

LEMMA FilesKept ==
  ASSUME TWInv, UNCHANGED <<next, given, keyfile, directories, database, wanted, putAdded>>,
         UNCHANGED <<blind, status, kills>>
  PROVE  FilesInv' /\ LossesCounted'
<1>1. Keys' = Keys /\ Lost' = Lost
  BY DEF Keys, Lost
<1> QED
  BY <1>1 DEF TWInv, FilesInv, LossesCounted

LEMMA BeginTWInv == TWInv /\ Begin => TWInv'
<1> SUFFICES ASSUME TWInv, Begin PROVE TWInv'
  OBVIOUS
<1>1. /\ scriptPc = "begin" /\ scriptPc' = "directory" /\ mainPc # "running"
      /\ directories' = [d \in AllDirectories |-> NoDatabase]
      /\ UNCHANGED <<line, optind, opts, action, mainPc, exit, pos, nb, keyfile, next, given>>
      /\ UNCHANGED <<bench, wanted, enough, database, fault, blind, status>>
      /\ UNCHANGED <<kills, torn, putSound, putAdded>>
  BY NothingRuns DEF Begin, mainVars, benchVars, historyVars
<1>2. ScriptInv'
  BY <1>1 DEF TWInv, ScriptInv
<1>3. ProcessInv'
  BY <1>1 DEF TWInv, ProcessInv, MainTypeOK
<1>4. FilesInv'
  <2>1. Keys' = Keys
    BY <1>1 DEF Keys
  <2>2. directories' \in [AllDirectories -> [DriverNames -> SUBSET Keys]]
    BY <1>1 DEF NoDatabase
  <2> QED
    BY <1>1, <2>1, <2>2 DEF TWInv, FilesInv
<1>5. ShuffleInv' /\ PutInv' /\ GetInv'
  BY <1>1 DEF ShuffleInv, PutInv, GetInv
<1>6. FreshInv'
  <2> SUFFICES ASSUME NEW p \in pos .. Commands - 1
               PROVE  directories'[Directory(p)][Driver(p)] = {}
    BY <1>1 DEF FreshInv
  <2>1. p \in 0 .. Commands - 1
    BY CommandsNatural DEF TWInv, ScriptInv
  <2> QED
    BY <1>1, <2>1, Positions DEF NoDatabase
<1>7. BetweenInv' /\ GetExplained'
  BY <1>1 DEF TWInv, BetweenInv, GetExplained
<1>8. LossesCounted'
  BY <1>1 DEF TWInv, LossesCounted, Lost
<1> QED
  BY <1>2, <1>3, <1>4, <1>5, <1>6, <1>7, <1>8 DEF TWInv

LEMMA NewDirectoryTWInv == TWInv /\ NewDirectory => TWInv'
<1> SUFFICES ASSUME TWInv, NewDirectory PROVE TWInv'
  OBVIOUS
<1>1. /\ scriptPc = "directory" /\ scriptPc' = "command" /\ mainPc # "running" /\ ~Done
      /\ pos < Commands /\ nb' = Directory(pos)
      /\ UNCHANGED <<line, optind, opts, action, mainPc, exit, pos, keyfile, next, given>>
      /\ UNCHANGED <<bench, wanted, enough, database, fault, blind, status, directories>>
      /\ UNCHANGED <<kills, torn, putSound, putAdded>>
  BY NothingRuns DEF NewDirectory, mainVars, benchVars, historyVars, fileVars
<1>2. ScriptInv'
  <2>1. pos \in 0 .. Commands - 1
    BY <1>1, CommandsNatural DEF TWInv, ScriptInv
  <2> QED
    BY <1>1, <2>1, Positions DEF TWInv, ScriptInv
<1>3. ProcessInv'
  BY <1>1 DEF TWInv, ProcessInv, MainTypeOK
<1>4. FilesInv' /\ LossesCounted'
  BY <1>1, FilesKept
<1>5. ShuffleInv' /\ PutInv' /\ GetInv'
  BY <1>1 DEF ShuffleInv, PutInv, GetInv
<1>6. FreshInv'
  BY <1>1 DEF TWInv, FreshInv, Done
<1>7. BetweenInv'
  BY <1>1 DEF TWInv, BetweenInv, ScriptInv, Done
<1>8. GetExplained'
  BY <1>1 DEF TWInv, GetExplained
<1> QED
  BY <1>2, <1>3, <1>4, <1>5, <1>6, <1>7, <1>8 DEF TWInv

LEMMA StartCommandTWInv == TWInv /\ StartCommand => TWInv'
<1> SUFFICES ASSUME TWInv, StartCommand PROVE TWInv'
  OBVIOUS
<1>1. /\ scriptPc = "command" /\ scriptPc' = "waiting" /\ mainPc' = "parsing" /\ ~Done
      /\ line' = Command(pos) /\ optind' = 1 /\ opts' = Defaults /\ action' = "get"
      /\ exit' = -1
      /\ UNCHANGED <<pos, nb, keyfile, next, given, directories>>
      /\ UNCHANGED <<bench, wanted, enough, database, fault, blind, status>>
      /\ UNCHANGED <<kills, torn, putSound, putAdded>>
  BY NothingRuns DEF StartCommand, Exec, benchVars, historyVars, fileVars
<1>2. ScriptInv'
  BY <1>1 DEF TWInv, ScriptInv
<1>3. ProcessInv'
  <2>1. \A c \in Lengths : Defaults[c] \in Nat
    BY DEF Lengths, Defaults
  <2>2. Len(Command(pos)) = 3
    BY DEF Command
  <2> QED
    BY <1>1, <2>1, <2>2 DEF ProcessInv, MainTypeOK, Actions
<1>4. FilesInv' /\ LossesCounted'
  BY <1>1, FilesKept
<1>5. ShuffleInv' /\ PutInv' /\ GetInv'
  BY <1>1 DEF ShuffleInv, PutInv, GetInv
<1>6. FreshInv'
  BY <1>1 DEF TWInv, FreshInv, Done
<1>7. BetweenInv'
  BY <1>1 DEF TWInv, BetweenInv, Done, Shuffled, Reads, Here
<1>8. GetExplained'
  BY <1>1 DEF GetExplained
<1> QED
  BY <1>2, <1>3, <1>4, <1>5, <1>6, <1>7, <1>8 DEF TWInv

\* The next command works on the same database, or begins with a fresh one.
LEMMA NextCommandTWInv == TWInv /\ NextCommand => TWInv'
<1> SUFFICES ASSUME TWInv, NextCommand PROVE TWInv'
  OBVIOUS
<1>1. /\ scriptPc = "waiting" /\ mainPc = "exited" /\ Done /\ pos' = pos + 1
      /\ scriptPc' = IF pos' = Commands THEN "end"
                     ELSE IF Directory(pos') # Directory(pos) THEN "directory" ELSE "command"
      /\ UNCHANGED <<line, optind, opts, action, mainPc, exit, nb>>
      /\ UNCHANGED <<keyfile, next, given, directories>>
      /\ UNCHANGED <<bench, wanted, enough, database, fault, blind, status>>
      /\ UNCHANGED <<kills, torn, putSound, putAdded>>
  BY DEF NextCommand, mainVars, benchVars, historyVars, fileVars, Done
<1>2. pos \in 0 .. Commands - 1 /\ nb = Directory(pos) /\ Commands \in Nat /\ pos \in Nat
  BY <1>1, CommandsNatural DEF TWInv, ScriptInv
<1>3. ~Done'
  BY <1>1 DEF Done
<1>4. pos' % 3 # 0 => /\ pos % 3 # 2 /\ pos' % 3 = (pos % 3) + 1
                      /\ Directory(pos') = Directory(pos) /\ Driver(pos') = Driver(pos)
                      /\ Count(pos') = Count(pos)
  BY <1>1, <1>2, SameTriple
<1>5. ScriptInv'
  BY <1>1, <1>2, <1>4 DEF TWInv, ScriptInv
<1>6. ProcessInv'
  BY <1>1 DEF TWInv, ProcessInv, MainTypeOK
<1>7. FilesInv' /\ LossesCounted'
  BY <1>1, FilesKept
<1>8. ShuffleInv' /\ PutInv' /\ GetInv'
  BY <1>1 DEF ShuffleInv, PutInv, GetInv
<1>9. FreshInv'
  <2> SUFFICES ASSUME NEW p \in pos' .. Commands - 1, p % 3 = 0
               PROVE  directories[Directory(p)][Driver(p)] = {}
    BY <1>1 DEF FreshInv
  <2>1. p \in pos .. Commands - 1 /\ p > pos
    BY <1>1, <1>2
  <2> QED
    BY <1>1, <2>1 DEF TWInv, FreshInv
<1>10. BetweenInv'
  <2> SUFFICES ASSUME scriptPc' = "command", pos' % 3 # 0
               PROVE  /\ Here' \subseteq putAdded
                      /\ putSound => /\ HasAll(Count(pos'))
                                     /\ (Shuffled' /\ torn) \/ Reads(Count(pos))' \subseteq Here'
    BY <1>1, <1>3 DEF BetweenInv
  <2>1. Here' = Here /\ Reads(Count(pos))' = Reads(Count(pos))
    <3>1. Driver(pos)' = Driver(pos) /\ Count(pos)' = Count(pos)
      BY <1>4
    <3> QED
      BY <1>1, <3>1 DEF Here, Reads
  <2>2. /\ Here \subseteq putAdded
        /\ putSound => /\ HasAll(Count(pos))
                       /\ (Shuffled /\ torn) \/ Reads(Count(pos)) \subseteq Here
    BY <1>1 DEF TWInv, BetweenInv
  <2>3. Shuffled => Shuffled'
    BY <1>1, <1>2, <1>4 DEF Shuffled
  <2> QED
    BY <1>4, <2>1, <2>2, <2>3
<1>11. GetExplained'
  BY <1>1 DEF TWInv, GetExplained
<1> QED
  BY <1>5, <1>6, <1>7, <1>8, <1>9, <1>10, <1>11 DEF TWInv

-----------------------------------------------------------------------------
(* The command line of the script                                          *)

\* What main reads at a position.
LEMMA CommandItems ==
  ASSUME NEW p \in 0 .. Commands - 1
  PROVE  /\ Len(Command(p)) = 3
         /\ Command(p)[1].opt = "d" /\ Command(p)[2].opt = "c" /\ Command(p)[3].opt = "a"
         /\ Value(Command(p)[1]) = Driver(p)
         /\ Value(Command(p)[2]) = Count(p)
         /\ Command(p)[3].text = Verb(p)
<1>1. /\ Len(Command(p)) = 3
      /\ Command(p)[1] = [opt |-> "d", text |-> Driver(p)]
      /\ Command(p)[2] = [opt |-> "c", text |-> Text[Count(p)]]
      /\ Command(p)[3] = [opt |-> "a", text |-> Verb(p)]
  BY DEF Command, Item
<1>2. Value(Command(p)[1]) = Driver(p)
  BY <1>1 DEF Value, Lengths
<1>3. Value(Command(p)[2]) = Atol[Text[Count(p)]] % Word
  BY <1>1 DEF Value, Lengths
<1>4. Atol[Text[Count(p)]] = Count(p) /\ Count(p) \in 1 .. Word - 1
  BY Positions
<1>5. Count(p) % Word = Count(p)
  <2>1. \A n \in 1 .. Word - 1 : n % Word = n
    BY MainAssumption
  <2> QED
    BY <2>1, <1>4
<1> QED
  BY <1>1, <1>2, <1>3, <1>4, <1>5

\* Every item is understood, and each sets what the position names.
LEMMA ParseProcess ==
  ASSUME TWInv, scriptPc = "waiting", scriptPc' = scriptPc, pos' = pos, nb' = nb, Parse
  PROVE  /\ ProcessInv' /\ mainPc = "parsing"
         /\ \/ mainPc' = "parsing"
            \/ mainPc' = "running" /\ optind = 4 /\ optind' = optind /\ action' = action
<1>1. /\ pos \in 0 .. Commands - 1 /\ pos \in Nat
      /\ line = Command(pos) /\ Len(line) = 3 /\ optind \in 1 .. 4
      /\ optind > 1 => opts["d"] = Driver(pos)
      /\ optind > 2 => opts["c"] = Count(pos)
      /\ optind > 3 => action = Verb(pos)
      /\ DOMAIN opts = DOMAIN Defaults /\ \A c \in Lengths : opts[c] \in Nat
      /\ action \in Actions \cup {"NULL"} /\ exit \in -1 .. 255
  <2>1. pos \in 0 .. Commands - 1 /\ pos \in Nat
    BY CommandsNatural DEF TWInv, ScriptInv
  <2>2. /\ line = Command(pos)
        /\ optind > 1 => opts["d"] = Driver(pos)
        /\ optind > 2 => opts["c"] = Count(pos)
        /\ optind > 3 => action = Verb(pos)
    BY DEF TWInv, ProcessInv
  <2>3. Len(line) = 3
    BY <2>1, <2>2, CommandItems
  <2>4. MainTypeOK
    BY DEF TWInv, ProcessInv
  <2>5. optind \in 1 .. 4
    BY <2>3, <2>4 DEF MainTypeOK
  <2> QED
    BY <2>1, <2>2, <2>3, <2>4, <2>5 DEF MainTypeOK
<1>2. /\ line[1].opt = "d" /\ line[2].opt = "c" /\ line[3].opt = "a"
      /\ Value(line[1]) = Driver(pos) /\ Value(line[2]) = Count(pos)
      /\ line[3].text = Verb(pos) /\ Verb(pos) \in Actions
      /\ Count(pos) \in Nat
  <2>1. \A n \in 1 .. Word - 1 : n \in Nat
    BY MainAssumption
  <2> QED
    BY <1>1, <2>1, CommandItems, Positions
<1>3. {"d", "c"} \subseteq DOMAIN opts
  BY <1>1 DEF Defaults
<1>4. CASE ParseAction
  <2>1. optind = 3
    BY <1>1, <1>2, <1>4 DEF ParseAction, Parsing
  <2>2. /\ optind' = 4 /\ action' = Verb(pos) /\ mainPc' = "parsing" /\ mainPc = "parsing"
        /\ line' = line /\ opts' = opts /\ exit' = exit
    BY <1>2, <1>4, <2>1 DEF ParseAction, Parsing
  <2>3. MainTypeOK'
    <3>1. optind' \in 1 .. Len(line') + 1
      BY <1>1, <2>2
    <3>2. action' \in Actions \cup {"NULL"}
      BY <1>2, <2>2
    <3> QED
      BY <1>1, <2>2, <3>1, <3>2, Zenon DEF MainTypeOK
  <2> QED
    BY <1>1, <2>1, <2>2, <2>3 DEF ProcessInv
<1>5. CASE ParseOption
  <2>1. /\ optind \in {1, 2} /\ optind' = optind + 1
        /\ opts' = [opts EXCEPT ![line[optind].opt] = Value(line[optind])]
        /\ mainPc' = "parsing" /\ mainPc = "parsing"
        /\ line' = line /\ action' = action /\ exit' = exit
    BY <1>1, <1>2, <1>5 DEF ParseOption, Parsing, Lengths, Names
  <2>2. CASE optind = 1
    <3>1. opts' = [opts EXCEPT !["d"] = Driver(pos)]
      BY <1>2, <2>1, <2>2
    <3>2. opts'["d"] = Driver(pos) /\ DOMAIN opts' = DOMAIN opts
          /\ \A c \in Lengths : opts'[c] = opts[c]
      BY <1>3, <3>1 DEF Lengths
    <3>3. optind' \in 1 .. Len(line') + 1 /\ \A c \in Lengths : opts'[c] \in Nat
      BY <1>1, <2>1, <2>2, <3>2
    <3>4. MainTypeOK'
      BY <1>1, <2>1, <3>2, <3>3 DEF MainTypeOK
    <3> QED
      BY <1>1, <2>1, <2>2, <3>2, <3>4 DEF ProcessInv
  <2>3. CASE optind = 2
    <3>1. opts' = [opts EXCEPT !["c"] = Count(pos)]
      BY <1>2, <2>1, <2>3
    <3>2. opts'["c"] = Count(pos) /\ opts'["d"] = opts["d"] /\ DOMAIN opts' = DOMAIN opts
          /\ \A c \in Lengths : opts'[c] \in Nat
      BY <1>1, <1>2, <1>3, <3>1 DEF Lengths
    <3>3. optind' \in 1 .. Len(line') + 1 /\ \A c \in Lengths : opts'[c] \in Nat
      BY <1>1, <2>1, <2>3, <3>2
    <3>4. MainTypeOK'
      BY <1>1, <2>1, <3>2, <3>3 DEF MainTypeOK
    <3> QED
      BY <1>1, <2>1, <2>3, <3>2, <3>4 DEF ProcessInv
  <2> QED
    BY <2>1, <2>2, <2>3
<1>6. CASE SkipWord
  BY <1>1, <1>2, <1>6 DEF SkipWord, Parsing
<1>7. CASE InvalidOption
  BY <1>1, <1>2, <1>7 DEF InvalidOption, Parsing
<1>8. CASE InvalidAction
  <2>1. optind = 4 /\ action = "NULL"
    BY <1>1, <1>8 DEF InvalidAction
  <2> QED
    BY <1>1, <1>2, <2>1 DEF Actions
<1>9. CASE CallAction
  <2>1. /\ optind = 4 /\ mainPc' = "running" /\ mainPc = "parsing"
        /\ line' = line /\ optind' = optind
        /\ opts' = opts /\ action' = action /\ exit' = exit
    BY <1>1, <1>9 DEF CallAction
  <2>2. MainTypeOK'
    <3>1. optind' \in 1 .. Len(line') + 1
      <4>1. Len(line') = 3 /\ optind' = 4
        BY <1>1, <2>1
      <4> QED
        BY <4>1
    <3>2. /\ opts' = opts /\ action' = action /\ exit' = exit
          /\ mainPc' = "running"
      BY <2>1
    <3>3. DOMAIN opts' = DOMAIN Defaults /\ \A c \in Lengths : opts'[c] \in Nat
      BY <1>1, <3>2
    <3>4. action' \in Actions \cup {"NULL"} /\ exit' \in -1 .. 255
      BY <1>1, <3>2
    <3> QED
      BY <3>1, <3>2, <3>3, <3>4, Zenon DEF MainTypeOK
  <2> QED
    BY <1>1, <2>1, <2>2 DEF ProcessInv
<1> QED
  BY <1>4, <1>5, <1>6, <1>7, <1>8, <1>9 DEF Parse

-----------------------------------------------------------------------------
(* The calls of the actions                                                *)

\* What a benchmark reads is in the file.
LEMMA ReadsAreKeys ==
  ASSUME FilesInv, NEW count \in Nat
  PROVE  Reads(count) \subseteq Keys
<1>1. Blocks \in Nat /\ Rest \in 0 .. 15 /\ KeyLen = 16
  BY WorkflowAssumption DEF KeyLen, Defaults
<1>2. \A m \in 0 .. count - 1 : (m + 1) * 16 < Blocks * 16 + Rest => m \in AllBlocks
  BY <1>1 DEF AllBlocks
<1>3. \A b \in AllBlocks : keyfile[b] \in Keys
  BY DEF FilesInv
<1> QED
  BY <1>1, <1>2, <1>3 DEF Reads

\* The shuffle begins with the file as it is.
LEMMA BeginShuffleInv ==
  ASSUME BeginShuffle, opts["c"] = Count(pos), pos' = pos, status' = "running",
         Count(pos) \in Nat
  PROVE  OrderInv'
<1>1. /\ order' = [b \in AllBlocks |-> b] /\ settled' = 0 /\ limit' = Limit(Count(pos))
  BY DEF BeginShuffle, Identity, AllBlocks, Limit
<1>2. Limit(Count(pos))' = Limit(Count(pos))
  OBVIOUS
<1>3. \A b \in AllBlocks : b < limit' => b \in 0 .. limit' - 1
  BY <1>1, WorkflowAssumption DEF AllBlocks, Limit
<1>4. \A b \in AllBlocks : order'[b] = b /\ b # -1
  BY <1>1 DEF AllBlocks
<1>5. /\ limit' = Limit(Count(pos))' /\ settled' \in Nat
      /\ order' \in [AllBlocks -> AllBlocks \cup {-1}]
      /\ status' \in Perm!Statuses
  BY <1>1, <1>2 DEF Perm!Statuses
<1>6. \A b \in AllBlocks : b < limit' => order'[b] \in 0 .. limit' - 1 \cup {-1}
  BY <1>3, <1>4
<1>7. /\ \A b \in AllBlocks : order'[b] # -1
      /\ \A b \in AllBlocks : \E c \in AllBlocks : order'[c] = b
  BY <1>4
<1> QED
  BY <1>5, <1>6, <1>7 DEF OrderInv

LEMMA ParseCommandTWInv == TWInv /\ ParseCommand => TWInv'
<1> SUFFICES ASSUME TWInv, ParseCommand PROVE TWInv'
  OBVIOUS
<1>1. /\ scriptPc = "waiting" /\ scriptPc' = scriptPc /\ pos' = pos /\ nb' = nb /\ Parse
      /\ directories' = directories /\ keyfile' = keyfile /\ next' = next /\ given' = given
      /\ kills' = kills /\ torn' = torn
  BY DEF ParseCommand, scriptVars, fileVars
<1>2. /\ ProcessInv' /\ mainPc = "parsing"
      /\ \/ mainPc' = "parsing"
         \/ mainPc' = "running" /\ optind = 4 /\ optind' = optind /\ action' = action
  BY <1>1, ParseProcess
<1>3. ScriptInv' /\ ~Done /\ ~Done' /\ Keys' = Keys /\ Lost' = Lost /\ Here' = Here
  BY <1>1, <1>2 DEF TWInv, ScriptInv, Done, Keys, Lost, Here
<1>4. /\ pos \in 0 .. Commands - 1 /\ pos \in Nat /\ nb = Directory(pos)
  BY <1>1, CommandsNatural DEF TWInv, ScriptInv
<1>5. FreshInv' /\ LossesCounted' /\ GetExplained'
  BY <1>1, <1>2, <1>3 DEF TWInv, FreshInv, LossesCounted, GetExplained
<1>6. Count(pos) \in Nat
  <2>1. \A n \in 1 .. Word - 1 : n \in Nat
    BY MainAssumption
  <2> QED
    BY <1>4, <2>1, Positions
<1>7. CASE mainPc' = "parsing"
  <2>1. UNCHANGED <<status, bench, wanted, enough, database, fault, blind, putSound, putAdded>>
    BY <1>7 DEF ParseCommand, benchVars
  <2>2. FilesInv'
    BY <1>1, <1>3, <2>1 DEF TWInv, FilesInv
  <2>3. ShuffleInv' /\ PutInv' /\ GetInv'
    BY <1>7 DEF ShuffleInv, PutInv, GetInv
  <2>4. BetweenInv'
    BY <1>1, <1>3, <2>1 DEF TWInv, BetweenInv, Shuffled, Reads
  <2> QED
    BY <1>2, <1>3, <1>5, <2>2, <2>3, <2>4 DEF TWInv
<1>8. CASE mainPc' = "running" /\ optind = 4 /\ optind' = optind /\ action' = action
  <2>1. /\ opts["d"] = Driver(pos) /\ opts["c"] = Count(pos) /\ action = Verb(pos)
    BY <1>1, <1>8 DEF TWInv, ProcessInv
  <2>2. status' = "running" /\ (BeginShuffle \/ BeginBenchmark)
    BY <1>8 DEF ParseCommand
  <2>3. CASE BeginShuffle
    <3>1. /\ action = "shuffle"
          /\ UNCHANGED <<bench, wanted, enough, database, fault, blind, putSound, putAdded>>
      BY <2>3 DEF BeginShuffle, benchVars
    <3>2. OrderInv'
      BY <1>1, <1>6, <2>1, <2>2, <2>3, BeginShuffleInv
    <3>3. FilesInv'
      BY <1>1, <1>3, <2>2, <3>1 DEF TWInv, FilesInv, Perm!Statuses
    <3>4. ShuffleInv' /\ PutInv' /\ GetInv'
      BY <1>8, <3>1, <3>2 DEF ShuffleInv, PutInv, GetInv
    <3>5. BetweenInv'
      BY <1>1, <1>3, <3>1 DEF TWInv, BetweenInv, Shuffled, Reads
    <3> QED
      BY <1>2, <1>3, <1>5, <3>3, <3>4, <3>5 DEF TWInv
  <2>4. CASE BeginBenchmark
    <3>1. /\ action \in {"get", "put"} /\ bench' = action /\ fault' = FALSE
          /\ blind' \in BOOLEAN
          /\ wanted' = Reads(Count(pos)) /\ enough' = HasAll(Count(pos))
          /\ database' = Here
          /\ action = "put" => putSound' = FALSE /\ putAdded' = {}
          /\ action # "put" => putSound' = putSound /\ putAdded' = putAdded
      BY <1>4, <2>1, <2>4 DEF BeginBenchmark, Here
    <3>2. Directory(pos) \in AllDirectories /\ Driver(pos) \in DriverNames
      BY <1>4, Positions
    <3>3. FilesInv'
      <4>1. Reads(Count(pos)) \subseteq Keys
        BY <1>6, ReadsAreKeys DEF TWInv
      <4>2. Here \subseteq Keys
        BY <1>4, <3>2 DEF TWInv, FilesInv, Here
      <4> QED
        BY <1>1, <1>3, <2>2, <3>1, <4>1, <4>2 DEF TWInv, FilesInv, Perm!Statuses
    <3>4. wanted' = Reads(Count(pos))' /\ HasAll(Count(pos))' = HasAll(Count(pos))
      BY <1>1, <3>1 DEF Reads
    <3>5. ShuffleInv'
      BY <1>8, <3>1 DEF ShuffleInv
    <3>6. PutInv'
      <4> SUFFICES ASSUME action = "put" PROVE database' = {}
        BY <1>1, <1>8, <2>2, <3>1, <3>4 DEF PutInv
      <4>1. pos % 3 = 0
        BY <1>4, <2>1, Positions
      <4>2. Here = {}
        BY <1>1, <1>3, <1>4, <4>1 DEF TWInv, FreshInv, Here
      <4> QED
        BY <3>1, <4>2
    <3>7. GetInv'
      BY <1>1, <1>3, <1>8, <2>2, <3>1, <3>4 DEF GetInv
    <3>8. BetweenInv'
      <4>1. pos % 3 # 0 => action # "put"
        BY <1>4, <2>1, Positions
      <4> QED
        BY <1>1, <1>3, <3>1, <4>1 DEF TWInv, BetweenInv, Shuffled, Reads
    <3> QED
      BY <1>2, <1>3, <1>5, <3>3, <3>5, <3>6, <3>7, <3>8 DEF TWInv
  <2> QED
    BY <2>2, <2>3, <2>4
<1> QED
  BY <1>2, <1>7, <1>8

-----------------------------------------------------------------------------
(* The actions                                                             *)

LEMMA BenchmarksTWInv == TWInv /\ Benchmarks => TWInv'
<1> SUFFICES ASSUME TWInv, Benchmarks PROVE TWInv'
  OBVIOUS
<1>1. /\ mainPc = "running" /\ action \in {"get", "put"} /\ Bench!Next
      /\ putAdded' = IF action = "put" THEN putAdded \cup (database' \ database) ELSE putAdded
      /\ line' = line /\ optind' = optind /\ opts' = opts /\ action' = action
      /\ mainPc' = mainPc /\ exit' = exit
      /\ pos' = pos /\ scriptPc' = scriptPc /\ nb' = nb
      /\ directories' = directories /\ keyfile' = keyfile /\ next' = next /\ given' = given
      /\ kills' = kills /\ torn' = torn /\ putSound' = putSound
  BY DEF Benchmarks, mainVars, scriptVars, fileVars
<1>2. /\ scriptPc = "waiting" /\ ~Done /\ ~Done' /\ action = Verb(pos)
      /\ pos \in 0 .. Commands - 1
  BY <1>1, CommandsNatural DEF TWInv, ScriptInv, ProcessInv, Done
<1>3. /\ ScriptInv' /\ ProcessInv' /\ FreshInv' /\ GetExplained'
      /\ Keys' = Keys /\ Lost' = Lost /\ Here' = Here
      /\ Reads(Count(pos))' = Reads(Count(pos)) /\ HasAll(Count(pos))' = HasAll(Count(pos))
  <2>1. ScriptInv' /\ Keys' = Keys /\ Lost' = Lost /\ Here' = Here
    BY <1>1 DEF TWInv, ScriptInv, Keys, Lost, Here
  <2>2. ProcessInv'
    BY <1>1 DEF TWInv, ProcessInv, MainTypeOK
  <2>3. FreshInv' /\ GetExplained'
    BY <1>1, <1>2 DEF TWInv, FreshInv, GetExplained
  <2>4. Reads(Count(pos))' = Reads(Count(pos)) /\ HasAll(Count(pos))' = HasAll(Count(pos))
    BY <1>1 DEF Reads
  <2> QED
    BY <2>1, <2>2, <2>3, <2>4
<1>4. ShuffleInv' /\ LossesCounted'
  BY <1>1, <1>3 DEF TWInv, ShuffleInv, LossesCounted
<1>5. action = "put" =>
        /\ bench = "put" /\ wanted = Reads(Count(pos)) /\ enough = HasAll(Count(pos))
        /\ database \subseteq putAdded
        /\ status = "success" => enough /\ (fault \/ wanted \subseteq database)
  BY <1>1 DEF TWInv, PutInv
<1>6. action = "get" =>
        /\ bench = "get" /\ wanted = Reads(Count(pos)) /\ database = Here
        /\ status = "success" => fault \/ blind \/ wanted \subseteq database
        /\ status = "missed" => fault \/ (~blind /\ ~(wanted \subseteq database))
  BY <1>1 DEF TWInv, GetInv
<1>7. /\ bench' = bench /\ wanted' = wanted /\ enough' = enough /\ blind' = blind
      /\ database \subseteq database' /\ database' \subseteq database \cup wanted
      /\ bench = "get" => database' = database
      /\ status' \in Perm!Statuses \cup {"missed", status}
  BY <1>1 DEF Bench!Next, Bench!Save, Bench!Fault, Bench!Succeed, Bench!Miss, Bench!Fail,
              Perm!Statuses
<1>8. /\ status' = "success" => (status = "success" /\ fault' = fault /\ database' = database)
                                 \/ (enough /\ (fault' \/ Bench!Refused = {}))
      /\ status' = "missed" => (status = "missed" /\ fault' = fault)
                                 \/ (fault' \/ (bench = "get" /\ Bench!Refused # {}))
  BY <1>1 DEF Bench!Next, Bench!Save, Bench!Fault, Bench!Succeed, Bench!Miss, Bench!Fail
<1>9. /\ bench = "put" /\ Bench!Refused = {} => wanted \subseteq database'
      /\ bench = "get" /\ Bench!Refused = {} => blind \/ wanted \subseteq database
      /\ bench = "get" /\ Bench!Refused # {} => ~blind /\ ~(wanted \subseteq database)
  BY <1>7 DEF Bench!Refused
<1>10. FilesInv'
  BY <1>1, <1>3, <1>7 DEF TWInv, FilesInv
<1>11. PutInv'
  BY <1>1, <1>3, <1>5, <1>7, <1>8, <1>9 DEF PutInv
<1>12. GetInv'
  BY <1>1, <1>3, <1>6, <1>7, <1>8, <1>9 DEF GetInv
<1>13. BetweenInv'
  <2>1. pos % 3 # 0 => putAdded' = putAdded
    BY <1>1, <1>2, Positions
  <2> QED
    BY <1>1, <1>2, <1>3, <2>1 DEF TWInv, BetweenInv, Shuffled
<1> QED
  BY <1>3, <1>4, <1>10, <1>11, <1>12, <1>13 DEF TWInv

\* An exchange keeps every block and the blocks below the limit.
LEMMA SettleOrder == OrderInv /\ Count(pos) \in Nat /\ Perm!Settle /\ pos' = pos => OrderInv'
<1> SUFFICES ASSUME OrderInv, Count(pos) \in Nat, Perm!Settle, pos' = pos PROVE OrderInv'
  OBVIOUS
<1>1. PICK b \in Perm!Partners :
        order' = [order EXCEPT ![settled] = order[b], ![b] = order[settled]]
  BY DEF Perm!Settle, Perm!Exchange
<1>2. /\ limit = Limit(Count(pos)) /\ settled \in Nat /\ Blocks \in Nat /\ limit \in Nat
      /\ limit <= Blocks
      /\ order \in [AllBlocks -> AllBlocks \cup {-1}]
      /\ \A a \in AllBlocks : a < limit => order[a] \in 0 .. limit - 1 \cup {-1}
  BY WorkflowAssumption DEF OrderInv, Limit
<1>3. /\ status = "running" /\ settled < limit - 1 /\ settled' = settled + 1
      /\ limit' = limit /\ status' = status
  BY DEF Perm!Settle
<1>4. settled \in AllBlocks /\ b \in AllBlocks /\ b < limit /\ settled < limit
  BY <1>2, <1>3 DEF AllBlocks, Perm!Partners
<1>5. /\ order' \in [AllBlocks -> AllBlocks \cup {-1}]
      /\ order'[settled] = order[b] /\ order'[b] = order[settled]
      /\ \A a \in AllBlocks : a # settled /\ a # b => order'[a] = order[a]
  BY <1>1, <1>2, <1>4
<1>6. \A a \in AllBlocks : a < limit => order'[a] \in 0 .. limit - 1 \cup {-1}
  BY <1>2, <1>4, <1>5
<1>7. /\ \A a \in AllBlocks : order[a] # -1
      /\ \A a \in AllBlocks : \E c \in AllBlocks : order[c] = a
  BY <1>3 DEF OrderInv
<1>8. /\ \A a \in AllBlocks : order'[a] # -1
      /\ \A a \in AllBlocks : \E c \in AllBlocks : order'[c] = a
  BY <1>4, <1>5, <1>7
<1>9. Limit(Count(pos))' = Limit(Count(pos))
  OBVIOUS
<1>10. status' \in Perm!Statuses /\ settled' \in Nat
  BY <1>2, <1>3 DEF OrderInv
<1> QED
  BY <1>2, <1>3, <1>5, <1>6, <1>8, <1>9, <1>10 DEF OrderInv

\* A kill leaves at most one block without a copy.
LEMMA KillOrder == OrderInv /\ Count(pos) \in Nat /\ Perm!Kill /\ pos' = pos => OrderInv'
<1> SUFFICES ASSUME OrderInv, Count(pos) \in Nat, Perm!Kill, pos' = pos PROVE OrderInv'
  OBVIOUS
<1>1. /\ limit = Limit(Count(pos)) /\ settled \in Nat /\ Blocks \in Nat /\ limit \in Nat
      /\ limit <= Blocks
      /\ order \in [AllBlocks -> AllBlocks \cup {-1}]
      /\ \A a \in AllBlocks : a < limit => order[a] \in 0 .. limit - 1 \cup {-1}
  BY WorkflowAssumption DEF OrderInv, Limit
<1>2. /\ status = "running" /\ settled' = settled /\ limit' = limit /\ status' = "killed"
      /\ order' \in Perm!Damages
  BY DEF Perm!Kill
<1>3. \A a \in AllBlocks : \E c \in AllBlocks : order[c] = a
  BY <1>2 DEF OrderInv
<1>4. /\ limit' = Limit(Count(pos))' /\ settled' \in Nat /\ status' \in Perm!Statuses
  BY <1>1, <1>2 DEF Perm!Statuses
<1>5. CASE order' = order
  BY <1>1, <1>2, <1>3, <1>4, <1>5 DEF OrderInv
<1>6. CASE order' # order
  <2>1. PICK b \in Perm!Partners : settled < b /\ order' \in Perm!CutOff(settled, b)
    BY <1>2, <1>6 DEF Perm!Damages
  <2>2. settled \in AllBlocks /\ b \in AllBlocks /\ b < limit /\ settled < limit /\ b # settled
    BY <1>1, <2>1 DEF AllBlocks, Perm!Partners
  <2>3. /\ order' \in [AllBlocks -> AllBlocks \cup {-1}]
        /\ order'[settled] \in {-1, order[b]}
        /\ order'[b] \in {-1, order[b]}
        /\ order'[b] = -1 => order'[settled] = order[b]
        /\ \A a \in AllBlocks : a # settled /\ a # b => order'[a] = order[a]
    <3>1. \/ order' = [order EXCEPT ![settled] = -1]
          \/ order' = [order EXCEPT ![settled] = order[b]]
          \/ order' = [order EXCEPT ![settled] = order[b], ![b] = -1]
      BY <2>1 DEF Perm!CutOff, Perm!Torn
    <3> QED
      BY <1>1, <2>2, <3>1
  <2>4. \A a \in AllBlocks : a < limit => order'[a] \in 0 .. limit - 1 \cup {-1}
    BY <1>1, <2>2, <2>3
  <2>5. \A a \in AllBlocks :
          a = order[settled] \/ \E c \in AllBlocks : order'[c] = a
    <3> SUFFICES ASSUME NEW a \in AllBlocks, a # order[settled]
                 PROVE  \E c \in AllBlocks : order'[c] = a
      OBVIOUS
    <3>1. PICK c \in AllBlocks : order[c] = a
      BY <1>3
    <3>2. CASE c # b
      BY <2>3, <3>1, <3>2
    <3>3. CASE c = b
      BY <2>2, <2>3, <3>1, <3>3
    <3> QED
      BY <3>2, <3>3
  <2>6. order[settled] \in AllBlocks \cup {-1}
    BY <1>1, <2>2
  <2> QED
    BY <1>2, <1>4, <2>3, <2>4, <2>5, <2>6 DEF OrderInv
<1> QED
  BY <1>5, <1>6

LEMMA ShufflesTWInv == TWInv /\ Shuffles => TWInv'
<1> SUFFICES ASSUME TWInv, Shuffles PROVE TWInv'
  OBVIOUS
<1>1. /\ mainPc = "running" /\ action = "shuffle" /\ Perm!Next
      /\ line' = line /\ optind' = optind /\ opts' = opts /\ action' = action
      /\ mainPc' = mainPc /\ exit' = exit
      /\ pos' = pos /\ scriptPc' = scriptPc /\ nb' = nb
      /\ directories' = directories /\ keyfile' = keyfile /\ next' = next /\ given' = given
      /\ database' = database /\ wanted' = wanted /\ blind' = blind
      /\ kills' = kills /\ torn' = torn /\ putSound' = putSound /\ putAdded' = putAdded
  BY DEF Shuffles, mainVars, scriptVars, fileVars, benchVars, historyVars
<1>2. /\ scriptPc = "waiting" /\ ~Done /\ ~Done' /\ pos \in 0 .. Commands - 1 /\ OrderInv
  BY <1>1, CommandsNatural DEF TWInv, ScriptInv, ProcessInv, ShuffleInv, Done
<1>3. Count(pos) \in Nat
  <2>1. \A n \in 1 .. Word - 1 : n \in Nat
    BY MainAssumption
  <2> QED
    BY <1>2, <2>1, Positions
<1>4. OrderInv'
  <2>1. CASE Perm!Settle
    BY <1>1, <1>2, <1>3, <2>1, SettleOrder
  <2>2. CASE Perm!Kill
    BY <1>1, <1>2, <1>3, <2>2, KillOrder
  <2>3. CASE Perm!Succeed \/ Perm!Fail
    <3>1. /\ order' = order /\ settled' = settled /\ limit' = limit
          /\ status = "running" /\ status' \in Perm!Statuses
      BY <2>3 DEF Perm!Succeed, Perm!Fail, Perm!Statuses
    <3>2. Limit(Count(pos))' = Limit(Count(pos))
      BY <1>1
    <3> QED
      BY <1>2, <3>1, <3>2 DEF OrderInv
  <2> QED
    BY <1>1, <2>1, <2>2, <2>3 DEF Perm!Next
<1>5. ScriptInv' /\ Keys' = Keys /\ Lost' = Lost
  BY <1>1 DEF TWInv, ScriptInv, Keys, Lost
<1>6. ProcessInv'
  BY <1>1 DEF TWInv, ProcessInv, MainTypeOK
<1>7. FilesInv'
  BY <1>1, <1>4, <1>5 DEF TWInv, FilesInv, OrderInv
<1>8. ShuffleInv' /\ PutInv' /\ GetInv'
  BY <1>1, <1>4 DEF ShuffleInv, PutInv, GetInv
<1>9. FreshInv' /\ GetExplained' /\ LossesCounted'
  BY <1>1, <1>2, <1>5 DEF TWInv, FreshInv, GetExplained, LossesCounted
<1>10. BetweenInv'
  BY <1>1, <1>2 DEF TWInv, BetweenInv, Shuffled, Here, Reads
<1> QED
  BY <1>5, <1>6, <1>7, <1>8, <1>9, <1>10 DEF TWInv

\* A command that ends leaves the script where it is, with a byte for a status.
LEMMA EndProcess ==
  ASSUME TWInv, scriptPc' = scriptPc, pos' = pos,
         (\E r \in Int : Return(r)) \/ Die(Sigkill)
  PROVE  /\ ProcessInv' /\ Done' /\ action' = action /\ mainPc' = "exited"
         /\ mainPc = "running" /\ ~Done /\ scriptPc = "waiting" /\ pos \in 0 .. Commands - 1
         /\ nb = Directory(pos) /\ action = Verb(pos)
         /\ opts["d"] = Driver(pos) /\ opts["c"] = Count(pos)
<1>1. /\ mainPc = "running" /\ mainPc' = "exited"
      /\ line' = line /\ optind' = optind /\ opts' = opts /\ action' = action
  BY DEF Return, Die, ExitWith
<1>2. /\ scriptPc = "waiting" /\ ~Done /\ Done' /\ pos \in 0 .. Commands - 1
      /\ nb = Directory(pos)
  BY <1>1, CommandsNatural DEF TWInv, ScriptInv, ProcessInv, Done
<1>3. exit' \in 0 .. 255
  <2>1. CASE \E r \in Int : Return(r)
    <3>1. PICK r \in Int : Return(r)
      BY <2>1
    <3>2. PICK a \in Int : ActionResult(r) = a
      BY DEF ActionResult
    <3>3. exit' = a % 256
      BY <3>1, <3>2 DEF Return, ExitWith
    <3> QED
      BY <3>3
  <2>2. CASE Die(Sigkill)
    BY <2>2 DEF Die, Sigkill
  <2> QED
    BY <2>1, <2>2
<1>4. ProcessInv'
  BY <1>1, <1>2, <1>3 DEF TWInv, ProcessInv, MainTypeOK
<1>5. action = Verb(pos) /\ opts["d"] = Driver(pos) /\ opts["c"] = Count(pos)
  BY <1>1, <1>2 DEF TWInv, ProcessInv
<1> QED
  BY <1>1, <1>2, <1>4, <1>5

LEMMA BenchmarkEndsTWInv == TWInv /\ CommandEnds /\ BenchmarkEnds => TWInv'
<1> SUFFICES ASSUME TWInv, CommandEnds, BenchmarkEnds PROVE TWInv'
  OBVIOUS
<1>1. /\ scriptPc' = scriptPc /\ pos' = pos /\ nb' = nb /\ status' = status
      /\ wanted' = wanted /\ database' = database /\ fault' = fault /\ blind' = blind
      /\ keyfile' = keyfile /\ next' = next /\ given' = given /\ kills' = kills /\ torn' = torn
      /\ putAdded' = putAdded
      /\ directories' = [directories EXCEPT ![nb][opts["d"]] = database]
      /\ action = "put" => putSound' = (status = "success" /\ ~fault)
      /\ action # "put" => putSound' = putSound
      /\ action \in {"get", "put"}
  BY DEF CommandEnds, BenchmarkEnds, scriptVars, benchVars
<1>2. (\E r \in Int : Return(r)) \/ Die(Sigkill)
  BY DEF BenchmarkEnds
<1>3. /\ ProcessInv' /\ Done' /\ action' = action /\ mainPc' = "exited"
      /\ mainPc = "running" /\ ~Done /\ scriptPc = "waiting" /\ pos \in 0 .. Commands - 1
      /\ nb = Directory(pos) /\ action = Verb(pos) /\ opts["d"] = Driver(pos)
  BY <1>1, <1>2, EndProcess
<1>4. /\ Directory(pos) \in AllDirectories /\ Driver(pos) \in DriverNames
      /\ action = "put" <=> pos % 3 = 0
      /\ action = "get" <=> pos % 3 = 2
  BY <1>3, Positions
<1>5. /\ directories' \in [AllDirectories -> [DriverNames -> SUBSET Keys]]
      /\ Here' = database
      /\ \A d \in AllDirectories, v \in DriverNames :
           d # Directory(pos) \/ v # Driver(pos) => directories'[d][v] = directories[d][v]
  <2>1. /\ directories \in [AllDirectories -> [DriverNames -> SUBSET Keys]]
        /\ database \subseteq Keys
    BY DEF TWInv, FilesInv
  <2>2. directories' = [directories EXCEPT ![Directory(pos)] =
                          [directories[Directory(pos)] EXCEPT ![Driver(pos)] = database]]
    BY <1>1, <1>3
  <2> QED
    BY <1>1, <1>3, <1>4, <2>1, <2>2 DEF Here
<1>6. ScriptInv' /\ Keys' = Keys /\ Lost' = Lost /\ Reads(Count(pos))' = Reads(Count(pos))
      /\ HasAll(Count(pos))' = HasAll(Count(pos))
  BY <1>1 DEF TWInv, ScriptInv, Keys, Lost, Reads
<1>7. FilesInv' /\ LossesCounted'
  BY <1>1, <1>5, <1>6 DEF TWInv, FilesInv, LossesCounted
<1>8. ShuffleInv' /\ PutInv' /\ GetInv'
  BY <1>3 DEF ShuffleInv, PutInv, GetInv
<1>9. FreshInv'
  <2> SUFFICES ASSUME NEW p \in pos .. Commands - 1, p % 3 = 0, p > pos
               PROVE  directories'[Directory(p)][Driver(p)] = {}
    BY <1>1, <1>3 DEF FreshInv
  <2>1. p \in Nat /\ pos \in Nat /\ p \in 0 .. Commands - 1
    BY <1>3, CommandsNatural
  <2>2. directories[Directory(p)][Driver(p)] = {}
    BY <1>3 DEF TWInv, FreshInv
  <2>3. Directory(p) # Directory(pos) \/ Driver(p) # Driver(pos)
    BY <2>1, TriplesApart
  <2>4. Directory(p) \in AllDirectories /\ Driver(p) \in DriverNames
    BY <2>1, Positions
  <2> QED
    BY <1>5, <2>2, <2>3, <2>4
<1>10. CASE action = "put"
  <2>1. /\ wanted = Reads(Count(pos)) /\ enough = HasAll(Count(pos))
        /\ database \subseteq putAdded
        /\ status = "success" => enough /\ (fault \/ wanted \subseteq database)
    BY <1>3, <1>10 DEF TWInv, PutInv
  <2>2. BetweenInv'
    BY <1>1, <1>5, <1>6, <1>10, <2>1 DEF BetweenInv
  <2>3. GetExplained'
    BY <1>3, <1>10 DEF GetExplained
  <2> QED
    BY <1>3, <1>6, <1>7, <1>8, <1>9, <2>2, <2>3 DEF TWInv
<1>11. CASE action = "get"
  <2>1. /\ wanted = Reads(Count(pos)) /\ database = Here
        /\ status = "success" => fault \/ blind \/ wanted \subseteq database
        /\ status = "missed" => fault \/ (~blind /\ ~(wanted \subseteq database))
    BY <1>3, <1>11 DEF TWInv, GetInv
  <2>2. /\ Here \subseteq putAdded
        /\ putSound => HasAll(Count(pos)) /\ (torn \/ Reads(Count(pos)) \subseteq Here)
    BY <1>3, <1>4, <1>11 DEF TWInv, BetweenInv
  <2>3. GetExplained'
    BY <1>1, <1>11, <2>1, <2>2 DEF GetExplained
  <2>4. Shuffled'
    BY <1>1, <1>4, <1>11 DEF Shuffled
  <2>5. BetweenInv'
    BY <1>1, <1>5, <1>6, <1>11, <2>1, <2>2, <2>4 DEF BetweenInv
  <2> QED
    BY <1>3, <1>6, <1>7, <1>8, <1>9, <2>3, <2>5 DEF TWInv
<1> QED
  BY <1>1, <1>10, <1>11

\* The file that the shuffle leaves.
LEMMA ShuffledFile ==
  ASSUME TWInv, OrderInv, ShuffleEnds
  PROVE  /\ keyfile' \in [AllBlocks -> Keys'] /\ Keys \subseteq Keys'
         /\ next' \in Nat /\ next' >= next
         /\ \A b \in AllBlocks : order[b] # -1 => keyfile'[b] = keyfile[order[b]]
         /\ torn' = (\E b \in AllBlocks : order[b] = -1)
<1>1. /\ order \in [AllBlocks -> AllBlocks \cup {-1}] /\ keyfile \in [AllBlocks -> Keys]
      /\ next \in Nat
  BY DEF OrderInv, TWInv, FilesInv
<1>2. /\ keyfile' = [b \in AllBlocks |-> IF order[b] = -1 THEN next ELSE keyfile[order[b]]]
      /\ torn' = (\E b \in AllBlocks : order[b] = -1)
      /\ next' = IF torn' THEN next + 1 ELSE next
  BY <1>1 DEF ShuffleEnds, Perm!Torn
<1>3. next' \in Nat /\ next' >= next /\ Keys \subseteq Keys'
  BY <1>1, <1>2 DEF Keys
<1>4. ASSUME NEW b \in AllBlocks PROVE keyfile'[b] \in Keys'
  <2>1. CASE order[b] = -1
    <3>1. keyfile'[b] = next /\ next' = next + 1
      BY <1>2, <2>1
    <3> QED
      BY <1>1, <3>1 DEF Keys
  <2>2. CASE order[b] # -1
    BY <1>1, <1>2, <1>3, <2>2
  <2> QED
    BY <2>1, <2>2
<1> QED
  BY <1>2, <1>3, <1>4

\* At most one key is lost, and none unless the shuffle was killed.
LEMMA LossesGrowByOne ==
  ASSUME TWInv, OrderInv, ShuffleEnds
  PROVE  LossesCounted'
<1>1. \A b \in AllBlocks : order[b] # -1 => keyfile'[b] = keyfile[order[b]]
  BY ShuffledFile
<1>2. /\ order \in [AllBlocks -> AllBlocks \cup {-1}]
      /\ DOMAIN keyfile = AllBlocks /\ DOMAIN keyfile' = AllBlocks
      /\ given' = given
  BY ShuffledFile DEF OrderInv, TWInv, FilesInv, ShuffleEnds
<1>3. IsFiniteSet(Lost) /\ Cardinality(Lost) \in Nat /\ Cardinality(Lost) <= kills
      /\ kills \in Nat
  <2>1. IsFiniteSet(Keys)
    <3>1. 0 \in Int /\ next - 1 \in Int
      BY DEF TWInv, FilesInv
    <3> QED
      BY <3>1, FS_Interval DEF Keys
  <2>2. IsFiniteSet(Lost)
    <3>1. Lost \subseteq Keys
      BY DEF TWInv, FilesInv, Lost
    <3> QED
      BY <2>1, <3>1, FS_Subset
  <2> QED
    BY <2>2, FS_CardinalityType DEF TWInv, LossesCounted, FilesInv
<1>4. \A k, b, c : b \in AllBlocks /\ c \in AllBlocks
                   /\ keyfile[b] = k /\ order[c] = b => k \notin Lost'
  <2> SUFFICES ASSUME NEW k, NEW b \in AllBlocks, NEW c \in AllBlocks,
                      keyfile[b] = k, order[c] = b
               PROVE  k \notin Lost'
    OBVIOUS
  <2>1. keyfile'[c] = k
    BY <1>1 DEF AllBlocks
  <2> QED
    BY <1>2, <2>1 DEF Lost
<1>5. CASE status # "killed"
  <2>1. \A b \in AllBlocks : \E c \in AllBlocks : order[c] = b
    BY <1>5 DEF OrderInv
  <2>2. Lost' \subseteq Lost
    BY <1>2, <1>4, <2>1 DEF Lost
  <2>3. kills' = kills
    BY <1>5 DEF ShuffleEnds
  <2>4. Cardinality(Lost') <= Cardinality(Lost) /\ Cardinality(Lost') \in Nat
    BY <1>3, <2>2, FS_Subset, FS_CardinalityType
  <2> QED
    BY <1>3, <2>3, <2>4 DEF LossesCounted
<1>6. CASE status = "killed"
  <2>1. PICK lost \in AllBlocks \cup {-1} :
          \A b \in AllBlocks : b = lost \/ \E c \in AllBlocks : order[c] = b
    BY DEF OrderInv
  <2>2. Lost' \subseteq Lost \cup {keyfile[lost]}
    BY <1>2, <1>4, <2>1 DEF Lost
  <2>3. kills' = kills + 1
    BY <1>6 DEF ShuffleEnds
  <2>4. /\ IsFiniteSet(Lost \cup {keyfile[lost]})
        /\ Cardinality(Lost \cup {keyfile[lost]}) <= Cardinality(Lost) + 1
    BY <1>3, FS_AddElement
  <2>5. /\ Cardinality(Lost') <= Cardinality(Lost \cup {keyfile[lost]})
        /\ Cardinality(Lost') \in Nat /\ Cardinality(Lost \cup {keyfile[lost]}) \in Nat
    BY <2>2, <2>4, FS_Subset, FS_CardinalityType
  <2> QED
    BY <1>3, <2>3, <2>4, <2>5 DEF LossesCounted
<1> QED
  BY <1>5, <1>6

\* A file without a torn block has the same first keys as before.
LEMMA SameFirstKeys ==
  ASSUME TWInv, OrderInv, ShuffleEnds, ~torn', pos' = pos, Count(pos) \in Nat,
         HasAll(Count(pos))
  PROVE  Reads(Count(pos))' \subseteq Reads(Count(pos))
<1>1. /\ Count(pos) <= Blocks /\ limit = Count(pos) /\ Blocks \in Nat
      /\ {m \in 0 .. Count(pos) - 1 : (m + 1) * KeyLen < Blocks * KeyLen + Rest}
           = 0 .. Count(pos) - 1
  BY FirstBlocks, WorkflowAssumption DEF OrderInv, Limit
<1>2. /\ Reads(Count(pos)) = {keyfile[b] : b \in 0 .. Count(pos) - 1}
      /\ Reads(Count(pos))' = {keyfile'[b] : b \in 0 .. Count(pos) - 1}
  BY <1>1 DEF Reads
<1>3. ASSUME NEW b \in 0 .. Count(pos) - 1
      PROVE  keyfile'[b] \in Reads(Count(pos))
  <2>1. b \in AllBlocks /\ b < limit
    BY <1>1 DEF AllBlocks
  <2>2. order[b] # -1 /\ keyfile'[b] = keyfile[order[b]]
    BY <2>1, ShuffledFile
  <2>3. order[b] \in 0 .. Count(pos) - 1
    BY <1>1, <2>1, <2>2 DEF OrderInv
  <2> QED
    BY <1>2, <2>2, <2>3
<1> QED
  BY <1>2, <1>3

LEMMA ShuffleEndsTWInv == TWInv /\ CommandEnds /\ ShuffleEnds => TWInv'
<1> SUFFICES ASSUME TWInv, CommandEnds, ShuffleEnds PROVE TWInv'
  OBVIOUS
<1>1. /\ scriptPc' = scriptPc /\ pos' = pos /\ nb' = nb /\ status' = status
      /\ wanted' = wanted /\ database' = database /\ blind' = blind
      /\ putAdded' = putAdded /\ putSound' = putSound /\ directories' = directories
      /\ action = "shuffle"
  BY DEF CommandEnds, ShuffleEnds, scriptVars, benchVars
<1>2. (\E r \in Int : Return(r)) \/ Die(Sigkill)
  <2>1. -1 \in Int /\ -2 \in Int /\ -3 \in Int
    OBVIOUS
  <2> QED
    BY <2>1 DEF ShuffleEnds
<1>3. /\ ProcessInv' /\ Done' /\ action' = action /\ mainPc' = "exited"
      /\ mainPc = "running" /\ ~Done /\ scriptPc = "waiting" /\ pos \in 0 .. Commands - 1
      /\ action = Verb(pos)
  BY <1>1, <1>2, EndProcess
<1>4. pos % 3 = 1 /\ OrderInv
  BY <1>1, <1>3, Positions DEF TWInv, ShuffleInv
<1>5. Count(pos) \in Nat
  <2>1. \A n \in 1 .. Word - 1 : n \in Nat
    BY MainAssumption
  <2> QED
    BY <1>3, <2>1, Positions
<1>6. ScriptInv' /\ Here' = Here /\ HasAll(Count(pos))' = HasAll(Count(pos))
  BY <1>1 DEF TWInv, ScriptInv, Here
<1>7. FilesInv'
  <2>1. kills' \in Nat
    BY DEF ShuffleEnds, TWInv, FilesInv
  <2>2. /\ keyfile' \in [AllBlocks -> Keys'] /\ Keys \subseteq Keys'
        /\ next' \in Nat /\ next' >= next
    BY <1>4, ShuffledFile
  <2>3. next' >= Blocks
    BY <2>2, WorkflowAssumption DEF TWInv, FilesInv
  <2>4. directories' \in [AllDirectories -> [DriverNames -> SUBSET Keys']]
    BY <1>1, <2>2 DEF TWInv, FilesInv
  <2>5. given' \subseteq Keys'
    BY <2>2 DEF TWInv, FilesInv, ShuffleEnds
  <2>6. database' \subseteq Keys' /\ wanted' \subseteq Keys' /\ putAdded' \subseteq Keys'
    BY <1>1, <2>2 DEF TWInv, FilesInv
  <2> QED
    BY <1>1, <2>1, <2>2, <2>3, <2>4, <2>5, <2>6 DEF TWInv, FilesInv
<1>8. ShuffleInv' /\ PutInv' /\ GetInv' /\ GetExplained'
  BY <1>1, <1>3 DEF ShuffleInv, PutInv, GetInv, GetExplained
<1>9. FreshInv'
  <2> SUFFICES ASSUME NEW p \in pos .. Commands - 1, p % 3 = 0, p > pos
               PROVE  directories[Directory(p)][Driver(p)] = {}
    BY <1>1, <1>3 DEF FreshInv
  <2> QED
    BY <1>3 DEF TWInv, FreshInv
<1>10. BetweenInv'
  <2>1. /\ Here \subseteq putAdded
        /\ putSound => HasAll(Count(pos)) /\ Reads(Count(pos)) \subseteq Here
    BY <1>3, <1>4 DEF TWInv, BetweenInv, Shuffled
  <2>2. putSound => torn' \/ Reads(Count(pos))' \subseteq Here
    <3> SUFFICES ASSUME putSound, ~torn'
                 PROVE  Reads(Count(pos))' \subseteq Here
      OBVIOUS
    <3>1. Reads(Count(pos))' \subseteq Reads(Count(pos))
      BY <1>1, <1>4, <1>5, <2>1, SameFirstKeys
    <3> QED
      BY <2>1, <3>1
  <2>3. Shuffled'
    BY <1>1, <1>3, <1>4 DEF Shuffled
  <2> QED
    BY <1>1, <1>6, <2>1, <2>2, <2>3 DEF BetweenInv
<1>11. LossesCounted'
  BY <1>4, LossesGrowByOne
<1> QED
  BY <1>3, <1>6, <1>7, <1>8, <1>9, <1>10, <1>11 DEF TWInv

-----------------------------------------------------------------------------
LEMMA StutterTWInv == TWInv /\ UNCHANGED vars => TWInv'
<1> SUFFICES ASSUME TWInv, UNCHANGED vars PROVE TWInv'
  OBVIOUS
<1> USE DEF vars, mainVars, scriptVars, fileVars, permVars, benchVars, historyVars
<1>1. ScriptInv' /\ ProcessInv'
  BY DEF TWInv, ScriptInv, ProcessInv, MainTypeOK
<1>2. FilesInv' /\ LossesCounted'
  BY FilesKept
<1>3. ShuffleInv'
  BY DEF TWInv, ShuffleInv, OrderInv
<1>4. PutInv' /\ GetInv'
  BY DEF TWInv, PutInv, GetInv, Reads, Here
<1>5. FreshInv' /\ GetExplained'
  BY DEF TWInv, FreshInv, GetExplained, Done
<1>6. BetweenInv'
  BY DEF TWInv, BetweenInv, Shuffled, Done, Here, Reads
<1> QED
  BY <1>1, <1>2, <1>3, <1>4, <1>5, <1>6 DEF TWInv

LEMMA NextTWInv == TWInv /\ [Next]_vars => TWInv'
<1>1. TWInv /\ CommandEnds => TWInv'
  BY BenchmarkEndsTWInv, ShuffleEndsTWInv DEF CommandEnds
<1> QED
  BY <1>1, BeginTWInv, NewDirectoryTWInv, StartCommandTWInv, NextCommandTWInv,
     ParseCommandTWInv, BenchmarksTWInv, ShufflesTWInv, StutterTWInv DEF Next

THEOREM Invariance == Spec => []TWInv
  BY InitTWInv, NextTWInv, PTL DEF Spec

\* Every variable of the script, of the command and of the files has its type.
THEOREM TypeCorrect == Spec => []TypeOK
<1>1. TWInv => TypeOK
  BY DEF TWInv, ScriptInv, ProcessInv, FilesInv, TypeOK, AllBlocks
<1> QED
  BY <1>1, Invariance, PTL

\* For any number of rounds, counts and drivers, a get that misses a key is
\* explained by the put before it or by a torn block, and one that succeeds
\* got what that put added.
THEOREM GetsExplained == Spec => []GetExplained
<1>1. TWInv => GetExplained
  BY DEF TWInv
<1> QED
  BY <1>1, Invariance, PTL

\* The file of keys loses at most one key for every shuffle that is killed.
THEOREM LossesBounded == Spec => []LossesCounted
<1>1. TWInv => LossesCounted
  BY DEF TWInv
<1> QED
  BY <1>1, Invariance, PTL
=============================================================================
