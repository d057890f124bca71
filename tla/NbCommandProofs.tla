-------------------------- MODULE NbCommandProofs --------------------------
(***************************************************************************)
(* A command of mininb runs what its command line asks for, for any line   *)
(* of any length, any conversion of numbers and any width of a size_t.     *)
(***************************************************************************)
EXTENDS NbCommand, TLAPS

Letters == Lengths \cup Names

\* The places of an option among the items read, and the last of them.
Read(c) == {n \in Given(c) : n < optind}
LastRead(c, n) == n \in Read(c) /\ \A m \in Read(c) : m <= n

\* What the name of an action makes of action.
Chosen(n) == IF line[n].text \in Actions THEN line[n].text ELSE "NULL"

LineOK ==
  /\ line \in Seq([opt : Letters \cup {"a", "?", "-"}, text : STRING])
  /\ ItemsOk(line)

\* The options are as if the line ended before the next item.
OptsInv ==
  \A c \in Letters :
    /\ Read(c) = {} => opts[c] = Defaults[c]
    /\ \A n \in DOMAIN line : LastRead(c, n) => opts[c] = Value(line[n])

ActionInv ==
  /\ Read("a") = {} => action = "get"
  /\ \A n \in DOMAIN line : LastRead("a", n) => action = Chosen(n)
  /\ action = "NULL" => \E n \in DOMAIN line : LastRead("a", n) /\ action = Chosen(n)

\* Only a line that was read to its end runs an action; a refused one is at an
\* option that is unknown, or at its end without an action.
AllRead == optind = Len(line) + 1 /\ action # "NULL"
Refused ==
  /\ exit = 255
  /\ \/ optind \in DOMAIN line /\ line[optind].opt = "?"
     \/ optind = Len(line) + 1 /\ action = "NULL"

PcInv ==
  /\ Read("?") = {}
  /\ mainPc # "exited" => exit = -1
  /\ mainPc = "running" => AllRead
  /\ mainPc = "exited" => \/ Refused
                          \/ AllRead /\ (exit = 255 => action = "shuffle")

CInv == LineOK /\ TypeOK /\ OptsInv /\ ActionInv /\ PcInv

-----------------------------------------------------------------------------
(* Values                                                                  *)

\* A number that is converted to a size_t is natural.
LEMMA ValueNatural ==
  ASSUME LineOK, NEW n \in DOMAIN line, line[n].opt \in Lengths
  PROVE  Value(line[n]) \in Nat
<1>1. line[n].text \in DOMAIN Atol
  BY DEF LineOK, ItemsOk
<1>2. Atol[line[n].text] \in Int
  BY <1>1, MainAssumption
<1> QED
  BY <1>2, MainAssumption DEF Value

\* The letters are the fields of the defaults.
LEMMA LettersAreFields == DOMAIN Defaults = Letters
  BY DEF Defaults, Letters, Lengths, Names

\* The lengths of the defaults are natural numbers.
LEMMA DefaultLengths == \A c \in Lengths : Defaults[c] \in Nat
  BY DEF Defaults, Lengths

-----------------------------------------------------------------------------
LEMMA InitCInv == Init => CInv
<1> SUFFICES ASSUME Init PROVE CInv
  OBVIOUS
<1> USE DEF Init, MainInit
<1>1. LineOK
  BY LinesAssumption DEF LineOK, Letters
<1>2. \A c : Read(c) = {}
  BY <1>1 DEF Read, Given, LineOK
<1>3. TypeOK
  BY <1>1, DefaultLengths DEF TypeOK, MainTypeOK, LineOK, Actions
<1>4. OptsInv
  BY <1>2 DEF OptsInv, LastRead
<1>5. ActionInv
  BY <1>2 DEF ActionInv, LastRead
<1> QED
  BY <1>1, <1>2, <1>3, <1>4, <1>5 DEF CInv, PcInv

\* Reading one item makes it the last one of its letter and changes no other.
LEMMA OneRead ==
  ASSUME CInv, line' = line, optind \in DOMAIN line, optind' = optind + 1,
         NEW c
  PROVE  /\ line[optind].opt # c => Read(c)' = Read(c)
         /\ line[optind].opt # c =>
              \A n \in DOMAIN line : LastRead(c, n)' <=> LastRead(c, n)
         /\ line[optind].opt = c =>
              /\ Read(c)' # {}
              /\ \A n \in DOMAIN line : LastRead(c, n)' <=> n = optind
<1>1. optind \in Nat /\ DOMAIN line \subseteq Nat
  BY DEF CInv, LineOK, TypeOK, MainTypeOK
<1>2. Read(c)' = IF line[optind].opt = c THEN Read(c) \cup {optind} ELSE Read(c)
  BY <1>1 DEF Read, Given
<1> QED
  BY <1>1, <1>2 DEF LastRead, Read, Given

LEMMA ParsingReads ==
  ASSUME CInv, Parsing
  PROVE  optind \in DOMAIN line /\ optind \in Nat /\ Len(line) \in Nat
  BY DEF CInv, LineOK, TypeOK, MainTypeOK, Parsing

\* An option leaves the action alone and becomes the last of its letter.
LEMMA ParseOptionCInv == CInv /\ ParseOption => CInv'
<1> SUFFICES ASSUME CInv, ParseOption PROVE CInv'
  OBVIOUS
<1> DEFINE here == line[optind].opt
<1>1. /\ optind \in DOMAIN line /\ optind \in Nat /\ Len(line) \in Nat
      /\ line' = line /\ optind' = optind + 1 /\ action' = action
      /\ mainPc' = mainPc /\ exit' = exit /\ mainPc = "parsing" /\ here \in Letters
      /\ opts' = [opts EXCEPT ![here] = Value(line[optind])]
  BY ParsingReads DEF ParseOption, Letters, Parsing
<1>2. DOMAIN opts = Letters /\ DOMAIN opts' = Letters
  BY <1>1, LettersAreFields DEF CInv, TypeOK, MainTypeOK
<1>3. LineOK'
  BY <1>1 DEF CInv, LineOK, ItemsOk
<1>4. TypeOK'
  <2>1. \A c \in Lengths : opts'[c] \in Nat
    BY <1>1, <1>2, ValueNatural DEF CInv, TypeOK, MainTypeOK, Letters
  <2> QED
    BY <1>1, <1>2, <2>1, LettersAreFields DEF CInv, TypeOK, MainTypeOK
<1>5. OptsInv'
  <2> SUFFICES ASSUME NEW c \in Letters
               PROVE  /\ Read(c)' = {} => opts'[c] = Defaults[c]
                      /\ \A n \in DOMAIN line :
                           LastRead(c, n)' => opts'[c] = Value(line[n])
    BY <1>1 DEF OptsInv, Value
  <2>1. CASE here = c
    BY <1>1, <1>2, <2>1, OneRead
  <2>2. CASE here # c
    <3>1. opts'[c] = opts[c]
      BY <1>1, <1>2, <2>2
    <3> QED
      BY <1>1, <2>2, <3>1, OneRead DEF CInv, OptsInv
  <2> QED
    BY <2>1, <2>2
<1>6. here # "a" /\ here # "?"
  BY <1>1 DEF Letters, Lengths, Names
<1>7. ActionInv'
  <2>1. /\ Read("a")' = Read("a")
        /\ \A n \in DOMAIN line : LastRead("a", n)' <=> LastRead("a", n)
    BY <1>1, <1>6, OneRead
  <2> QED
    BY <1>1, <2>1 DEF CInv, ActionInv, Chosen
<1>8. PcInv'
  <2>1. Read("?")' = Read("?")
    BY <1>1, <1>6, OneRead
  <2> QED
    BY <1>1, <2>1 DEF CInv, PcInv
<1> QED
  BY <1>3, <1>4, <1>5, <1>7, <1>8 DEF CInv

\* The name of an action leaves the options alone.
LEMMA ParseActionCInv == CInv /\ ParseAction => CInv'
<1> SUFFICES ASSUME CInv, ParseAction PROVE CInv'
  OBVIOUS
<1>1. /\ optind \in DOMAIN line /\ optind \in Nat /\ Len(line) \in Nat
      /\ line' = line /\ optind' = optind + 1 /\ opts' = opts
      /\ mainPc' = mainPc /\ exit' = exit /\ mainPc = "parsing"
      /\ line[optind].opt = "a" /\ action' = Chosen(optind)
  BY ParsingReads DEF ParseAction, Parsing, Chosen
<1>2. LineOK'
  BY <1>1 DEF CInv, LineOK, ItemsOk
<1>3. TypeOK'
  BY <1>1 DEF CInv, TypeOK, MainTypeOK, Chosen
<1>4. OptsInv'
  <2> SUFFICES ASSUME NEW c \in Letters
               PROVE  /\ Read(c)' = {} => opts[c] = Defaults[c]
                      /\ \A n \in DOMAIN line :
                           LastRead(c, n)' => opts[c] = Value(line[n])
    BY <1>1 DEF OptsInv, Value
  <2>1. c # "a"
    BY DEF Letters, Lengths, Names
  <2> QED
    BY <1>1, <2>1, OneRead DEF CInv, OptsInv
<1>5. ActionInv'
  <2>1. /\ Read("a")' # {}
        /\ \A n \in DOMAIN line : LastRead("a", n)' <=> n = optind
    BY <1>1, OneRead
  <2> QED
    BY <1>1, <2>1 DEF ActionInv, Chosen
<1>6. PcInv'
  <2>1. Read("?")' = Read("?")
    BY <1>1, OneRead
  <2> QED
    BY <1>1, <2>1 DEF CInv, PcInv
<1> QED
  BY <1>2, <1>3, <1>4, <1>5, <1>6 DEF CInv

\* A word that is no option changes nothing.
LEMMA SkipWordCInv == CInv /\ SkipWord => CInv'
<1> SUFFICES ASSUME CInv, SkipWord PROVE CInv'
  OBVIOUS
<1>1. /\ optind \in DOMAIN line /\ optind \in Nat /\ Len(line) \in Nat
      /\ line' = line /\ optind' = optind + 1 /\ opts' = opts /\ action' = action
      /\ mainPc' = mainPc /\ exit' = exit /\ mainPc = "parsing"
      /\ line[optind].opt = "-"
  BY ParsingReads DEF SkipWord, Parsing
<1>2. \A c \in Letters \cup {"a", "?"} : line[optind].opt # c
  BY <1>1 DEF Letters, Lengths, Names
<1>3. \A c \in Letters \cup {"a", "?"} :
        /\ Read(c)' = Read(c)
        /\ \A n \in DOMAIN line : LastRead(c, n)' <=> LastRead(c, n)
  BY <1>1, <1>2, OneRead
<1>4. LineOK'
  BY <1>1 DEF CInv, LineOK, ItemsOk
<1>5. TypeOK'
  BY <1>1 DEF CInv, TypeOK, MainTypeOK
<1>6. OptsInv'
  BY <1>1, <1>3 DEF CInv, OptsInv, Value
<1>7. ActionInv'
  BY <1>1, <1>3 DEF CInv, ActionInv, Chosen
<1>8. PcInv'
  BY <1>1, <1>3 DEF CInv, PcInv
<1> QED
  BY <1>4, <1>5, <1>6, <1>7, <1>8 DEF CInv

\* A step that reads nothing keeps all but the control.
LEMMA NothingRead ==
  ASSUME CInv, UNCHANGED <<line, optind, opts, action>>
  PROVE  LineOK' /\ OptsInv' /\ ActionInv' /\ (Read("?") = {})'
<1>1. \A c : Read(c)' = Read(c)
  BY DEF Read, Given
<1>2. \A c : \A n \in DOMAIN line : LastRead(c, n)' <=> LastRead(c, n)
  BY <1>1 DEF LastRead
<1>3. LineOK'
  BY DEF CInv, LineOK, ItemsOk
<1>4. OptsInv'
  BY <1>1, <1>2 DEF CInv, OptsInv, Value
<1>5. ActionInv'
  BY <1>1, <1>2 DEF CInv, ActionInv, Chosen
<1>6. (Read("?") = {})'
  BY <1>1 DEF CInv, PcInv
<1> QED
  BY <1>3, <1>4, <1>5, <1>6

\* What main refuses.
LEMMA RefuseCInv == CInv /\ (InvalidOption \/ InvalidAction) => CInv'
<1> SUFFICES ASSUME CInv, InvalidOption \/ InvalidAction PROVE CInv'
  OBVIOUS
<1>1. UNCHANGED <<line, optind, opts, action>> /\ mainPc' = "exited" /\ exit' = 255
  <2>1. (-1) % 256 = 255
    <3>1. \A r \in Int : r + 1 = 0 => r % 256 = 255
      OBVIOUS
    <3> QED
      BY <3>1, -1 \in Int, -1 + 1 = 0, Zenon
  <2>2. CASE InvalidOption
    BY <2>1, <2>2, Zenon DEF InvalidOption, ExitWith
  <2>3. CASE InvalidAction
    BY <2>1, <2>3, Zenon DEF InvalidAction, ExitWith
  <2> QED
    BY <2>2, <2>3
<1>2. Refused'
  <2>1. CASE InvalidOption
    BY <1>1, <2>1, ParsingReads DEF InvalidOption, Refused
  <2>2. CASE InvalidAction
    BY <1>1, <2>2 DEF InvalidAction, Refused, CInv, TypeOK, MainTypeOK, LineOK
  <2> QED
    BY <2>1, <2>2
<1>3. TypeOK'
  BY <1>1 DEF CInv, TypeOK, MainTypeOK
<1> QED
  BY <1>1, <1>2, <1>3, NothingRead DEF CInv, PcInv

\* A line that was read to its end calls the action it chose.
LEMMA CallActionCInv == CInv /\ CallAction => CInv'
<1> SUFFICES ASSUME CInv, CallAction PROVE CInv'
  OBVIOUS
<1>1. UNCHANGED <<line, optind, opts, action>> /\ mainPc' = "running" /\ exit' = exit
  BY DEF CallAction
<1>2. AllRead'
  BY <1>1 DEF CallAction, AllRead, CInv, TypeOK, MainTypeOK, LineOK
<1>3. TypeOK'
  BY <1>1 DEF CInv, TypeOK, MainTypeOK
<1> QED
  BY <1>1, <1>2, <1>3, NothingRead DEF CInv, PcInv, CallAction

\* Whatever an action returns, and however it dies, its status is a byte, and
\* it is that of -1 for a shuffle only.
LEMMA EndCInv ==
  CInv /\ ((\E r \in Results : Return(r)) \/ DivideByZero \/ Die(Sigkill)) => CInv'
<1> SUFFICES ASSUME CInv, (\E r \in Results : Return(r)) \/ DivideByZero \/ Die(Sigkill)
             PROVE  CInv'
  OBVIOUS
<1>1. /\ UNCHANGED <<line, optind, opts, action>> /\ mainPc' = "exited"
      /\ mainPc = "running"
  BY DEF Return, ExitWith, DivideByZero, Die
<1>2. exit' \in 0 .. 255 /\ (exit' = 255 => action = "shuffle")
  <2>1. CASE \E r \in Results : Return(r)
    <3>1. PICK r \in Results : Return(r)
      BY <2>1
    <3>2. CASE action = "shuffle"
      BY <3>1, <3>2 DEF Return, ExitWith, ActionResult, Results
    <3>3. CASE action # "shuffle"
      BY <3>1, <3>3 DEF Return, ExitWith, ActionResult, Results
    <3> QED
      BY <3>2, <3>3
  <2>2. CASE DivideByZero
    BY <2>2 DEF DivideByZero, Die, Sigfpe
  <2>3. CASE Die(Sigkill)
    BY <2>3 DEF Die, Sigkill
  <2> QED
    BY <2>1, <2>2, <2>3
<1>3. AllRead'
  BY <1>1 DEF CInv, PcInv, AllRead
<1>4. TypeOK'
  BY <1>1, <1>2 DEF CInv, TypeOK, MainTypeOK
<1> QED
  BY <1>1, <1>2, <1>3, <1>4, NothingRead DEF CInv, PcInv

LEMMA NextCInv == CInv /\ [Next]_mainVars => CInv'
<1> SUFFICES ASSUME CInv, [Next]_mainVars PROVE CInv'
  OBVIOUS
<1>1. CASE UNCHANGED mainVars
  <2>1. UNCHANGED <<line, optind, opts, action, mainPc, exit>>
    BY <1>1 DEF mainVars
  <2>2. TypeOK'
    BY <2>1 DEF CInv, TypeOK, MainTypeOK
  <2>3. PcInv'
    BY <2>1, NothingRead DEF CInv, PcInv, Refused, AllRead
  <2> QED
    BY <2>1, <2>2, <2>3, NothingRead DEF CInv
<1> QED
  BY <1>1, ParseOptionCInv, ParseActionCInv, SkipWordCInv, RefuseCInv, CallActionCInv,
     EndCInv DEF Next, Parse

THEOREM Invariance == Spec => []CInv
  BY InitCInv, NextCInv, PTL DEF Spec

\* Every variable of main has its type; a status is a byte.
THEOREM TypeCorrect == Spec => []TypeOK
<1>1. CInv => TypeOK
  BY DEF CInv
<1> QED
  BY <1>1, Invariance, PTL

-----------------------------------------------------------------------------
\* When all is read, the items read are the line.
LEMMA AllIsGiven ==
  ASSUME CInv, optind = Len(line) + 1, NEW c
  PROVE  Read(c) = Given(c) /\ \A n \in DOMAIN line : LastRead(c, n) <=> Last(c, n)
<1>1. Read(c) = Given(c)
  BY DEF CInv, LineOK, Read, Given
<1> QED
  BY <1>1 DEF LastRead, Last

LEMMA AsAsked == CInv => RunsAsAsked
<1> SUFFICES ASSUME CInv, mainPc # "parsing"
             PROVE  IF Clear
                    THEN /\ Given("a") = {} => action = "get"
                         /\ \A n \in DOMAIN line : Last("a", n) => action = line[n].text
                         /\ \A c \in DOMAIN Defaults :
                              /\ Given(c) = {} => opts[c] = Defaults[c]
                              /\ \A n \in DOMAIN line : Last(c, n) => opts[c] = Value(line[n])
                         /\ exit = 255 => action = "shuffle"
                    ELSE mainPc = "exited" /\ exit = 255
  BY DEF RunsAsAsked
<1>1. CASE AllRead /\ (mainPc = "exited" => (exit = 255 => action = "shuffle"))
  <2>1. /\ \A c : Read(c) = Given(c)
        /\ \A c : \A n \in DOMAIN line : LastRead(c, n) <=> Last(c, n)
    BY <1>1, AllIsGiven DEF AllRead
  <2>2. \A n \in DOMAIN line : Last("a", n) => line[n].text \in Actions /\ action = line[n].text
    BY <1>1, <2>1 DEF CInv, ActionInv, Chosen, AllRead
  <2>3. Clear
    BY <2>1, <2>2 DEF Clear, CInv, PcInv
  <2>4. Given("a") = {} => action = "get"
    BY <2>1 DEF CInv, ActionInv
  <2>5. \A c \in DOMAIN Defaults :
          /\ Given(c) = {} => opts[c] = Defaults[c]
          /\ \A n \in DOMAIN line : Last(c, n) => opts[c] = Value(line[n])
    BY <2>1, LettersAreFields DEF CInv, OptsInv
  <2>6. exit = 255 => action = "shuffle"
    BY <1>1 DEF CInv, PcInv
  <2> QED
    BY <2>2, <2>3, <2>4, <2>5, <2>6
<1>2. CASE mainPc = "exited" /\ Refused
  <2>1. CASE optind \in DOMAIN line /\ line[optind].opt = "?"
    <3>1. ~Clear
      BY <2>1 DEF Clear, Given
    <3> QED
      BY <1>2, <3>1 DEF Refused
  <2>2. CASE optind = Len(line) + 1 /\ action = "NULL"
    <3>1. PICK n \in DOMAIN line : LastRead("a", n) /\ action = Chosen(n)
      BY <2>2 DEF CInv, ActionInv
    <3>2. Last("a", n)
      BY <2>2, <3>1, AllIsGiven
    <3>3. line[n].text \notin Actions
      BY <2>2, <3>1 DEF Chosen, Actions
    <3>4. ~Clear
      BY <3>2, <3>3 DEF Clear
    <3> QED
      BY <1>2, <3>4 DEF Refused
  <2> QED
    BY <1>2, <2>1, <2>2 DEF Refused
<1>3. mainPc \in {"running", "exited"}
  BY DEF CInv, TypeOK, MainTypeOK
<1> QED
  BY <1>1, <1>2, <1>3 DEF CInv, PcInv

\* Whatever the line, main runs the action that it names last with the options
\* as it gives them last, or nothing if the line is not clear.
THEOREM LineObeyed == Spec => []RunsAsAsked
  BY AsAsked, Invariance, PTL
=============================================================================
