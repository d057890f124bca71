------------------------------ MODULE NbRandom ------------------------------
(***************************************************************************)
(* struct nb_random of nb_random.c as the benchmark uses it: opened by     *)
(* nb_random_create, read one key at a time by nb_random_next, closed by   *)
(* nb_random_destroy. A caller is a module that EXTENDS this one; it calls *)
(* with CallCreate or CallDestroy and goes on when randomPc is "idle".     *)
(***************************************************************************)
EXTENDS KeyFile

CONSTANT Word  \* 2^w, for the w bits of a size_t

VARIABLES
  randomPc,   \* where nb_random_create or nb_random_destroy is
  randomRet,  \* what nb_random_create returned
  cur,        \* offset of the next key
  file        \* file[o]: the key that lies at offset o

readerVars == <<randomPc, randomRet, cur>>
randomVars == <<fileVars, readerVars, file>>

RandomInit == FileInit /\ randomPc = "idle" /\ randomRet = 0 /\ cur = 0

RandomReturned == randomPc = "idle"

-----------------------------------------------------------------------------
(* nb_random_create                                                        *)

CallCreate ==
  /\ randomPc' = "opening"
  /\ cur' = 0
  /\ CallOpenFile
  /\ UNCHANGED <<randomRet, file>>

CreateFailed ==
  /\ randomPc = "opening" /\ FileReturned /\ ret # 0
  /\ randomPc' = "idle" /\ randomRet' = -1
  /\ UNCHANGED <<fileVars, cur, file>>

Madvise ==
  /\ randomPc = "opening" /\ FileReturned /\ ret = 0
  /\ \/ randomPc' = "idle" /\ randomRet' = 0 /\ UNCHANGED fileVars
     \/ randomPc' = "closing" /\ randomRet' = -2 /\ CallCloseFile
  /\ UNCHANGED <<cur, file>>

(* nb_random_destroy; its own result and that of the close are ignored     *)

CallDestroy ==
  /\ randomPc' = "closing"
  /\ CallCloseFile
  /\ UNCHANGED <<randomRet, cur, file>>

FileClosed ==
  /\ randomPc = "closing" /\ FileReturned
  /\ randomPc' = "idle"
  /\ UNCHANGED <<fileVars, randomRet, cur, file>>

InKeyFile == FileStep /\ UNCHANGED <<readerVars, file>>

RandomStep == CreateFailed \/ Madvise \/ FileClosed \/ InKeyFile

-----------------------------------------------------------------------------
(* nb_random_next                                                          *)

\* Mutant: a part of a key is enough.
NoMoreBytes(len) == cur >= size

NoMoreKeys(len) == (cur + len) % Word >= size

NextKey == file[cur]

Advance(len) ==
  /\ cur' = (cur + len) % Word
  /\ UNCHANGED <<fileVars, randomPc, randomRet, file>>

RandomTypeOK ==
  /\ FileTypeOK
  /\ randomPc \in {"idle", "opening", "closing"}
  /\ randomRet \in {0, -1, -2}
  /\ cur \in Nat
=============================================================================
