------------------------------- MODULE KeyFile -------------------------------
(***************************************************************************)
(* The file of random keys as nb_random.c opens and closes it: the system  *)
(* calls of nb_random_open_file and nb_random_close_file, each of which    *)
(* may fail. A caller is a module that EXTENDS this one; it sets io to the *)
(* first call with CallOpenFile or CallCloseFile and reads ret when io is  *)
(* back to "idle".                                                         *)
(***************************************************************************)
EXTENDS Integers

VARIABLES
  io,    \* the system call to make next, "idle" outside of both functions
  ret,   \* what the last of both functions returned
  fd,    \* the descriptor is open
  map,   \* the file is mapped
  size   \* st_size of the file, and random.end while it is mapped

fileVars == <<io, ret, fd, map, size>>

IoCalls == {"idle", "open", "fstat", "mmap", "undo", "munmap", "close"}

FileInit ==
  /\ io = "idle"
  /\ ret = 0
  /\ fd = FALSE
  /\ map = FALSE

FileReturned == io = "idle"

Return(r) == io' = "idle" /\ ret' = r

-----------------------------------------------------------------------------
(* nb_random_open_file                                                     *)

CallOpenFile ==
  /\ io' = "open"
  /\ UNCHANGED <<ret, fd, map, size>>

Open ==
  /\ io = "open"
  /\ \/ fd' = TRUE /\ io' = "fstat" /\ UNCHANGED ret
     \/ Return(-1) /\ UNCHANGED fd
  /\ UNCHANGED <<map, size>>

Fstat ==
  /\ io = "fstat"
  /\ \/ io' = "mmap" /\ UNCHANGED ret
     \/ io' = "undo" /\ ret' = -1
  /\ UNCHANGED <<fd, map, size>>

\* An empty file cannot be mapped.
Mmap ==
  /\ io = "mmap"
  /\ \/ size > 0 /\ map' = TRUE /\ Return(0)
     \/ io' = "undo" /\ ret' = -2 /\ UNCHANGED map
  /\ UNCHANGED <<fd, size>>

\* error_2: close, whose result is ignored; it releases the descriptor even
\* when it reports an error.
UndoOpen ==
  /\ io = "undo"
  /\ fd' = FALSE
  /\ io' = "idle"
  /\ UNCHANGED <<ret, map, size>>

(* nb_random_close_file                                                    *)

CallCloseFile ==
  /\ io' = "munmap"
  /\ UNCHANGED <<ret, fd, map, size>>

\* The descriptor stays open when munmap fails.
Munmap ==
  /\ io = "munmap"
  /\ \/ map' = FALSE /\ io' = "close" /\ UNCHANGED ret
     \/ Return(-1) /\ UNCHANGED map
  /\ UNCHANGED <<fd, size>>

Close ==
  /\ io = "close"
  /\ fd' = FALSE
  /\ Return(0) \/ Return(-2)
  /\ UNCHANGED <<map, size>>

FileStep == Open \/ Fstat \/ Mmap \/ UndoOpen \/ Munmap \/ Close

FileTypeOK ==
  /\ io \in IoCalls
  /\ ret \in {0, -1, -2}
  /\ fd \in BOOLEAN
  /\ map \in BOOLEAN
  /\ size \in Nat
=============================================================================
