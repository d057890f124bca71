------------------------------ MODULE NbShuffle ------------------------------
(***************************************************************************)
(* nb_random_shuffle: it permutes, in place and through a shared mapping,  *)
(* the first blocks of the file of keys. Each of the two memory copies     *)
(* that write to the file has a beginning, after which the block is torn,  *)
(* and an end. The process may be killed between any two steps; what it    *)
(* wrote stays in the file, and the kernel writes blocks to the disk       *)
(* whenever it likes.                                                      *)
(***************************************************************************)
EXTENDS KeyFile, FiniteSets

CONSTANTS
  Sizes, BlockSizes, Counts,  \* bounds: file size, and the arguments bs and count
  RandMax,                    \* RAND_MAX
  Word                        \* 2^w, for the w bits of a size_t

ASSUME ShuffleAssumption ==
  /\ Sizes \subseteq Nat
  /\ BlockSizes \subseteq Nat
  /\ Counts \subseteq Nat
  /\ RandMax \in Nat \ {0}
  /\ Word \in Nat
  /\ \A s \in Sizes : s < Word

VARIABLES
  bs, count,  \* the arguments
  pc, rc, n, i, j,
  heap,       \* buf is allocated
  buf,        \* the key buf holds
  file,       \* file[b]: the key in block b, as every process sees it
  disk,       \* the same, on the disk
  alive       \* the process was not killed

args == <<size, bs, count>>
locals == <<rc, n, i, j, heap, buf>>
vars == <<fileVars, bs, count, pc, locals, file, disk, alive>>

\* The whole blocks of the file. Block b first holds key b. The bytes after
\* the last whole block are never touched.
Total == IF bs = 0 THEN 0 ELSE size \div bs
Blocks == 0 .. Total - 1
Torn == -1
NoKey == -2

Init ==
  /\ FileInit
  /\ size \in Sizes /\ bs \in BlockSizes /\ count \in Counts
  /\ pc = "start" /\ rc = 0 /\ n = 0 /\ i = 0 /\ j = 0
  /\ heap = FALSE /\ buf = NoKey
  /\ file = [b \in Blocks |-> b]
  /\ disk = file
  /\ alive = TRUE

-----------------------------------------------------------------------------
(* The steps of the function, in the order of its text                     *)

OpenFile ==
  /\ pc = "start" /\ pc' = "opened"
  /\ rc' = -1
  /\ CallOpenFile
  /\ UNCHANGED <<bs, count, n, i, j, heap, buf, file, disk>>

OpenFailed ==
  /\ pc = "opened" /\ FileReturned /\ ret # 0
  /\ pc' = "done"
  /\ UNCHANGED <<fileVars, bs, count, locals, file, disk>>

\* Mutants: n is the larger of both numbers; n is not clamped.
ComputeLargerN ==
  /\ pc = "opened" /\ FileReturned /\ ret = 0 /\ bs # 0
  /\ IF Total = 0
     THEN pc' = "closing" /\ CallCloseFile /\ UNCHANGED <<rc, n>>
     ELSE /\ pc' = "malloc"
          /\ n' = IF Total > count THEN Total ELSE count
          /\ rc' = -2
          /\ UNCHANGED fileVars
  /\ UNCHANGED <<bs, count, i, j, heap, buf, file, disk>>

ComputeFullN ==
  /\ pc = "opened" /\ FileReturned /\ ret = 0 /\ bs # 0
  /\ IF Total = 0
     THEN pc' = "closing" /\ CallCloseFile /\ UNCHANGED <<rc, n>>
     ELSE /\ pc' = "malloc" /\ n' = Total /\ rc' = -2 /\ UNCHANGED fileVars
  /\ UNCHANGED <<bs, count, i, j, heap, buf, file, disk>>

\* No whole block: nothing to do but to close the file. Otherwise n is
\* clamped to count, after it was compared with zero.
ComputeN ==
  /\ pc = "opened" /\ FileReturned /\ ret = 0 /\ bs # 0
  /\ IF Total = 0
     THEN pc' = "closing" /\ CallCloseFile /\ UNCHANGED <<rc, n>>
     ELSE /\ pc' = "malloc"
          /\ n' = IF Total > count THEN count ELSE Total
          /\ rc' = -2
          /\ UNCHANGED fileVars
  /\ UNCHANGED <<bs, count, i, j, heap, buf, file, disk>>

\* Mutant: goto error_1, as before the file was open.
MallocThenReturn ==
  /\ pc = "malloc"
  /\ \/ heap' = TRUE /\ pc' = "loop"
     \/ pc' = "done" /\ UNCHANGED heap
  /\ UNCHANGED <<fileVars, bs, count, rc, n, i, j, buf, file, disk>>

Malloc ==
  /\ pc = "malloc"
  /\ \/ heap' = TRUE /\ pc' = "loop" /\ UNCHANGED fileVars
     \/ pc' = "failing" /\ CallCloseFile /\ UNCHANGED heap
  /\ UNCHANGED <<bs, count, rc, n, i, j, buf, file, disk>>

\* Mutant: the loop goes one past the last block.
LoopGoesOn == i <= n

\* i < n - 1, for unsigned numbers
LoopGoes == i < (n - 1) % Word

\* Mutant: too few blocks to choose from.
OffsetTooCoarse(r) == r \div (RandMax \div (n - i) + 2)

\* rand() / (RAND_MAX / (n - i) + 1)
Offset(r) == r \div (RandMax \div (n - i) + 1)

PickJ ==
  /\ pc = "loop" /\ LoopGoes /\ n # i
  /\ \E r \in 0 .. RandMax : j' = i + Offset(r)
  /\ pc' = "save"
  /\ UNCHANGED <<fileVars, bs, count, rc, n, i, heap, buf, file, disk>>

\* Mutant: memcpy(buf, b, bs).
SaveB ==
  /\ pc = "save" /\ pc' = "copyA"
  /\ buf' = file[j]
  /\ UNCHANGED <<fileVars, bs, count, rc, n, i, j, heap, file, disk>>

\* memcpy(buf, a, bs)
Save ==
  /\ pc = "save" /\ pc' = "copyA"
  /\ buf' = file[i]
  /\ UNCHANGED <<fileVars, bs, count, rc, n, i, j, heap, file, disk>>

\* memcpy(a, b, bs): the block is torn while other bytes are written to it
BeginCopyA ==
  /\ pc = "copyA" /\ pc' = "copyingA"
  /\ file' = [file EXCEPT ![i] = IF i = j THEN @ ELSE Torn]
  /\ UNCHANGED <<fileVars, bs, count, locals, disk>>

EndCopyA ==
  /\ pc = "copyingA" /\ pc' = "copyB"
  /\ file' = [file EXCEPT ![i] = file[j]]
  /\ UNCHANGED <<fileVars, bs, count, locals, disk>>

\* memcpy(b, buf, bs), and the end of the iteration
BeginCopyB ==
  /\ pc = "copyB" /\ pc' = "copyingB"
  /\ file' = [file EXCEPT ![j] = IF i = j THEN @ ELSE Torn]
  /\ UNCHANGED <<fileVars, bs, count, locals, disk>>

\* Mutants: memcpy(b, a, bs); the iteration does not count.
EndCopyBFromA ==
  /\ pc = "copyingB" /\ pc' = "loop"
  /\ file' = [file EXCEPT ![j] = file[i]]
  /\ i' = i + 1
  /\ UNCHANGED <<fileVars, bs, count, rc, n, j, heap, buf, disk>>

EndCopyBUncounted ==
  /\ pc = "copyingB" /\ pc' = "loop"
  /\ file' = [file EXCEPT ![j] = buf]
  /\ UNCHANGED <<fileVars, bs, count, rc, n, i, j, heap, buf, disk>>

EndCopyB ==
  /\ pc = "copyingB" /\ pc' = "loop"
  /\ file' = [file EXCEPT ![j] = buf]
  /\ i' = i + 1
  /\ UNCHANGED <<fileVars, bs, count, rc, n, j, heap, buf, disk>>

LoopEnds ==
  /\ pc = "loop" /\ ~LoopGoes
  /\ pc' = "msync"
  /\ heap' = FALSE
  /\ rc' = -3
  /\ UNCHANGED <<fileVars, bs, count, n, i, j, buf, file, disk>>

\* Mutant: MS_ASYNC.
MsyncLater ==
  /\ pc = "msync"
  /\ pc' \in {"closing", "failing"}
  /\ CallCloseFile
  /\ UNCHANGED <<bs, count, locals, file, disk>>

Msync ==
  /\ pc = "msync"
  /\ \/ pc' = "closing" /\ disk' = file
     \/ pc' = "failing" /\ UNCHANGED disk
  /\ CallCloseFile
  /\ UNCHANGED <<bs, count, locals, file>>

\* The result of the last close is the result of the function ...
Closed ==
  /\ pc = "closing" /\ FileReturned
  /\ pc' = "done"
  /\ rc' = IF ret = 0 THEN 0 ELSE rc
  /\ UNCHANGED <<fileVars, bs, count, n, i, j, heap, buf, file, disk>>

\* ... unless an error came before: error_2.
Failed ==
  /\ pc = "failing" /\ FileReturned
  /\ pc' = "done"
  /\ UNCHANGED <<fileVars, bs, count, locals, file, disk>>

\* An integer division by zero ends the process: size / bs, or
\* RAND_MAX / (n - i).
DivideByZero ==
  /\ \/ pc = "opened" /\ FileReturned /\ ret = 0 /\ bs = 0
     \/ pc = "loop" /\ LoopGoes /\ n = i
  /\ pc' = "crashed"
  /\ UNCHANGED <<fileVars, bs, count, locals, file, disk>>

InFile ==
  /\ FileStep
  /\ UNCHANGED <<bs, count, pc, locals, file, disk>>

-----------------------------------------------------------------------------
(* The environment                                                         *)

Kill ==
  /\ alive /\ pc \notin {"start", "done", "crashed"}
  /\ alive' = FALSE
  /\ UNCHANGED <<fileVars, bs, count, pc, locals, file, disk>>

WriteBack(b) ==
  /\ disk[b] # file[b]
  /\ disk' = [disk EXCEPT ![b] = file[b]]
  /\ UNCHANGED <<fileVars, bs, count, pc, locals, file, alive>>

-----------------------------------------------------------------------------
Copy == Save \/ BeginCopyA \/ EndCopyA \/ BeginCopyB \/ EndCopyB

Run ==
  /\ alive
  /\ \/ OpenFile \/ OpenFailed \/ ComputeN \/ Malloc \/ PickJ \/ Copy
     \/ LoopEnds \/ Msync \/ Closed \/ Failed \/ DivideByZero \/ InFile
  /\ UNCHANGED alive

Next == Run \/ Kill \/ \E b \in Blocks : WriteBack(b)

\* The process runs on unless it is killed; the kernel promises nothing.
Spec == Init /\ [][Next]_vars /\ WF_vars(Run)

-----------------------------------------------------------------------------
Limit == IF Total > count THEN count ELSE Total

Swapping == {"save", "copyA", "copyingA", "copyB", "copyingB"}

Labels == Swapping \cup {"start", "opened", "malloc", "loop", "msync",
                         "closing", "failing", "done", "crashed"}

\* Every variable has its type.
TypeOK ==
  /\ FileTypeOK
  /\ bs \in Nat /\ count \in Nat
  /\ pc \in Labels
  /\ rc \in {0, -1, -2, -3}
  /\ n \in 0 .. Total
  /\ i \in Nat /\ j \in Nat
  /\ heap \in BOOLEAN /\ alive \in BOOLEAN
  /\ buf \in Blocks \cup {NoKey}
  /\ file \in [Blocks -> Blocks \cup {Torn}]
  /\ disk \in [Blocks -> Blocks \cup {Torn}]

Holds(f, k) == \E b \in Blocks : f[b] = k

\* The random source of the benchmark loses no key, even if the process is
\* killed in the middle: at every instant all keys are in the file but at
\* most one, the one that buf holds during an exchange.
KeysSurvive ==
  \A k \in Blocks : Holds(file, k) \/ (pc \in Swapping /\ heap /\ buf = k)

\* Keys outside of the first "count" are not moved: a put and a get with this
\* count would otherwise not see the same keys.
RestUntouched == \A b \in Blocks : b >= count => file[b] = b

\* A call that reports success left every key of the file in it once, on the
\* disk too, and gave the descriptor, the mapping and buf back.
SuccessIsComplete ==
  pc = "done" /\ rc = 0 =>
    /\ \A k \in Blocks : Holds(file, k)
    /\ disk = file
    /\ ~fd /\ ~map /\ ~heap

\* A call that returns, for whatever reason, holds a descriptor only if
\* munmap refused to release the mapping, and never holds memory.
ReturnReleases ==
  pc = "done" => /\ ~heap
                 /\ fd = map
                 /\ fd => ret = -1 /\ rc # 0

\* The two divisions trap only on an argument that is zero, and no block of
\* the file was changed then.
CrashOnlyOnZero ==
  pc = "crashed" => (bs = 0 \/ count = 0) /\ \A b \in Blocks : file[b] = b

\* Every block that is not settled can be chosen, as long as no more than
\* RAND_MAX pairs of blocks are left. Beyond that the division is so coarse
\* that the last offsets are never drawn, and the shuffle is not uniform.
AllPartnersPossible ==
  pc = "loop" /\ i < n /\ (n - i) * (n - i - 1) <= RandMax =>
    \A b \in i .. n - 1 : \E r \in 0 .. RandMax : b = i + Offset(r)

\* The function returns, or dies.
Terminates == <>(pc \in {"done", "crashed"} \/ ~alive)

\* The file with the exchange in progress undone.
Restored ==
  CASE pc \in {"copyingA", "copyB"} -> [file EXCEPT ![i] = buf]
    [] pc = "copyingB" -> [file EXCEPT ![i] = buf, ![j] = file[i]]
    [] OTHER -> file

\* What the file holds for the next process: a killed one undoes nothing.
Status ==
  CASE ~alive \/ pc = "crashed"  -> "killed"
    [] alive /\ pc = "done"      -> IF rc = 0 THEN "success" ELSE "failure"
    [] alive /\ pc \notin {"done", "crashed"} -> "running"

\* The copies, the system calls and the failures implement a permutation
\* that settles one block after the other; a success means that all are
\* settled, and a kill leaves at most one exchange cut off.
Perm == INSTANCE KeyPermutation WITH
          keys <- IF alive THEN Restored ELSE file,
          settled <- i, limit <- Limit, status <- Status

ImplementsPermutation == Perm!Spec
=============================================================================
