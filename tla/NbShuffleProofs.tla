-------------------------- MODULE NbShuffleProofs --------------------------
(***************************************************************************)
(* Proofs about NbShuffle, for every file, block size, count and RAND_MAX. *)
(***************************************************************************)
EXTENDS NbShuffle, TLAPS

USE ShuffleAssumption

-----------------------------------------------------------------------------
(* Arithmetic of the random index                                          *)

LEMMA DivBounds ==
  ASSUME NEW a \in Nat, NEW b \in Nat \ {0}
  PROVE  /\ a \div b \in Nat
         /\ b * (a \div b) <= a
         /\ a < b * (a \div b + 1)
  OBVIOUS

LEMMA CancelFactor ==
  ASSUME NEW a \in Nat, NEW b \in Nat, NEW c \in Nat, c * a < c * b
  PROVE  a < b
<1>1. a >= b => c * a >= c * b
  OBVIOUS
<1>. QED  BY <1>1

(* rand() / (RAND_MAX / m + 1) is below m, whatever rand() returns.        *)
LEMMA RandomBelow ==
  ASSUME NEW m \in Nat \ {0}, NEW r \in 0 .. RandMax
  PROVE  /\ r \div (RandMax \div m + 1) \in Nat
         /\ r \div (RandMax \div m + 1) < m
<1>. DEFINE c == RandMax \div m + 1
            o == r \div c
<1>1. c \in Nat \ {0} /\ RandMax < m * c
  BY DivBounds
<1>. HIDE DEF c
<1>2. o \in Nat /\ c * o <= r
  BY <1>1, DivBounds
<1>. HIDE DEF o
<1>3. c * o < c * m
  <2>1. c * m = m * c /\ c * o \in Nat /\ m * c \in Nat
    BY <1>1, <1>2
  <2>. QED  BY <1>1, <1>2, <2>1
<1>4. o < m
  BY <1>1, <1>2, <1>3, CancelFactor
<1>. QED  BY <1>2, <1>4 DEF c, o

(* With no more than RAND_MAX pairs of m blocks, each offset below m is    *)
(* drawn: offset k for the random number k * (RAND_MAX / m + 1).           *)
LEMMA RandomReaches ==
  ASSUME NEW m \in Nat \ {0}, m * (m - 1) <= RandMax, NEW k \in 0 .. m - 1
  PROVE  \E r \in 0 .. RandMax : k = r \div (RandMax \div m + 1)
<1>. DEFINE q == RandMax \div m
<1>1. q \in Nat /\ m * q <= RandMax /\ RandMax < m * (q + 1)
  BY DivBounds
<1>. HIDE DEF q
<1>2. m - 1 <= q
  <2>1. m * (m - 1) < m * (q + 1)
    BY <1>1
  <2>2. m - 1 < q + 1
    BY <1>1, <2>1, CancelFactor
  <2>. QED  BY <1>1, <2>2
<1>. DEFINE r == k * (q + 1)
<1>3. r \in 0 .. RandMax
  <2>1. k * q <= (m - 1) * q
    BY <1>1
  <2>2. (m - 1) * q = m * q - q
    BY <1>1
  <2>3. r = k * q + k /\ r \in Nat
    BY <1>1
  <2>4. k <= m - 1
    OBVIOUS
  <2>5. k * q \in Nat /\ m * q \in Nat
    BY <1>1
  <2>. HIDE DEF r
  <2>. QED  BY <1>1, <1>2, <2>1, <2>2, <2>3, <2>4, <2>5
<1>4. r \div (q + 1) = k
  <2>. DEFINE c == q + 1
              d == r \div c
  <2>1. c \in Nat \ {0} /\ r \in Nat /\ r = c * k
    BY <1>1
  <2>. HIDE DEF c, r
  <2>2. d \in Nat /\ c * d <= r /\ r < c * (d + 1)
    BY <2>1, DivBounds
  <2>. HIDE DEF d
  <2>3. k < d + 1
    BY <2>1, <2>2, CancelFactor
  <2>4. d < k + 1
    <3>1. c * d < c * (k + 1)
      BY <2>1, <2>2
    <3>. QED  BY <2>1, <2>2, <3>1, CancelFactor
  <2>. QED  BY <2>2, <2>3, <2>4 DEF d, c
<1>. QED  BY <1>3, <1>4 DEF q

LEMMA TotalBounds ==
  ASSUME size \in Nat, bs \in Nat
  PROVE  Total \in Nat /\ Total <= size
<1>1. CASE bs = 0
  BY <1>1 DEF Total
<1>2. CASE bs # 0
  <2>1. /\ size \div bs \in Nat
        /\ bs * (size \div bs) <= size
    BY <1>2, DivBounds
  <2>2. size \div bs <= bs * (size \div bs)
    <3>. DEFINE q == size \div bs
    <3>1. q \in Nat  BY <2>1
    <3>. HIDE DEF q
    <3>2. q <= bs * q  BY <1>2, <3>1
    <3>. QED  BY <3>2 DEF q
  <2>. QED  BY <1>2, <2>1, <2>2 DEF Total
<1>. QED  BY <1>1, <1>2

-----------------------------------------------------------------------------
(* The inductive invariant, in parts                                       *)

Working == Swapping \cup {"malloc", "loop", "msync"}
Identity == [b \in Blocks |-> b]

(* Types, without the variables that hold keys.                            *)
CInv ==
  /\ FileTypeOK
  /\ bs \in Nat /\ count \in Nat /\ size < Word
  /\ pc \in Labels
  /\ rc \in {0, -1, -2, -3}
  /\ n \in 0 .. Total
  /\ i \in Nat /\ j \in Nat

BInv == heap \in BOOLEAN /\ alive \in BOOLEAN

(* Which system calls are possible at each label, and what is open then.   *)
FInv ==
  /\ io = "open" => ~fd /\ ~map
  /\ io \in {"fstat", "mmap", "undo", "close"} => fd /\ ~map
  /\ io = "munmap" => fd /\ map
  /\ io = "undo" => ret # 0
  /\ pc = "start" => io = "idle" /\ ~fd /\ ~map
  /\ pc = "opened" => io \in {"idle", "open", "fstat", "mmap", "undo"}
  /\ pc = "opened" /\ io = "idle" =>
       IF ret = 0 THEN fd /\ map ELSE ~fd /\ ~map
  /\ pc \in Working => io = "idle" /\ fd /\ map
  /\ pc \in {"closing", "failing"} => io \in {"idle", "munmap", "close"}
  /\ pc \in {"closing", "failing", "done"} /\ io = "idle" =>
       (fd <=> map) /\ (fd => ret = -1)
  /\ pc \in {"done", "crashed"} => io = "idle"

(* The result is zero only before the first call and after a success; buf  *)
(* is allocated in the loop only.                                          *)
RInv ==
  /\ pc \notin {"start", "done"} => rc # 0
  /\ pc = "done" /\ fd => rc # 0
  /\ pc \in Swapping \cup {"loop"} => heap
  /\ pc \in {"start", "opened", "malloc", "msync", "closing", "failing", "done"} => ~heap

(* The indexes of the loop.                                                *)
LInv ==
  /\ pc \in {"start", "opened", "malloc"} => i = 0
  /\ pc \in Swapping \cup {"malloc", "loop"} => Total > 0 /\ n = Limit
  /\ pc = "loop" => i <= n
  /\ pc \in Swapping => i < n - 1 /\ i <= j /\ j < n

Control == CInv /\ BInv /\ FInv /\ RInv /\ LInv

LEMMA InitControl == Init => Control
<1> SUFFICES ASSUME Init PROVE Control
  OBVIOUS
<1>1. size \in Nat /\ bs \in Nat /\ count \in Nat /\ size < Word
  BY DEF Init
<1>2. Total \in Nat
  BY <1>1, TotalBounds
<1>3. CInv
  <2>1. pc = "start" /\ rc = 0 /\ n = 0 /\ i = 0 /\ j = 0 /\ FileInit
    BY DEF Init
  <2>2. FileTypeOK
    BY <1>1, <2>1 DEF FileInit, FileTypeOK, IoCalls
  <2>. QED  BY <1>1, <1>2, <2>1, <2>2 DEF CInv, Labels
<1>4. BInv
  BY DEF Init, BInv
<1>5. FInv /\ RInv /\ LInv
  BY DEF Init, FileInit, FInv, RInv, LInv, Swapping, Working
<1>. QED  BY <1>3, <1>4, <1>5 DEF Control

LEMMA FileStepControl ==
  ASSUME Control, FileStep, UNCHANGED <<bs, count, pc, locals, alive>>
  PROVE  Control'
<1>1. /\ bs' = bs /\ count' = count /\ pc' = pc /\ rc' = rc /\ n' = n
      /\ i' = i /\ j' = j /\ heap' = heap /\ alive' = alive /\ size' = size
  BY DEF locals, FileStep, Open, Fstat, Mmap, UndoOpen, Munmap, Close
<1>2. CInv'
  BY <1>1 DEF Control, CInv, FileTypeOK, IoCalls, FileStep, Open, Fstat, Mmap,
    UndoOpen, Munmap, Close, Return, Total
<1>3. FInv'
  BY <1>1 DEF Control, CInv, FInv, FileTypeOK, IoCalls, FileStep, Open, Fstat,
    Mmap, UndoOpen, Munmap, Close, Return, Working, Swapping, Labels
<1>4. RInv' /\ LInv'
  BY <1>1 DEF Control, CInv, FInv, RInv, LInv, Total, Limit, FileStep, Open, Fstat,
    Mmap, UndoOpen, Munmap, Close, Return
<1>5. BInv'
  BY <1>1 DEF Control, BInv
<1>. QED  BY <1>2, <1>3, <1>4, <1>5 DEF Control

(* The guard of the loop, as it reads for signed numbers.                  *)
LEMMA LoopGuard ==
  ASSUME Control, pc = "loop"
  PROVE  /\ n > 0 => (LoopGoes <=> i < n - 1)
         /\ LoopGoes /\ n = i => n = 0
<1>1. n \in Nat /\ n < Word /\ i \in Nat /\ i <= n
  BY TotalBounds DEF Control, CInv, LInv, FileTypeOK
<1>2. n > 0 => (n - 1) % Word = n - 1
  BY <1>1
<1>. QED  BY <1>1, <1>2 DEF LoopGoes

LEMMA PickJControl == Control /\ PickJ /\ UNCHANGED alive => Control'
<1> SUFFICES ASSUME Control, PickJ, UNCHANGED alive PROVE Control'
  OBVIOUS
<1>1. PICK r \in 0 .. RandMax : j' = i + Offset(r)
  BY DEF PickJ
<1>2. /\ bs' = bs /\ count' = count /\ rc' = rc /\ n' = n /\ i' = i /\ heap' = heap
      /\ io' = io /\ ret' = ret /\ fd' = fd /\ map' = map /\ size' = size
      /\ pc = "loop" /\ pc' = "save"
  BY DEF PickJ, fileVars
<1>3. n \in Nat /\ i \in Nat /\ n > 0 /\ i < n - 1
  BY LoopGuard DEF Control, CInv, LInv, PickJ
<1>4. Offset(r) \in Nat /\ Offset(r) < n - i
  <2>1. n - i \in Nat \ {0}
    BY <1>3
  <2>. QED  BY <2>1, RandomBelow DEF Offset
<1>5. i <= j' /\ j' < n /\ j' \in Nat
  BY <1>1, <1>3, <1>4
<1>6. BInv'
  BY <1>2 DEF Control, BInv
<1>. QED
  BY <1>2, <1>3, <1>5, <1>6 DEF Control, CInv, FInv, RInv, LInv, FileTypeOK, Total,
    Limit, Labels, Swapping, Working

LEMMA CopyControl == Control /\ Copy /\ UNCHANGED alive => Control'
<1> SUFFICES ASSUME Control, Copy, UNCHANGED alive PROVE Control'
  OBVIOUS
<1>1. /\ bs' = bs /\ count' = count /\ rc' = rc /\ n' = n /\ j' = j /\ heap' = heap
      /\ io' = io /\ ret' = ret /\ fd' = fd /\ map' = map /\ size' = size
      /\ pc \in Swapping
      /\ IF pc = "copyingB" THEN i' = i + 1 /\ pc' = "loop"
                            ELSE i' = i /\ pc' \in Swapping
  BY DEF Copy, Save, BeginCopyA, EndCopyA, BeginCopyB, EndCopyB, fileVars, locals,
    Swapping
<1>2. BInv'
  BY <1>1 DEF Control, BInv
<1>. QED
  BY <1>1, <1>2 DEF Control, CInv, FInv, RInv, LInv, FileTypeOK, Total, Limit, Labels,
    Swapping, Working

LEMMA NextControl == Control /\ [Next]_vars => Control'
<1> SUFFICES ASSUME Control, [Next]_vars PROVE Control'
  OBVIOUS
<1>0. /\ Total \in Nat
      /\ Limit = IF Total > count THEN count ELSE Total
      /\ size' = size /\ bs' = bs /\ count' = count => Total' = Total /\ Limit' = Limit
  BY TotalBounds DEF Control, CInv, FileTypeOK, Total, Limit
<1>. USE DEF Control, CInv, BInv, FInv, RInv, LInv, FileTypeOK, IoCalls,
         Labels, Swapping, Working, fileVars, locals
<1>1. CASE OpenFile /\ UNCHANGED alive
  BY <1>1, <1>0 DEF OpenFile, CallOpenFile
<1>2. CASE OpenFailed /\ UNCHANGED alive
  BY <1>2, <1>0 DEF OpenFailed, FileReturned
<1>3. CASE ComputeN /\ UNCHANGED alive
  <2>1. /\ bs' = bs /\ count' = count /\ i' = i /\ j' = j /\ size' = size
        /\ ret' = ret /\ fd' = fd /\ map' = map
        /\ pc = "opened" /\ io = "idle" /\ ret = 0
        /\ IF Total = 0
           THEN pc' = "closing" /\ io' = "munmap" /\ rc' = rc /\ n' = n
           ELSE pc' = "malloc" /\ n' = Limit /\ rc' = -2 /\ io' = io
    BY <1>3, <1>0 DEF ComputeN, FileReturned, CallCloseFile
  <2>2. heap' = heap /\ alive' = alive
    BY <1>3 DEF ComputeN
  <2>3. CInv'  BY <2>1, <1>0
  <2>4. BInv'  BY <2>2
  <2>5. FInv'  BY <2>1
  <2>6. RInv'  BY <2>1, <2>2
  <2>7. LInv'  BY <2>1, <1>0
  <2>. QED  BY <2>3, <2>4, <2>5, <2>6, <2>7
<1>4. CASE Malloc /\ UNCHANGED alive
  <2>1. CInv'  BY <1>4, <1>0 DEF Malloc, CallCloseFile
  <2>2. BInv'  BY <1>4 DEF Malloc, CallCloseFile
  <2>3. FInv'  BY <1>4, <1>0 DEF Malloc, CallCloseFile
  <2>4. /\ pc = "malloc" /\ rc' = rc
        /\ \/ pc' = "loop" /\ heap' = TRUE
           \/ pc' = "failing" /\ heap' = heap
    BY <1>4 DEF Malloc
  <2>5. RInv'  BY <2>4
  <2>6. /\ pc = "malloc" /\ pc' \in {"loop", "failing"}
        /\ i' = i /\ n' = n /\ size' = size /\ bs' = bs /\ count' = count
    BY <1>4 DEF Malloc, CallCloseFile
  <2>7. LInv'  BY <2>6, <1>0
  <2>. QED  BY <2>1, <2>2, <2>3, <2>5, <2>7
<1>5. CASE PickJ /\ UNCHANGED alive
  BY <1>5, PickJControl
<1>6. CASE Copy /\ UNCHANGED alive
  BY <1>6, CopyControl
<1>7. CASE LoopEnds /\ UNCHANGED alive
  <2>1. CInv'           BY <1>7, <1>0 DEF LoopEnds
  <2>2. BInv'           BY <1>7 DEF LoopEnds
  <2>3. FInv'           BY <1>7, <1>0 DEF LoopEnds
  <2>4. RInv' /\ LInv'  BY <1>7, <1>0 DEF LoopEnds
  <2>. QED  BY <2>1, <2>2, <2>3, <2>4
<1>8. CASE Msync /\ UNCHANGED alive
  BY <1>8, <1>0 DEF Msync, CallCloseFile
<1>9. CASE Closed /\ UNCHANGED alive
  BY <1>9, <1>0 DEF Closed, FileReturned
<1>10. CASE Failed /\ UNCHANGED alive
  BY <1>10, <1>0 DEF Failed, FileReturned
<1>11. CASE DivideByZero /\ UNCHANGED alive
  BY <1>11, <1>0 DEF DivideByZero, FileReturned
<1>12. CASE InFile /\ UNCHANGED alive
  BY <1>12, FileStepControl DEF InFile
<1>13. CASE Kill
  <2>1. CInv'           BY <1>13, <1>0 DEF Kill
  <2>2. BInv'           BY <1>13 DEF Kill
  <2>3. FInv'           BY <1>13, <1>0 DEF Kill
  <2>4. RInv' /\ LInv'  BY <1>13, <1>0 DEF Kill
  <2>. QED  BY <2>1, <2>2, <2>3, <2>4
<1>14. CASE \E b \in Blocks : WriteBack(b)
  BY <1>14, <1>0 DEF WriteBack
<1>15. CASE UNCHANGED vars
  BY <1>15, <1>0 DEF vars
<1>. QED
  BY <1>1, <1>2, <1>3, <1>4, <1>5, <1>6, <1>7, <1>8, <1>9, <1>10, <1>11, <1>12,
     <1>13, <1>14, <1>15 DEF Next, Run

(* Whatever the random numbers are, both blocks of an exchange lie among   *)
(* the first n, j not before i.                                            *)
InBounds == pc \in Swapping => i <= j /\ j < n /\ n <= Total

(* Both blocks of an exchange are blocks of the file: nothing is copied    *)
(* from or to the memory behind it.                                        *)
THEOREM IndexesInBounds == Spec => []InBounds
<1>1. Control => InBounds
  BY TotalBounds DEF Control, CInv, LInv, InBounds, FileTypeOK
<1>. QED  BY <1>1, InitControl, NextControl, PTL DEF Spec

(* Whatever call fails, a call of the function that returns holds no       *)
(* memory, and holds the file only if munmap failed.                       *)
THEOREM ResourcesReleased == Spec => []ReturnReleases
<1>1. Control => ReturnReleases
  BY DEF Control, CInv, FInv, RInv, FileTypeOK, ReturnReleases
<1>. QED  BY <1>1, InitControl, NextControl, PTL DEF Spec

(* Each block that is not settled can be chosen, as long as there are no   *)
(* more pairs of blocks than RAND_MAX.                                     *)
THEOREM PartnersPossible == Spec => []AllPartnersPossible
<1>1. Control => AllPartnersPossible
  <2> SUFFICES ASSUME Control, pc = "loop", i < n, (n - i) * (n - i - 1) <= RandMax,
                      NEW b \in i .. n - 1
               PROVE  \E r \in 0 .. RandMax : b = i + Offset(r)
    BY DEF AllPartnersPossible
  <2>. DEFINE m == n - i
              k == b - i
  <2>1. n \in Nat /\ i \in Nat
    BY TotalBounds DEF Control, CInv, FileTypeOK
  <2>2. m \in Nat \ {0} /\ k \in 0 .. m - 1 /\ m * (m - 1) <= RandMax
    BY <2>1
  <2>. HIDE DEF m, k
  <2>3. PICK r \in 0 .. RandMax : k = r \div (RandMax \div m + 1)
    BY <2>2, RandomReaches
  <2>4. k = Offset(r)
    BY <2>3 DEF Offset, m
  <2>. QED  BY <2>1, <2>4 DEF k
<1>. QED  BY <1>1, InitControl, NextControl, PTL DEF Spec

-----------------------------------------------------------------------------
(* The keys: the file with the exchange in progress undone is, at every    *)
(* instant, a permutation of the keys, stated as a function onto Blocks.   *)

Copying == {"copyA", "copyingA", "copyB", "copyingB"}

DInv ==
  /\ file \in [Blocks -> Blocks \cup {Torn}]
  /\ buf \in Blocks \cup {NoKey}
  /\ Restored \in [Blocks -> Blocks]
  /\ \A k \in Blocks : Holds(Restored, k)
  /\ pc \in Copying => buf \in Blocks /\ (i = j => buf = file[i])
  /\ pc = "copyA" => buf = file[i]
  /\ pc = "copyB" => file[i] = file[j]
  /\ pc \in {"copyB", "copyingB"} => file[i] \in Blocks
  /\ pc = "copyingA" /\ i # j => file[i] = Torn
  /\ pc = "copyingB" /\ i # j => file[j] = Torn

LEMMA IndexesAreBlocks ==
  ASSUME Control, pc \in Swapping
  PROVE  i \in Blocks /\ j \in Blocks /\ i < count /\ j < count /\ i \in Nat
<1>1. /\ i \in Nat /\ j \in Nat /\ n \in 0 .. Total /\ n = Limit /\ count \in Nat
      /\ i <= j /\ j < n
  BY DEF Control, CInv, LInv
<1>2. Total \in Nat
  BY TotalBounds DEF Control, CInv, FileTypeOK
<1>. QED  BY <1>1, <1>2 DEF Limit, Blocks

(* The size of the file and the arguments never change.                    *)
LEMMA BlocksFixed ==
  ASSUME [Next]_vars
  PROVE  /\ size' = size /\ bs' = bs /\ count' = count
         /\ Blocks' = Blocks /\ Limit' = Limit
<1>1. size' = size /\ bs' = bs /\ count' = count
  BY DEF Next, Run, OpenFile, OpenFailed, ComputeN, Malloc, PickJ, Copy, Save,
    BeginCopyA, EndCopyA, BeginCopyB, EndCopyB, LoopEnds, Msync, Closed, Failed,
    DivideByZero, InFile, FileStep, Open, Fstat, Mmap, UndoOpen, Munmap, Close,
    Kill, WriteBack, CallOpenFile, CallCloseFile, fileVars, vars
<1>. QED  BY <1>1 DEF Blocks, Total, Limit

(* Steps outside of the copies change neither the file nor buf.            *)
LEMMA OtherSteps ==
  ASSUME [Next]_vars, ~Copy
  PROVE  /\ file' = file /\ buf' = buf /\ i' = i
         /\ \/ pc' = pc /\ j' = j
            \/ (pc \notin Copying /\ pc' \notin Copying)
  BY DEF Next, Run, OpenFile, OpenFailed, ComputeN, Malloc, PickJ,
    LoopEnds, Msync, Closed, Failed, DivideByZero, InFile, Kill, WriteBack,
    vars, locals, Copying

(* The five steps of an exchange. The first four leave Restored as it is;  *)
(* the last one exchanges its blocks i and j.                              *)
LEMMA SaveData ==
  ASSUME Control, DInv, Save, Blocks' = Blocks
  PROVE  DInv' /\ Restored' = Restored
<1>1. /\ i \in Blocks /\ pc = "save" /\ pc' = "copyA" /\ buf' = file[i]
      /\ file' = file /\ i' = i /\ j' = j
  BY IndexesAreBlocks DEF Save, Swapping
<1>2. Restored = file /\ Restored' = file
  BY <1>1 DEF Restored
<1>3. file[i] \in Blocks
  BY <1>1, <1>2 DEF DInv
<1>. QED  BY <1>1, <1>2, <1>3 DEF DInv, Copying, Holds

LEMMA BeginCopyAData ==
  ASSUME Control, DInv, BeginCopyA, Blocks' = Blocks
  PROVE  DInv' /\ Restored' = Restored
<1>1. /\ i \in Blocks /\ pc = "copyA" /\ pc' = "copyingA" /\ buf' = buf
      /\ file' = [file EXCEPT ![i] = IF i = j THEN @ ELSE Torn]
      /\ i' = i /\ j' = j
  BY IndexesAreBlocks DEF BeginCopyA, Swapping, locals
<1>2. buf = file[i] /\ buf \in Blocks /\ file \in [Blocks -> Blocks \cup {Torn}]
  BY <1>1 DEF DInv, Copying
<1>3. Restored = file
  BY <1>1 DEF Restored
<1>4. Restored' = [file' EXCEPT ![i] = buf]
  BY <1>1 DEF Restored
<1>5. file' \in [Blocks -> Blocks \cup {Torn}]
  BY <1>1, <1>2
<1>6. [file' EXCEPT ![i] = buf] = file
  BY <1>1, <1>2
<1>7. i = j => buf = file'[i]
  BY <1>1, <1>2
<1>. QED  BY <1>1, <1>2, <1>3, <1>4, <1>5, <1>6, <1>7 DEF DInv, Copying, Holds

LEMMA EndCopyAData ==
  ASSUME Control, DInv, EndCopyA, Blocks' = Blocks
  PROVE  DInv' /\ Restored' = Restored
<1>1. /\ i \in Blocks /\ j \in Blocks /\ pc = "copyingA" /\ pc' = "copyB"
      /\ buf' = buf /\ file' = [file EXCEPT ![i] = file[j]] /\ i' = i /\ j' = j
  BY IndexesAreBlocks DEF EndCopyA, Swapping, locals
<1>2. /\ buf \in Blocks /\ file \in [Blocks -> Blocks \cup {Torn}]
      /\ i = j => buf = file[i]
  BY <1>1 DEF DInv, Copying
<1>3. Restored = [file EXCEPT ![i] = buf] /\ Restored' = [file' EXCEPT ![i] = buf]
  BY <1>1 DEF Restored
<1>4. file[j] \in Blocks
  <2>1. Restored[j] = file[j]
    BY <1>1, <1>2, <1>3
  <2>. QED  BY <1>1, <2>1 DEF DInv
<1>5. file' \in [Blocks -> Blocks \cup {Torn}] /\ file'[i] = file'[j] /\ file'[i] \in Blocks
  BY <1>1, <1>2, <1>4
<1>6. Restored' = Restored
  BY <1>1, <1>2, <1>3
<1>7. i = j => buf = file'[i]
  BY <1>1, <1>2
<1>. QED  BY <1>1, <1>2, <1>5, <1>6, <1>7 DEF DInv, Copying, Holds

LEMMA BeginCopyBData ==
  ASSUME Control, DInv, BeginCopyB, Blocks' = Blocks
  PROVE  DInv' /\ Restored' = Restored
<1>1. /\ i \in Blocks /\ j \in Blocks /\ pc = "copyB" /\ pc' = "copyingB"
      /\ buf' = buf /\ i' = i /\ j' = j
      /\ file' = [file EXCEPT ![j] = IF i = j THEN @ ELSE Torn]
  BY IndexesAreBlocks DEF BeginCopyB, Swapping, locals
<1>2. /\ buf \in Blocks /\ file \in [Blocks -> Blocks \cup {Torn}]
      /\ i = j => buf = file[i]
      /\ file[i] = file[j] /\ file[i] \in Blocks
  BY <1>1 DEF DInv, Copying
<1>3. /\ Restored = [file EXCEPT ![i] = buf]
      /\ Restored' = [file' EXCEPT ![i] = buf, ![j] = file'[i]]
  BY <1>1 DEF Restored
<1>4. /\ file' \in [Blocks -> Blocks \cup {Torn}]
      /\ file'[i] = file[i]
  BY <1>1, <1>2
<1>5. Restored' = Restored
  BY <1>1, <1>2, <1>3, <1>4
<1>. QED  BY <1>1, <1>2, <1>4, <1>5 DEF DInv, Copying, Holds

LEMMA ExchangeOnto ==
  ASSUME NEW f \in [Blocks -> Blocks], NEW a \in Blocks, NEW b \in Blocks,
         \A k \in Blocks : Holds(f, k)
  PROVE  /\ Perm!Exchange(f, a, b) \in [Blocks -> Blocks]
         /\ \A k \in Blocks : Holds(Perm!Exchange(f, a, b), k)
<1>. DEFINE g == Perm!Exchange(f, a, b)
<1>1. /\ g \in [Blocks -> Blocks]
      /\ g[b] = f[a]
      /\ a # b => g[a] = f[b]
      /\ \A c \in Blocks \ {a, b} : g[c] = f[c]
  BY DEF Perm!Exchange
<1>2. ASSUME NEW k \in Blocks PROVE Holds(g, k)
  <2>1. PICK c \in Blocks : f[c] = k
    BY DEF Holds
  <2>2. CASE c = a
    BY <1>1, <2>1, <2>2 DEF Holds
  <2>3. CASE c = b /\ a # b
    BY <1>1, <2>1, <2>3 DEF Holds
  <2>4. CASE c \notin {a, b}
    BY <1>1, <2>1, <2>4 DEF Holds
  <2>. QED  BY <2>2, <2>3, <2>4
<1>. QED  BY <1>1, <1>2

LEMMA EndCopyBData ==
  ASSUME Control, DInv, EndCopyB, Blocks' = Blocks
  PROVE  DInv' /\ Restored' = Perm!Exchange(Restored, i, j)
<1>1. /\ i \in Blocks /\ j \in Blocks /\ pc = "copyingB" /\ pc' = "loop"
      /\ buf' = buf /\ file' = [file EXCEPT ![j] = buf]
  BY IndexesAreBlocks DEF EndCopyB, Swapping
<1>2. /\ buf \in Blocks /\ file \in [Blocks -> Blocks \cup {Torn}]
      /\ i = j => buf = file[i]
      /\ file[i] \in Blocks
  BY <1>1 DEF DInv, Copying
<1>3. Restored = [file EXCEPT ![i] = buf, ![j] = file[i]] /\ Restored' = file'
  BY <1>1 DEF Restored
<1>4. Restored' = Perm!Exchange(Restored, i, j)
  BY <1>1, <1>2, <1>3 DEF Perm!Exchange
<1>5. Restored' \in [Blocks -> Blocks] /\ \A k \in Blocks : Holds(Restored', k)
  BY <1>1, <1>4, ExchangeOnto DEF DInv
<1>6. file' \in [Blocks -> Blocks \cup {Torn}]
  BY <1>1, <1>2
<1>. QED  BY <1>1, <1>2, <1>4, <1>5, <1>6 DEF DInv, Copying, Holds

LEMMA OtherData ==
  ASSUME Control, DInv, [Next]_vars, ~Copy
  PROVE  DInv' /\ Restored' = Restored /\ i' = i
<1>1. /\ file' = file /\ buf' = buf /\ i' = i
      /\ \/ pc' = pc /\ j' = j
         \/ (pc \notin Copying /\ pc' \notin Copying)
  BY OtherSteps
<1>2. Blocks' = Blocks
  BY BlocksFixed
<1>3. Restored' = Restored
  BY <1>1 DEF Restored, Copying
<1>. QED  BY <1>1, <1>2, <1>3 DEF DInv, Copying, Holds

LEMMA InitData == Init => DInv
  BY DEF Init, DInv, Restored, Holds, Copying

LEMMA NextData == Control /\ DInv /\ [Next]_vars => DInv'
<1> SUFFICES ASSUME Control, DInv, [Next]_vars PROVE DInv'
  OBVIOUS
<1>. QED
  BY BlocksFixed, SaveData, BeginCopyAData, EndCopyAData, BeginCopyBData,
     EndCopyBData, OtherData DEF Copy

(* No key of the file is ever lost by a shuffle, even by one that is       *)
(* killed: all keys are in the file, but for the one that buf holds.       *)
THEOREM NoKeyLost == Spec => []KeysSurvive
<1>1. Control /\ DInv => KeysSurvive
  <2> SUFFICES ASSUME Control, DInv, NEW k \in Blocks
               PROVE  Holds(file, k) \/ (pc \in Swapping /\ heap /\ buf = k)
    BY DEF KeysSurvive
  <2>1. PICK b \in Blocks : Restored[b] = k
    BY DEF DInv, Holds
  <2>2. CASE pc \notin Copying \/ pc = "copyA"
    <3>1. Restored = file
      BY <2>2 DEF Restored, Copying
    <3>. QED  BY <2>1, <3>1 DEF Holds
  <2>3. CASE pc \in {"copyingA", "copyB", "copyingB"}
    <3>1. pc \in Swapping /\ heap /\ i \in Blocks /\ j \in Blocks
      BY <2>3, IndexesAreBlocks DEF Control, RInv, Swapping
    <3>2. /\ file \in [Blocks -> Blocks \cup {Torn}]
          /\ \/ Restored = [file EXCEPT ![i] = buf]
             \/ Restored = [file EXCEPT ![i] = buf, ![j] = file[i]]
      BY <2>3 DEF Restored, DInv
    <3>3. Restored[b] \in {buf, file[i], file[b]}
      BY <3>1, <3>2
    <3>. QED  BY <2>1, <3>1, <3>3 DEF Holds
  <2>. QED  BY <2>2, <2>3 DEF Copying
<1>. QED  BY <1>1, InitControl, InitData, NextControl, NextData, PTL DEF Spec

-----------------------------------------------------------------------------
(* A step of an exchange writes to blocks i and j only.                    *)
LEMMA WritesToPair ==
  ASSUME Control, DInv, [Next]_vars
  PROVE  /\ \A b \in Blocks : file'[b] = file[b] \/ (pc \in Swapping /\ b \in {i, j})
<1>1. CASE Copy
  <2>1. /\ pc \in Swapping
        /\ \/ file' = file
           \/ \E v : file' = [file EXCEPT ![i] = v]
           \/ \E v : file' = [file EXCEPT ![j] = v]
    BY <1>1 DEF Copy, Save, BeginCopyA, EndCopyA, BeginCopyB, EndCopyB, Swapping
  <2>2. file \in [Blocks -> Blocks \cup {Torn}]
    BY DEF DInv
  <2>. QED  BY <2>1, <2>2
<1>2. CASE ~Copy
  BY <1>2, OtherSteps
<1>. QED  BY <1>1, <1>2

(* A step changes no block that the loop has passed.                       *)
PassedBlocksFixed ==
  [][\A b \in Blocks : b < i => file'[b] = file[b]]_vars

(* A block the loop has passed keeps its key for good.                     *)
THEOREM PassedBlocksStay == Spec => PassedBlocksFixed
<1>1. Control /\ DInv /\ [Next]_vars =>
        [\A b \in Blocks : b < i => file'[b] = file[b]]_vars
  <2> SUFFICES ASSUME Control, DInv, Next, NEW b \in Blocks, b < i
               PROVE  file'[b] = file[b]
    OBVIOUS
  <2>1. pc \in Swapping => ~(b \in {i, j})
    <3>1. Total \in Nat
      BY TotalBounds DEF Control, CInv, FileTypeOK
    <3>. QED  BY <3>1 DEF Control, CInv, LInv, Blocks
  <2>. QED  BY <2>1, WritesToPair
<1>. QED
  BY <1>1, InitControl, InitData, NextControl, NextData, PTL DEF Spec, PassedBlocksFixed

(* The keys outside of the first "count" never move.                       *)
THEOREM RestStays == Spec => []RestUntouched
<1>1. Init => RestUntouched
  BY DEF Init, RestUntouched
<1>2. Control /\ DInv /\ RestUntouched /\ [Next]_vars => RestUntouched'
  <2> SUFFICES ASSUME Control, DInv, RestUntouched, [Next]_vars,
                      NEW b \in Blocks, b >= count
               PROVE  file'[b] = b
    BY BlocksFixed DEF RestUntouched
  <2>1. pc \in Swapping => ~(b \in {i, j})
    <3>1. pc \in Swapping => i < count /\ j < count
      BY IndexesAreBlocks
    <3>2. count \in Nat /\ i \in Nat /\ j \in Nat /\ b \in Int
      BY DEF Control, CInv, Blocks
    <3>. QED  BY <3>1, <3>2
  <2>2. file[b] = b
    BY DEF RestUntouched
  <2>. QED  BY <2>1, <2>2, WritesToPair
<1>. QED
  BY <1>1, <1>2, InitControl, InitData, NextControl, NextData, PTL DEF Spec

-----------------------------------------------------------------------------
(* The disk, and what a success means                                      *)

SInv ==
  /\ disk \in [Blocks -> Blocks \cup {Torn}]
  /\ pc = "closing" => disk = file
  /\ pc = "done" /\ rc = 0 => disk = file

(* Before the first exchange the file is as it was.                        *)
UInv ==
  /\ pc \in {"start", "opened", "malloc"} => file = Identity /\ disk = Identity
  /\ pc = "loop" /\ i = 0 => file = Identity
  /\ pc = "crashed" => (bs = 0 \/ count = 0) /\ file = Identity

LEMMA NextSInv == Control /\ DInv /\ UInv /\ SInv /\ [Next]_vars => SInv'
<1> SUFFICES ASSUME Control, DInv, UInv, SInv, [Next]_vars PROVE SInv'
  OBVIOUS
<1>0. Blocks' = Blocks /\ file \in [Blocks -> Blocks \cup {Torn}]
  BY BlocksFixed DEF DInv
<1>1. CASE \E b \in Blocks : WriteBack(b)
  <2>1. PICK b \in Blocks : WriteBack(b)
    BY <1>1
  <2>2. /\ disk' = [disk EXCEPT ![b] = file[b]] /\ disk # file
        /\ pc' = pc /\ file' = file /\ rc' = rc
    BY <2>1 DEF WriteBack, locals
  <2>. QED  BY <1>0, <2>2 DEF SInv
<1>2. CASE Copy
  <2>1. disk' = disk /\ pc' \notin {"closing", "done"}
    BY <1>2 DEF Copy, Save, BeginCopyA, EndCopyA, BeginCopyB, EndCopyB
  <2>. QED  BY <1>0, <2>1 DEF SInv
<1>3. CASE ComputeN
  <2>1. disk' = disk /\ file' = file /\ pc = "opened" /\ pc' # "done"
    BY <1>3 DEF ComputeN
  <2>. QED  BY <1>0, <2>1 DEF SInv, UInv
<1>4. CASE Msync
  <2>1. /\ file' = file /\ pc' # "done"
        /\ \/ pc' = "closing" /\ disk' = file
           \/ pc' = "failing" /\ disk' = disk
    BY <1>4 DEF Msync
  <2>. QED  BY <1>0, <2>1 DEF SInv
<1>5. CASE Closed
  <2>1. disk' = disk /\ file' = file /\ pc = "closing"
    BY <1>5 DEF Closed
  <2>. QED  BY <1>0, <2>1 DEF SInv
<1>6. CASE OpenFailed \/ Failed
  <2>1. /\ disk' = disk /\ file' = file /\ pc' = "done" /\ rc' = rc
        /\ pc \in {"opened", "failing"}
    BY <1>6 DEF OpenFailed, Failed, locals
  <2>2. rc # 0
    BY <2>1 DEF Control, RInv
  <2>. QED  BY <1>0, <2>1, <2>2 DEF SInv
<1>7. CASE OpenFile \/ Malloc \/ PickJ \/ LoopEnds \/ DivideByZero
  <2>1. disk' = disk /\ file' = file /\ pc' \notin {"closing", "done"}
    BY <1>7 DEF OpenFile, Malloc, PickJ, LoopEnds, DivideByZero
  <2>. QED  BY <1>0, <2>1 DEF SInv
<1>8. CASE InFile \/ Kill \/ UNCHANGED vars
  <2>1. disk' = disk /\ file' = file /\ pc' = pc /\ rc' = rc
    BY <1>8 DEF InFile, Kill, vars, locals
  <2>. QED  BY <1>0, <2>1 DEF SInv
<1>. QED
  BY <1>1, <1>2, <1>3, <1>4, <1>5, <1>6, <1>7, <1>8 DEF Next, Run

LEMMA NextUInv == Control /\ DInv /\ UInv /\ [Next]_vars => UInv'
<1> SUFFICES ASSUME Control, DInv, UInv, [Next]_vars PROVE UInv'
  OBVIOUS
<1>0. /\ Identity' = Identity /\ bs' = bs /\ count' = count
      /\ i \in Nat /\ n \in Nat /\ count \in Nat
  BY BlocksFixed, TotalBounds DEF Identity, Control, CInv, FileTypeOK
<1>1. CASE \E b \in Blocks : WriteBack(b)
  <2>1. PICK b \in Blocks : WriteBack(b)
    BY <1>1
  <2>2. /\ pc' = pc /\ file' = file /\ i' = i
        /\ disk[b] # file[b]
    BY <2>1 DEF WriteBack, locals
  <2>3. pc \notin {"start", "opened", "malloc"}
    BY <2>2 DEF UInv
  <2>. QED  BY <1>0, <2>2, <2>3 DEF UInv
<1>2. CASE Copy
  <2>1. pc' \in Swapping \/ (pc' = "loop" /\ i' = i + 1)
    BY <1>2 DEF Copy, Save, BeginCopyA, EndCopyA, BeginCopyB, EndCopyB, Swapping
  <2>. QED  BY <1>0, <2>1 DEF UInv, Swapping
<1>3. CASE DivideByZero
  <2>1. /\ file' = file /\ pc' = "crashed"
        /\ \/ pc = "opened" /\ bs = 0
           \/ pc = "loop" /\ LoopGoes /\ n = i
    BY <1>3 DEF DivideByZero
  <2>2. pc = "loop" /\ LoopGoes /\ n = i => n = 0 /\ count = 0
    <3>1. pc = "loop" => Total > 0 /\ n = Limit
      BY DEF Control, LInv
    <3>. QED  BY <1>0, <3>1, LoopGuard DEF Limit
  <2>3. file = Identity
    BY <2>1, <2>2, <1>0 DEF UInv
  <2>. QED  BY <1>0, <2>1, <2>2, <2>3 DEF UInv
<1>4. CASE Malloc \/ OpenFile \/ ComputeN
  <2>1. /\ file' = file /\ disk' = disk /\ pc \in {"start", "opened", "malloc"}
        /\ pc' \in {"opened", "malloc", "loop", "closing", "failing"}
    BY <1>4 DEF Malloc, OpenFile, ComputeN
  <2>. QED  BY <1>0, <2>1 DEF UInv
<1>5. CASE OpenFailed \/ PickJ \/ LoopEnds \/ Msync \/ Closed \/ Failed
  <2>1. pc' \in {"done", "save", "msync", "closing", "failing"}
    BY <1>5 DEF OpenFailed, PickJ, LoopEnds, Msync, Closed, Failed
  <2>. QED  BY <1>0, <2>1 DEF UInv
<1>6. CASE InFile \/ Kill \/ UNCHANGED vars
  <2>1. disk' = disk /\ file' = file /\ pc' = pc /\ i' = i
    BY <1>6 DEF InFile, Kill, vars, locals
  <2>. QED  BY <1>0, <2>1 DEF UInv
<1>. QED
  BY <1>1, <1>2, <1>3, <1>4, <1>5, <1>6 DEF Next, Run

IInv == Control /\ DInv /\ UInv /\ SInv

LEMMA InitIInv == Init => IInv
<1>1. Init => UInv
  BY DEF Init, UInv, Identity
<1>2. Init => SInv
  BY DEF Init, SInv
<1>. QED  BY <1>1, <1>2, InitControl, InitData DEF IInv

LEMMA NextIInv == IInv /\ [Next]_vars => IInv'
  BY NextControl, NextData, NextUInv, NextSInv DEF IInv

(* Every variable keeps its type; in particular a block of the file holds  *)
(* a key of the file or is torn.                                           *)
THEOREM TypeCorrect == Spec => []TypeOK
<1>1. IInv => TypeOK
  BY DEF IInv, Control, CInv, BInv, DInv, SInv, TypeOK
<1>. QED  BY <1>1, InitIInv, NextIInv, PTL DEF Spec

(* A success means that every key is in the file, and the file on the disk.*)
THEOREM SuccessComplete == Spec => []SuccessIsComplete
<1>1. IInv => SuccessIsComplete
  <2> SUFFICES ASSUME IInv, pc = "done", rc = 0
               PROVE  /\ \A k \in Blocks : Holds(file, k)
                      /\ disk = file
                      /\ ~fd /\ ~map /\ ~heap
    BY DEF SuccessIsComplete
  <2>1. Restored = file
    BY DEF Restored
  <2>2. \A k \in Blocks : Holds(file, k)
    BY <2>1 DEF IInv, DInv
  <2>3. disk = file
    BY DEF IInv, SInv
  <2>4. ~fd /\ ~map /\ ~heap
    BY DEF IInv, Control, RInv, FInv
  <2>. QED  BY <2>2, <2>3, <2>4
<1>. QED  BY <1>1, InitIInv, NextIInv, PTL DEF Spec

(* The two divisions of the function trap only on a zero argument.         *)
THEOREM CrashNeedsZero == Spec => []CrashOnlyOnZero
<1>1. IInv => CrashOnlyOnZero
  BY DEF IInv, UInv, CrashOnlyOnZero, Identity
<1>. QED  BY <1>1, InitIInv, NextIInv, PTL DEF Spec

-----------------------------------------------------------------------------
(* The variant: how many steps the process has left, at most. An iteration *)
(* of the loop is six of them, an open of the file four, a close two.      *)
IoLeft ==
  CASE io = "open"               -> 4
    [] io = "fstat"              -> 3
    [] io \in {"mmap", "munmap"} -> 2
    [] io \in {"undo", "close"}  -> 1
    [] io = "idle"               -> 0

LoopLeft ==
  CASE pc \in {"start", "opened", "malloc"} -> 6 * Total
    [] pc \in Swapping \cup {"loop"}        -> 6 * (n - i)
    [] pc \in {"msync", "closing", "failing", "done", "crashed"} -> 0

LabelsLeft ==
  CASE pc = "start"    -> 21
    [] pc = "opened"   -> 16
    [] pc = "malloc"   -> 15
    [] pc = "loop"     -> 14
    [] pc = "save"     -> 13
    [] pc = "copyA"    -> 12
    [] pc = "copyingA" -> 11
    [] pc = "copyB"    -> 10
    [] pc = "copyingB" -> 9
    [] pc = "msync"    -> 8
    [] pc \in {"closing", "failing"} -> 5
    [] pc \in {"done", "crashed"}    -> 0

StepsLeft == LoopLeft + LabelsLeft + IoLeft
StepsBound == 6 * Total + 21

StepsInBound == StepsLeft \in 0 .. StepsBound

StepsUsedUp ==
  [][IF Run THEN StepsLeft' < StepsLeft ELSE StepsLeft' = StepsLeft]_vars

LEMMA VariantTypes ==
  ASSUME Control
  PROVE  /\ IoLeft \in 0 .. 4 /\ LabelsLeft \in 0 .. 21
         /\ LoopLeft \in 0 .. 6 * Total
         /\ StepsInBound
<1>1. Total \in Nat /\ n \in 0 .. Total /\ i \in Nat /\ pc \in Labels /\ io \in IoCalls
  BY TotalBounds DEF Control, CInv, FileTypeOK
<1>2. pc \in Swapping \cup {"loop"} => i <= n
  BY <1>1 DEF Control, LInv, Swapping
<1>3. IoLeft \in 0 .. 4
  BY <1>1 DEF IoLeft, IoCalls
<1>4. LabelsLeft \in 0 .. 21
  BY <1>1 DEF LabelsLeft, Labels, Swapping
<1>5. LoopLeft \in 0 .. 6 * Total
  <2>1. CASE pc \in {"start", "opened", "malloc"}
    <3>1. LoopLeft = 6 * Total
      BY <2>1 DEF LoopLeft, Swapping
    <3>. QED  BY <1>1, <3>1
  <2>2. CASE pc \in Swapping \cup {"loop"}
    <3>1. LoopLeft = 6 * (n - i)
      BY <2>2 DEF LoopLeft, Swapping
    <3>. QED  BY <1>1, <1>2, <2>2, <3>1
  <2>3. CASE pc \in {"msync", "closing", "failing", "done", "crashed"}
    <3>1. LoopLeft = 0
      BY <2>3 DEF LoopLeft, Swapping
    <3>. QED  BY <1>1, <3>1
  <2>. QED  BY <1>1, <2>1, <2>2, <2>3 DEF Labels
<1>6. StepsInBound
  <2>1. CASE pc = "start"
    <3>1. io = "idle"
      BY <2>1 DEF Control, FInv
    <3>2. IoLeft = 0
      BY <3>1 DEF IoLeft
    <3>. QED  BY <1>1, <1>4, <1>5, <3>2 DEF StepsInBound, StepsLeft, StepsBound
  <2>2. CASE pc # "start"
    <3>1. LabelsLeft \in 0 .. 16
      BY <1>1, <2>2 DEF LabelsLeft, Labels, Swapping
    <3>. QED  BY <1>1, <1>3, <1>5, <3>1 DEF StepsInBound, StepsLeft, StepsBound
  <2>. QED  BY <2>1, <2>2
<1>. QED  BY <1>3, <1>4, <1>5, <1>6

LEMMA SumLess ==
  ASSUME NEW a \in Int, NEW b \in Int, NEW c \in Int, NEW d \in Int, a < b
  PROVE  c + d + a < c + d + b /\ c + a + d < c + b + d
  OBVIOUS

(* A system call uses up one of its steps.                                 *)
LEMMA FileStepLess ==
  ASSUME Control, FileStep, UNCHANGED <<bs, count, pc, locals>>
  PROVE  StepsLeft' < StepsLeft
<1>1. /\ size' = size /\ IoLeft' < IoLeft /\ IoLeft' \in Nat
  BY DEF FileStep, Open, Fstat, Mmap, UndoOpen, Munmap, Close, Return, IoLeft
<1>2. LabelsLeft' = LabelsLeft /\ LoopLeft' = LoopLeft
  BY <1>1 DEF LabelsLeft, LoopLeft, Total, locals
<1>3. IoLeft \in Nat /\ LabelsLeft \in Nat /\ LoopLeft \in Nat
  BY VariantTypes, TotalBounds DEF Control, CInv, FileTypeOK
<1>4. IoLeft \in Int /\ IoLeft' \in Int /\ LabelsLeft \in Int /\ LoopLeft \in Int
  BY <1>1, <1>3
<1>5. LoopLeft + LabelsLeft + IoLeft' < LoopLeft + LabelsLeft + IoLeft
  BY <1>1, <1>4, SumLess
<1>. QED  BY <1>2, <1>5 DEF StepsLeft

(* An iteration has six steps; the last one makes n - i smaller.           *)
LEMMA CopyLess ==
  ASSUME Control, Copy
  PROVE  StepsLeft' < StepsLeft
<1>1. n \in Nat /\ i \in Nat /\ i < n /\ io = "idle"
  BY TotalBounds DEF Copy, Save, BeginCopyA, EndCopyA, BeginCopyB, EndCopyB, Control, CInv,
    FInv, LInv, FileTypeOK, Swapping, Working
<1>2. n' = n /\ io' = io
  BY DEF Copy, Save, BeginCopyA, EndCopyA, BeginCopyB, EndCopyB, fileVars, locals
<1>3. IoLeft = 0 /\ IoLeft' = 0
  BY <1>1, <1>2 DEF IoLeft
<1>4. CASE EndCopyB
  <2>1. pc = "copyingB" /\ pc' = "loop" /\ i' = i + 1
    BY <1>4 DEF EndCopyB
  <2>2. /\ LabelsLeft = 9 /\ LabelsLeft' = 14
        /\ LoopLeft = 6 * (n - i) /\ LoopLeft' = 6 * (n' - i')
    BY <2>1 DEF LabelsLeft, LoopLeft, Swapping
  <2>. QED  BY <1>1, <1>2, <1>3, <2>1, <2>2 DEF StepsLeft
<1>5. CASE Save \/ BeginCopyA \/ EndCopyA \/ BeginCopyB
  <2>1. i' = i /\ \/ pc = "save" /\ pc' = "copyA"
                  \/ pc = "copyA" /\ pc' = "copyingA"
                  \/ pc = "copyingA" /\ pc' = "copyB"
                  \/ pc = "copyB" /\ pc' = "copyingB"
    BY <1>5 DEF Save, BeginCopyA, EndCopyA, BeginCopyB, locals
  <2>2. /\ LabelsLeft' < LabelsLeft /\ LabelsLeft \in Nat /\ LabelsLeft' \in Nat
        /\ LoopLeft = 6 * (n - i) /\ LoopLeft' = 6 * (n' - i')
    BY <2>1 DEF LabelsLeft, LoopLeft, Swapping
  <2>3. LoopLeft \in Int /\ LoopLeft' = LoopLeft
    BY <1>1, <1>2, <2>1, <2>2
  <2>. QED  BY <1>3, <2>2, <2>3, SumLess DEF StepsLeft
<1>. QED  BY <1>4, <1>5 DEF Copy

LEMMA RunLess ==
  ASSUME Control, Control', Run
  PROVE  StepsLeft' < StepsLeft
<1>1. CASE InFile
  BY <1>1, FileStepLess DEF InFile
<1>2. CASE Copy
  BY <1>2, CopyLess
<1>3. CASE ~InFile /\ ~Copy
  <2>1. /\ Total \in Nat /\ size' = size /\ bs' = bs /\ Total' = Total
        /\ n' \in 0 .. Total
    <3>1. size' = size /\ bs' = bs
      BY <1>3 DEF Run, OpenFile, OpenFailed, ComputeN, Malloc, PickJ, LoopEnds, Msync,
        Closed, Failed, DivideByZero, CallOpenFile, CallCloseFile, fileVars
    <3>2. Total' = Total /\ n' \in 0 .. Total'
      BY <3>1 DEF Total, Control, CInv
    <3>. QED  BY <3>1, <3>2, TotalBounds DEF Control, CInv, FileTypeOK
  <2>2. IoLeft \in 0 .. 4 /\ LabelsLeft \in 0 .. 21 /\ LoopLeft \in 0 .. 6 * Total
    BY VariantTypes
  <2>3. CASE OpenFile
    <3>1. pc = "start" /\ pc' = "opened" /\ io = "idle" /\ io' = "open"
      BY <2>3 DEF OpenFile, CallOpenFile, Control, FInv
    <3>2. /\ LabelsLeft = 21 /\ LabelsLeft' = 16 /\ IoLeft = 0 /\ IoLeft' = 4
          /\ LoopLeft = 6 * Total /\ LoopLeft' = 6 * Total
      BY <2>1, <3>1 DEF LabelsLeft, IoLeft, LoopLeft, Swapping
    <3>. QED  BY <2>1, <3>2 DEF StepsLeft
  <2>4. CASE ComputeN
    <3>1. pc = "opened" /\ io = "idle"
      BY <2>4 DEF ComputeN, FileReturned
    <3>2. LabelsLeft = 16 /\ IoLeft = 0 /\ LoopLeft = 6 * Total
      BY <3>1 DEF LabelsLeft, IoLeft, LoopLeft, Swapping
    <3>3. \/ pc' = "closing" /\ io' = "munmap"
          \/ pc' = "malloc" /\ io' = "idle"
      BY <2>4, <3>1 DEF ComputeN, CallCloseFile, fileVars
    <3>4. \/ LabelsLeft' = 5 /\ IoLeft' = 2 /\ LoopLeft' = 0
          \/ LabelsLeft' = 15 /\ IoLeft' = 0 /\ LoopLeft' = 6 * Total
      BY <2>1, <3>3 DEF LabelsLeft, IoLeft, LoopLeft, Swapping
    <3>. QED  BY <2>1, <3>2, <3>4 DEF StepsLeft
  <2>5. CASE Malloc
    <3>1. pc = "malloc" /\ io = "idle" /\ i = 0 /\ i' = 0 /\ n \in 0 .. Total /\ n' = n
      BY <2>1, <2>5 DEF Malloc, Control, CInv, FInv, LInv, Working
    <3>2. LabelsLeft = 15 /\ IoLeft = 0 /\ LoopLeft = 6 * Total
      BY <3>1 DEF LabelsLeft, IoLeft, LoopLeft, Swapping
    <3>3. \/ pc' = "failing" /\ io' = "munmap"
          \/ pc' = "loop" /\ io' = "idle"
      BY <2>5, <3>1 DEF Malloc, CallCloseFile, fileVars
    <3>4. \/ LabelsLeft' = 5 /\ IoLeft' = 2 /\ LoopLeft' = 0
          \/ LabelsLeft' = 14 /\ IoLeft' = 0 /\ LoopLeft' = 6 * (n' - i')
      BY <3>3 DEF LabelsLeft, IoLeft, LoopLeft, Swapping
    <3>. QED  BY <2>1, <3>1, <3>2, <3>4 DEF StepsLeft
  <2>6. CASE PickJ
    <3>1. pc = "loop" /\ pc' = "save" /\ io' = io /\ i' = i /\ n' = n
      BY <2>6 DEF PickJ, fileVars
    <3>2. /\ LabelsLeft = 14 /\ LabelsLeft' = 13 /\ IoLeft' = IoLeft
          /\ LoopLeft' = LoopLeft
      BY <3>1 DEF LabelsLeft, IoLeft, LoopLeft, Swapping
    <3>. QED  BY <2>1, <2>2, <3>2 DEF StepsLeft
  <2>7. CASE LoopEnds
    <3>1. pc = "loop" /\ pc' = "msync" /\ io' = io
      BY <2>7 DEF LoopEnds, fileVars
    <3>2. LabelsLeft = 14 /\ LabelsLeft' = 8 /\ IoLeft' = IoLeft /\ LoopLeft' = 0
      BY <3>1 DEF LabelsLeft, IoLeft, LoopLeft, Swapping
    <3>. QED  BY <2>1, <2>2, <3>2 DEF StepsLeft
  <2>8. CASE Msync
    <3>1. pc = "msync" /\ pc' \in {"closing", "failing"} /\ io' = "munmap"
      BY <2>8 DEF Msync, CallCloseFile
    <3>2. LabelsLeft = 8 /\ LabelsLeft' = 5 /\ IoLeft' = 2 /\ LoopLeft' = 0
      BY <3>1 DEF LabelsLeft, IoLeft, LoopLeft, Swapping
    <3>. QED  BY <2>1, <2>2, <3>2 DEF StepsLeft
  <2>9. CASE OpenFailed \/ Closed \/ Failed \/ DivideByZero
    <3>1. /\ pc \in {"opened", "closing", "failing", "loop"}
          /\ pc' \in {"done", "crashed"} /\ io' = io
      BY <2>9 DEF OpenFailed, Closed, Failed, DivideByZero, fileVars
    <3>2. LabelsLeft >= 5 /\ LabelsLeft' = 0 /\ IoLeft' = IoLeft /\ LoopLeft' = 0
      BY <3>1 DEF LabelsLeft, IoLeft, LoopLeft, Swapping
    <3>. QED  BY <2>1, <2>2, <3>2 DEF StepsLeft
  <2>. QED
    BY <1>3, <2>3, <2>4, <2>5, <2>6, <2>7, <2>8, <2>9 DEF Run
<1>. QED  BY <1>1, <1>2, <1>3

(* Each step of the process uses up one of at most StepsBound steps, so    *)
(* the function runs no loop forever, whatever calls fail and whatever the *)
(* random numbers are, also for n = 0, where n - 1 wraps. Kills and the    *)
(* kernel give it no new ones.                                             *)
THEOREM StepsBounded == Spec => []StepsInBound /\ StepsUsedUp
<1>1. Control => StepsInBound
  BY VariantTypes
<1>2. Control /\ Control' /\ [Next]_vars
        => [IF Run THEN StepsLeft' < StepsLeft ELSE StepsLeft' = StepsLeft]_vars
  <2> SUFFICES ASSUME Control, Control', Next, ~Run
               PROVE  StepsLeft' = StepsLeft
    BY RunLess
  <2>1. /\ pc' = pc /\ io' = io /\ n' = n /\ i' = i /\ size' = size /\ bs' = bs
    BY DEF Next, Kill, WriteBack, fileVars, locals
  <2>. QED
    BY <2>1 DEF StepsLeft, LabelsLeft, IoLeft, LoopLeft, Total
<1>. QED  BY <1>1, <1>2, InitControl, NextControl, PTL DEF Spec, StepsUsedUp

-----------------------------------------------------------------------------
(* The refinement: EndCopyB is the Settle of the abstract specification,   *)
(* the last step of the function its Succeed or Fail, a kill and a         *)
(* division by zero its Kill; all other steps change nothing it sees.      *)

(* The loop has settled all blocks when the file is flushed and closed.    *)
EInv == pc \in {"msync", "closing"} => i >= Limit - 1

LEMMA NextEInv == Control /\ EInv /\ [Next]_vars => EInv'
<1> SUFFICES ASSUME Control, EInv, [Next]_vars PROVE EInv'
  OBVIOUS
<1>0. /\ Limit' = Limit /\ Limit \in Nat
      /\ i \in Nat /\ count \in Nat
  BY BlocksFixed, TotalBounds DEF Control, CInv, FileTypeOK, Limit
<1>1. CASE ComputeN
  <2>1. i' = i /\ (pc' = "closing" => Total = 0) /\ pc' # "msync"
    BY <1>1 DEF ComputeN
  <2>. QED  BY <1>0, <2>1 DEF EInv, Limit
<1>2. CASE LoopEnds
  <2>1. pc = "loop" /\ ~LoopGoes /\ i' = i
    BY <1>2 DEF LoopEnds
  <2>2. n = Limit
    BY <2>1 DEF Control, LInv
  <2>3. i >= Limit - 1
    BY <1>0, <2>1, <2>2, LoopGuard
  <2>. QED  BY <1>0, <2>1, <2>3 DEF EInv
<1>3. CASE Msync
  BY <1>0, <1>3 DEF Msync, EInv, locals
<1>4. CASE Copy \/ PickJ \/ OpenFile \/ OpenFailed \/ Malloc \/ Closed \/ Failed \/ DivideByZero
  <2>1. pc' \notin {"msync", "closing"}
    BY <1>4 DEF Copy, Save, BeginCopyA, EndCopyA, BeginCopyB, EndCopyB, PickJ, OpenFile,
      OpenFailed, Malloc, Closed, Failed, DivideByZero
  <2>. QED  BY <2>1 DEF EInv
<1>5. CASE InFile \/ Kill \/ (\E b \in Blocks : WriteBack(b)) \/ UNCHANGED vars
  <2>1. pc' = pc /\ i' = i
    BY <1>5 DEF InFile, Kill, WriteBack, vars, locals
  <2>. QED  BY <1>0, <2>1 DEF EInv
<1>. QED  BY <1>1, <1>2, <1>3, <1>4, <1>5 DEF Next, Run

(* A kill leaves one of the files that the abstract Kill allows.           *)
LEMMA KillDamages ==
  ASSUME IInv, alive, pc \in Copying \ {"copyA"}
  PROVE  file \in Perm!Damages
<1>. DEFINE f == Restored
<1>1. /\ i \in Blocks /\ j \in Blocks /\ i <= j /\ j < Limit
      /\ i \in Nat /\ j \in Nat /\ Limit \in Nat
  BY IndexesAreBlocks DEF IInv, Control, CInv, LInv, Copying, Swapping
<1>2. /\ file \in [Blocks -> Blocks \cup {Torn}] /\ f \in [Blocks -> Blocks]
      /\ i = j => buf = file[i]
  BY DEF IInv, DInv, Copying
<1>3. CASE i = j
  <2>1. \/ f = [file EXCEPT ![i] = buf]
        \/ f = [file EXCEPT ![i] = buf, ![j] = file[i]]
    BY DEF Restored, Copying
  <2>. HIDE DEF f
  <2>2. buf = file[j]
    BY <1>2, <1>3
  <2>3. [file EXCEPT ![i] = buf] = file
    BY <1>1, <1>2, <1>3, <2>2
  <2>4. [file EXCEPT ![i] = buf, ![j] = file[i]] = file
    BY <1>1, <1>2, <1>3, <2>2
  <2>5. f = file
    BY <2>1, <2>3, <2>4
  <2>. QED  BY <2>5 DEF Perm!Damages, f
<1>4. CASE i # j
  <2>1. file \in Perm!CutOff(i, j)
    <3>1. CASE pc = "copyingA"
      <4>1. f = [file EXCEPT ![i] = buf] /\ file[i] = Perm!Torn
        BY <1>4, <3>1 DEF Restored, IInv, DInv, Torn, Perm!Torn
      <4>2. file = [f EXCEPT ![i] = Perm!Torn]
        BY <1>1, <1>2, <4>1
      <4>. QED  BY <4>2 DEF Perm!CutOff
    <3>2. CASE pc = "copyB"
      <4>1. f = [file EXCEPT ![i] = buf] /\ file[i] = file[j]
        BY <3>2 DEF Restored, IInv, DInv
      <4>2. file = [f EXCEPT ![i] = f[j]]
        BY <1>1, <1>2, <1>4, <4>1
      <4>. QED  BY <4>2 DEF Perm!CutOff
    <3>3. CASE pc = "copyingB"
      <4>1. f = [file EXCEPT ![i] = buf, ![j] = file[i]] /\ file[j] = Perm!Torn
        BY <1>4, <3>3 DEF Restored, IInv, DInv, Torn, Perm!Torn
      <4>2. file = [f EXCEPT ![i] = f[j], ![j] = Perm!Torn]
        BY <1>1, <1>2, <1>4, <4>1
      <4>. QED  BY <4>2 DEF Perm!CutOff
    <3>. QED  BY <3>1, <3>2, <3>3 DEF Copying
  <2>2. j \in {c \in Perm!Partners : i < c}
    BY <1>1, <1>4 DEF Perm!Partners
  <2>. QED  BY <2>1, <2>2 DEF Perm!Damages
<1>. QED  BY <1>3, <1>4

(* The steps of the process that do not belong to an exchange.             *)
LEMMA OutsideSteps ==
  ASSUME IInv, EInv, alive, alive' = alive, Run, ~Copy
  PROVE  Perm!Next \/ UNCHANGED Perm!permVars
<1>1. /\ Restored' = Restored /\ i' = i /\ Limit' = Limit /\ Limit \in Nat /\ i \in Nat
  BY OtherData, BlocksFixed, TotalBounds
  DEF Next, IInv, Control, CInv, FileTypeOK, Limit
<1>2. CASE Closed
  <2>1. pc = "closing" /\ pc' = "done" /\ rc' = (IF ret = 0 THEN 0 ELSE rc)
    BY <1>2 DEF Closed
  <2>2. i >= Limit - 1
    BY <2>1 DEF EInv
  <2>3. Status = "running" /\ Status' \in {"success", "failure"}
    BY <2>1 DEF Status
  <2>. QED
    BY <1>1, <2>2, <2>3 DEF Perm!Next, Perm!Succeed, Perm!Fail
<1>3. CASE OpenFailed \/ Failed
  <2>1. pc \in {"opened", "failing"} /\ pc' = "done" /\ rc' = rc
    BY <1>3 DEF OpenFailed, Failed, locals
  <2>2. rc # 0
    BY <2>1 DEF IInv, Control, RInv
  <2>3. Status = "running" /\ Status' = "failure"
    BY <2>1, <2>2 DEF Status
  <2>. QED  BY <1>1, <2>3 DEF Perm!Next, Perm!Fail
<1>4. CASE DivideByZero
  <2>1. pc \in {"opened", "loop"} /\ pc' = "crashed"
    BY <1>4 DEF DivideByZero
  <2>2. Status = "running" /\ Status' = "killed"
    BY <2>1 DEF Status
  <2>. QED  BY <1>1, <2>2 DEF Perm!Next, Perm!Kill, Perm!Damages
<1>5. CASE OpenFile \/ ComputeN \/ Malloc \/ PickJ \/ LoopEnds \/ Msync
  <2>1. pc \notin {"done", "crashed"} /\ pc' \notin {"done", "crashed"}
    BY <1>5 DEF OpenFile, ComputeN, Malloc, PickJ, LoopEnds, Msync
  <2>2. Status = "running" /\ Status' = "running"
    BY <2>1 DEF Status
  <2>. QED  BY <1>1, <2>2 DEF Perm!permVars
<1>6. CASE InFile
  <2>1. pc' = pc /\ rc' = rc
    BY <1>6 DEF InFile, locals
  <2>2. Status' = Status
    BY <2>1 DEF Status
  <2>. QED  BY <1>1, <2>2 DEF Perm!permVars
<1>. QED  BY <1>2, <1>3, <1>4, <1>5, <1>6 DEF Run

LEMMA CopySteps ==
  ASSUME IInv, alive, alive' = alive, Run, Copy
  PROVE  Perm!Next \/ UNCHANGED Perm!permVars
<1>0. Limit' = Limit /\ Blocks' = Blocks
  BY BlocksFixed DEF Next
<1>1. pc \in Swapping /\ pc' \in Swapping \cup {"loop"}
  BY DEF Copy, Save, BeginCopyA, EndCopyA, BeginCopyB, EndCopyB, Swapping
<1>2. Status = "running" /\ Status' = "running"
  BY <1>1 DEF Status, Swapping
<1>3. CASE EndCopyB
  <2>1. Restored' = Perm!Exchange(Restored, i, j) /\ i' = i + 1
    BY <1>0, <1>3, EndCopyBData DEF IInv, EndCopyB
  <2>2. i < Limit - 1 /\ j \in Perm!Partners
    <3>1. /\ i < n - 1 /\ i <= j /\ j < n /\ n = Limit
          /\ n \in Int /\ i \in Nat /\ j \in Nat
      BY <1>1 DEF IInv, Control, CInv, LInv
    <3>. QED  BY <3>1 DEF Perm!Partners
  <2>3. Restored' = Perm!Exchange(IF alive THEN Restored ELSE file, i, j)
    BY <2>1
  <2>4. (IF alive THEN Restored ELSE file)' = Restored'
    OBVIOUS
  <2>. QED
    BY <1>0, <1>2, <2>1, <2>2, <2>3, <2>4 DEF Perm!Next, Perm!Settle
<1>4. CASE Save \/ BeginCopyA \/ EndCopyA \/ BeginCopyB
  <2>1. i' = i
    BY <1>4 DEF Save, BeginCopyA, EndCopyA, BeginCopyB, locals
  <2>2. Restored' = Restored
    BY <1>0, <1>4, SaveData, BeginCopyAData, EndCopyAData, BeginCopyBData DEF IInv
  <2>. QED  BY <1>0, <1>2, <2>1, <2>2 DEF Perm!permVars
<1>. QED  BY <1>3, <1>4 DEF Copy

(* The copies, the failing system calls and the kills implement the        *)
(* permutation that settles one block after the other.                     *)
THEOREM Refinement == Spec => ImplementsPermutation
<1>1. Init => Perm!Init /\ EInv
  <2> SUFFICES ASSUME Init PROVE Perm!Init /\ EInv
    OBVIOUS
  <2>1. Limit \in Nat
    BY TotalBounds DEF Init, Limit
  <2>2. Restored = [b \in Blocks |-> b] /\ i = 0 /\ alive /\ pc = "start"
    BY DEF Init, Restored
  <2>3. DOMAIN (IF alive THEN Restored ELSE file) = Blocks
    BY <2>2
  <2>4. Status = "running"
    BY <2>2 DEF Status
  <2>. QED  BY <2>1, <2>2, <2>3, <2>4 DEF Perm!Init, EInv
<1>2. IInv /\ EInv /\ [Next]_vars => [Perm!Next]_(Perm!permVars)
  <2> SUFFICES ASSUME IInv, EInv, [Next]_vars
               PROVE  Perm!Next \/ UNCHANGED Perm!permVars
    OBVIOUS
  <2>0. Limit' = Limit /\ Blocks' = Blocks
    BY BlocksFixed
  <2>1. CASE Run
    <3>1. alive /\ alive' = alive
      BY <2>1 DEF Run
    <3>. QED  BY <2>1, <3>1, OutsideSteps, CopySteps
  <2>2. CASE Kill
    <3>1. /\ alive /\ ~alive' /\ pc \notin {"start", "done", "crashed"}
          /\ pc' = pc /\ file' = file /\ i' = i
      BY <2>2 DEF Kill, locals
    <3>2. Status = "running" /\ Status' = "killed"
      BY <3>1 DEF Status
    <3>3. file \in Perm!Damages
      <4>1. CASE pc \in Copying \ {"copyA"}
        BY <3>1, <4>1, KillDamages
      <4>2. CASE pc \notin Copying \ {"copyA"}
        <5>1. Restored = file
          BY <4>2 DEF Restored, Copying
        <5>. QED  BY <3>1, <5>1 DEF Perm!Damages
      <4>. QED  BY <4>1, <4>2
    <3>4. (IF alive THEN Restored ELSE file)' = file
      BY <3>1
    <3>. QED  BY <2>0, <3>1, <3>2, <3>3, <3>4 DEF Perm!Next, Perm!Kill
  <2>3. CASE (\E b \in Blocks : WriteBack(b)) \/ UNCHANGED vars
    <3>1. /\ alive' = alive /\ pc' = pc /\ file' = file /\ i' = i /\ j' = j
          /\ rc' = rc /\ buf' = buf
      BY <2>3 DEF WriteBack, vars, locals
    <3>2. Restored' = Restored /\ Status' = Status
      BY <3>1 DEF Restored, Status
    <3>. QED  BY <2>0, <3>1, <3>2 DEF Perm!permVars
  <2>. QED  BY <2>1, <2>2, <2>3 DEF Next
<1>3. IInv /\ EInv /\ [Next]_vars => EInv'
  BY NextEInv DEF IInv
<1>. QED
  BY <1>1, <1>2, <1>3, InitIInv, NextIInv, PTL
  DEF Spec, ImplementsPermutation, Perm!Spec
=============================================================================
