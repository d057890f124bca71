--------------------------- MODULE KeyPermutation ---------------------------
(***************************************************************************)
(* What nb_random_shuffle promises, without memory copies and system       *)
(* calls: blocks are exchanged in one step, each position below the limit  *)
(* in turn with one that is not settled yet. The process may fail or be    *)
(* killed; a kill damages at most the blocks of one exchange. NbShuffle is *)
(* shown to implement this specification.                                  *)
(***************************************************************************)
EXTENDS Integers

VARIABLES
  keys,     \* keys[b] is the key that block b of the file holds
  settled,  \* the blocks below this one have their final key
  limit,    \* how many blocks are shuffled
  status    \* of the process

permVars == <<keys, settled, limit, status>>

Statuses == {"running", "success", "failure", "killed"}

\* What a block holds when its copy was cut off: a new value, no key.
Torn == -1

Init ==
  /\ keys = [b \in DOMAIN keys |-> b]
  /\ settled = 0
  /\ limit \in Nat
  /\ status = "running"

Partners == settled .. (limit - 1)

Exchange(f, a, b) == [f EXCEPT ![a] = f[b], ![b] = f[a]]

Settle ==
  /\ status = "running" /\ settled < limit - 1
  /\ \E b \in Partners : keys' = Exchange(keys, settled, b)
  /\ settled' = settled + 1
  /\ UNCHANGED <<limit, status>>

Succeed ==
  /\ status = "running" /\ settled >= limit - 1
  /\ status' = "success"
  /\ UNCHANGED <<keys, settled, limit>>

Fail ==
  /\ status = "running" /\ status' = "failure"
  /\ UNCHANGED <<keys, settled, limit>>

\* The files that an exchange of blocks a and b may leave when it is cut off.
CutOff(a, b) ==
  {[keys EXCEPT ![a] = Torn],
   [keys EXCEPT ![a] = keys[b]],
   [keys EXCEPT ![a] = keys[b], ![b] = Torn]}

Damages ==
  {keys} \cup
  UNION {CutOff(settled, b) : b \in {c \in Partners : settled < c}}

Kill ==
  /\ status = "running" /\ status' = "killed"
  /\ keys' \in Damages
  /\ UNCHANGED <<settled, limit>>

Next == Settle \/ Succeed \/ Fail \/ Kill

Spec == Init /\ [][Next]_permVars
=============================================================================
