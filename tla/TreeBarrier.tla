----------------------------- MODULE TreeBarrier -----------------------------
(***************************************************************************)
(* The tree barrier of the applications library                            *)
(* (src/apps/utils/lib/sync/treebar.c) on the memory it is written for:    *)
(* stores wait in a buffer and reach memory in any order, except that      *)
(* those to one word stay in order and that REL_MEMBAR, a membar with      *)
(* #StoreStore (traps.h), holds later stores back until earlier ones are   *)
(* performed.  A load takes the youngest store of its own processor to the *)
(* word.  Loads are performed in order, as ACQ_MEMBAR demands.             *)
(* A definition named MutX is X with a slip; it is not part of the model.  *)
(***************************************************************************)
EXTENDS Naturals, Sequences, SequencesExt

CONSTANTS
  N,          \* x->n, "must be a power of 2"
  MaxRounds   \* barriers of the program

ASSUME TreeBarrierAssumption ==
  /\ \E k \in 0..N : N = 2^k
  /\ MaxRounds \in Nat

Procs == 0..(N - 1)

VARIABLES
  data,   \* as in Barrier
  flag,   \* x->arr[p].flag
  buf,    \* stores of p that memory does not have, and membars
  which,  \* x->arr[p].which, which only p uses
  step, pc, left

local == <<which, step, pc, left>>
vars == <<data, flag, buf, local>>

Init ==
  /\ data = [p \in Procs |-> 0]
  /\ flag = [p \in Procs |-> [w \in {0, 1} |-> 0]]
  /\ buf = [p \in Procs |-> <<>>]
  /\ which = [p \in Procs |-> 0] /\ step = [p \in Procs |-> 0]
  /\ pc = [p \in Procs |-> "out"] /\ left = [p \in Procs |-> 0]

Store(q, w, v) == [word |-> <<q, w>>, value |-> v]
DataStore(n) == [word |-> <<"data">>, value |-> n]
MEMBAR == [word |-> <<>>, value |-> 0]

(* REL_MEMBAR: it is over at once when it has nothing to wait for. *)
MutBarred(b) == b
Barred(b) == IF b = <<>> \/ Last(b) = MEMBAR THEN b ELSE Append(b, MEMBAR)
Put(p, s) == buf' = [buf EXCEPT ![p] = Append(@, s)]

Load(p, q, w) ==
  LET own == {k \in 1..Len(buf[p]) : buf[p][k].word = <<q, w>>}
  IN  IF own = {} THEN flag[q][w]
      ELSE buf[p][CHOOSE k \in own : \A j \in own : j <= k].value

(* A store of p reaches memory. *)
Ordered(p, k) ==
  \A j \in 1..(k - 1) : buf[p][j] # MEMBAR /\ buf[p][j].word # buf[p][k].word
Dropped(b) == IF b # <<>> /\ b[1] = MEMBAR THEN Tail(b) ELSE b
Perform(p) ==
  \E k \in 1..Len(buf[p]) :
     LET s == buf[p][k]
     IN  /\ s # MEMBAR /\ Ordered(p, k)
         /\ buf' = [buf EXCEPT ![p] = Dropped(RemoveAt(@, k))]
         /\ IF s.word = <<"data">>
            THEN data' = [data EXCEPT ![p] = s.value] /\ UNCHANGED flag
            ELSE flag' = [flag EXCEPT ![s.word[1]][s.word[2]] = s.value] /\ UNCHANGED data
         /\ UNCHANGED local
-----------------------------------------------------------------------------
(* The program writes its data and calls TreeBarrier. *)
Enter(p) ==
  /\ pc[p] = "out" /\ left[p] < MaxRounds
  /\ Put(p, DataStore(left[p] + 1))
  /\ pc' = [pc EXCEPT ![p] = "up"] /\ step' = [step EXCEPT ![p] = 1]
  /\ UNCHANGED <<data, flag, which, left>>

(* whoami & step *)
Bit(p) == (p \div step[p]) % 2 = 1

(* `while (!x->arr[other].flag[which])` ends. *)
Collect(p) ==
  /\ pc[p] = "up" /\ step[p] < N /\ ~Bit(p)
  /\ Load(p, p + step[p], which[p]) # 0
  /\ step' = [step EXCEPT ![p] = 2 * @]
  /\ UNCHANGED <<data, flag, buf, which, pc, left>>

Signal(p) ==
  /\ pc[p] = "up" /\ step[p] < N /\ Bit(p)
  /\ buf' = [buf EXCEPT ![p] = Append(Barred(@), Store(p, which[p], 1))]
  /\ pc' = [pc EXCEPT ![p] = "spin"]
  /\ UNCHANGED <<data, flag, which, step, left>>

(* The loop is left with step = n by the root, and by the others when      *)
(* `while (x->arr[whoami].flag[which])` ends; then REL_MEMBAR.             *)
Turn(p) ==
  /\ \/ pc[p] = "up" /\ step[p] >= N
     \/ pc[p] = "spin" /\ Load(p, p, which[p]) = 0
  /\ pc' = [pc EXCEPT ![p] = "down"]
  /\ step' = [step EXCEPT ![p] = @ \div 2]
  /\ buf' = [buf EXCEPT ![p] = Barred(@)]
  /\ UNCHANGED <<data, flag, which, left>>

(* `while (step > 0)` *)
MutMore(p) == step[p] > 1
More(p) == step[p] > 0
Free(p) ==
  /\ pc[p] = "down" /\ More(p)
  /\ Put(p, Store(p + step[p], which[p], 0))
  /\ step' = [step EXCEPT ![p] = @ \div 2]
  /\ UNCHANGED <<data, flag, which, pc, left>>

Leave(p) ==
  /\ pc[p] = "down" /\ ~More(p)
  /\ which' = [which EXCEPT ![p] = 1 - @]
  /\ left' = [left EXCEPT ![p] = @ + 1]
  /\ pc' = [pc EXCEPT ![p] = "out"]
  /\ UNCHANGED <<data, flag, buf, step>>

Step(p) == Enter(p) \/ Collect(p) \/ Signal(p) \/ Turn(p) \/ Free(p) \/ Leave(p)
Next == \E p \in Procs : Step(p) \/ Perform(p)

Spec == Init /\ [][Next]_vars

(* Every processor goes on and every store is performed at last.  A spin   *)
(* takes no step, so that runs are finite and one condition says it all.   *)
FairSpec == Spec /\ WF_vars(Next)
-----------------------------------------------------------------------------
(***************************************************************************)
(* Properties.                                                             *)
(***************************************************************************)
(* The tree barrier is a barrier: the flags of one round, reused every     *)
(* other round, and its two membars keep every processor back until what   *)
(* the others wrote before it is visible.                                  *)
B == INSTANCE Barrier
IsBarrier == B!Spec

(* Nobody is left spinning: all processors get through all barriers. *)
AllLeave == <>(\A p \in Procs : left[p] = MaxRounds)
=============================================================================
