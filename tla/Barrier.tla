------------------------------- MODULE Barrier -------------------------------
(***************************************************************************)
(* What a barrier promises a program that runs on relaxed memory: nobody   *)
(* leaves its n-th barrier before what every other processor wrote before  *)
(* its own n-th barrier is in memory.                                      *)
(***************************************************************************)
EXTENDS Naturals

CONSTANT Procs

VARIABLES
  data,  \* data[p] = n: what p wrote before its n-th barrier is in memory
  left   \* barriers p has left

Init == data = [p \in Procs |-> 0] /\ left = [p \in Procs |-> 0]

Publish(p) == /\ data[p] <= left[p]
              /\ data' = [data EXCEPT ![p] = @ + 1] /\ UNCHANGED left

Leave(p) == /\ \A q \in Procs \ {p} : data[q] > left[p]
            /\ left' = [left EXCEPT ![p] = @ + 1] /\ UNCHANGED data

Next == \E p \in Procs : Publish(p) \/ Leave(p)
Spec == Init /\ [][Next]_<<data, left>>
=============================================================================
