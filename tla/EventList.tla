----------------------------- MODULE EventList -----------------------------
(***************************************************************************)
(* What the event list promises the simulator: a bag of scheduled          *)
(* activities from which GetHead takes one with the least time, and among  *)
(* those of one time the one inserted first.  Events of one cycle thus     *)
(* occur in the order in which they were scheduled, and a simulation is    *)
(* reproducible whichever implementation runs it.                          *)
(***************************************************************************)
EXTENDS Integers

CONSTANTS Activities, Times, NULL

VARIABLES
  pending,   \* entries of the activities on the list
  serial,    \* number of insertions so far
  returned   \* what the last GetHead returned

listVars == <<pending, serial, returned>>

(* no is the number of the insertion that made the entry. *)
Entry == [act : Activities, time : Times, no : Nat]

(* e leaves the list before f. *)
Before(e, f) == e.time < f.time \/ (e.time = f.time /\ e.no < f.no)

Init == pending = {} /\ serial = 0 /\ returned = NULL

Insert(a, t) ==
  /\ \A e \in pending : e.act # a
  /\ pending' = pending \cup {[act |-> a, time |-> t, no |-> serial]}
  /\ serial' = serial + 1
  /\ UNCHANGED returned

GetHead ==
  /\ \/ pending = {} /\ returned' = NULL /\ UNCHANGED pending
     \/ \E e \in pending : /\ \A f \in pending \ {e} : Before(e, f)
                           /\ returned' = e
                           /\ pending' = pending \ {e}
  /\ UNCHANGED serial

Delete(e) ==
  /\ e \in pending
  /\ pending' = pending \ {e}
  /\ UNCHANGED <<serial, returned>>

Reset == pending' = {} /\ UNCHANGED <<serial, returned>>

Next == \/ GetHead
        \/ Reset
        \/ \E a \in Activities, t \in Times : Insert(a, t)
        \/ \E e \in pending : Delete(e)

Spec == Init /\ [][Next]_listVars
=============================================================================
