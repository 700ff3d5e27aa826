------------------------------- MODULE Sharing -------------------------------
(***************************************************************************)
(* What the coherence protocol promises its processors, with no directory, *)
(* no messages and no races: each node has a permission on each line and   *)
(* at most one request for a better one; many may read a line or one may   *)
(* write it; a request is granted in one step, in the end.                 *)
(***************************************************************************)
CONSTANTS Nodes, Lines

VARIABLES
  perm,   \* [Nodes -> [Lines -> {"none", "read", "write"}]]
  want    \* [Nodes -> [Lines -> {"nothing", "read", "write"}]]

sharingVars == <<perm, want>>

Init ==
  /\ perm = [n \in Nodes |-> [l \in Lines |-> "none"]]
  /\ want = [n \in Nodes |-> [l \in Lines |-> "nothing"]]

Others(n) == Nodes \ {n}
Put(f, n, l, v) == [f EXCEPT ![n][l] = v]

(* A node asks only for what it has not got.                               *)
Ask(n, l, p) ==
  /\ want[n][l] = "nothing"
  /\ perm[n][l] = "none" \/ (perm[n][l] = "read" /\ p = "write")
  /\ want' = Put(want, n, l, p)
  /\ UNCHANGED perm

(* A granted request may give more than was asked for, or, if the line is  *)
(* taken away again in the same step, nothing; a write is never denied.    *)
GrantNone(n, l)  == want[n][l] = "read" /\ UNCHANGED perm
GrantRead(n, l)  == /\ want[n][l] = "read"
                    /\ \A k \in Others(n) : perm[k][l] # "write"
                    /\ perm' = Put(perm, n, l, "read")
GrantWrite(n, l) == /\ want[n][l] # "nothing"
                    /\ \A k \in Others(n) : perm[k][l] = "none"
                    /\ perm' = Put(perm, n, l, "write")

Grant(n, l) ==
  /\ GrantNone(n, l) \/ GrantRead(n, l) \/ GrantWrite(n, l)
  /\ want' = Put(want, n, l, "nothing")

(* A permission is given up or taken away, one node and line at a time.    *)
Lose(n, l) ==
  /\ \/ perm[n][l] # "none" /\ perm' = Put(perm, n, l, "none")
     \/ perm[n][l] = "write" /\ perm' = Put(perm, n, l, "read")
  /\ UNCHANGED want

Next == \E n \in Nodes, l \in Lines :
  (\E p \in {"read", "write"} : Ask(n, l, p)) \/ Grant(n, l) \/ Lose(n, l)

Spec == Init /\ [][Next]_sharingVars

(* Every request is granted in the end.                                    *)
Served == \A n \in Nodes, l \in Lines :
            want[n][l] # "nothing" ~> want[n][l] = "nothing"
=============================================================================
