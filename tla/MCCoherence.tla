----------------------------- MODULE MCCoherence -----------------------------
(***************************************************************************)
(* The whole protocol on small machines.                                   *)
(***************************************************************************)
EXTENDS Coherence, TLC

CONSTANT MaxMisses   \* bound of some runs: misses of all nodes

VARIABLE misses      \* misses there may still be
mcVars == <<vars, misses>>

NodeSymmetry == Permutations(Nodes)

(* wait_cntsz is written and never read, and may drift without bound.      *)
View == <<lineVars, buftotsz, queueVars, ctlVars, fatal, inVars, outVars, l2Vars, misses>>

(* Unlimited misses: for safety.                                           *)
MCInit == Init /\ misses = MaxMisses
MCSafety == MCInit /\ [][Next /\ UNCHANGED misses]_mcVars

(* A bounded number of misses: the processors come to rest, so whatever    *)
(* has been asked for must be answered without the help of later traffic.  *)
Miss == \E n \in Nodes, l \in Lines, t \in PrcrTypes : L2Miss(n, l, t)
MCNext == \/ Next /\ ~Miss /\ UNCHANGED misses
          \/ misses > 0 /\ ByCache(Miss) /\ misses' = misses - 1
MCBounded == MCInit /\ [][MCNext]_mcVars
MCLive == MCInit /\ [][MCNext]_mcVars /\ Fairness
=============================================================================
