------------------------------ MODULE Coherence ------------------------------
(***************************************************************************)
(* The coherence protocol of a machine: the L2 caches of all nodes and the *)
(* home directory, joined by the ports, the bus and the two networks       *)
(* (src/src/MemSys/bus.c, smnet.c).  The request network carries REQUESTs  *)
(* and COHEs and keeps the order of each sender.  The reply network        *)
(* carries REPLYs and COHE_REPLYs, and what it receives goes to the head   *)
(* of the next port (add_req_head), so those arrive in any order.  Nothing *)
(* orders one kind of message or one sender after another.                 *)
(***************************************************************************)
EXTENDS Directory, L2Cache

vars == <<dirVars, l2Vars>>

Init == DirInit /\ L2Init

(* While the directory's event runs, or after an error, nothing else does. *)
Running == pc # "EXIT" /\ l2fatal = "none"
-----------------------------------------------------------------------------
DeliverRequest(n) ==
  \E m \in requests :
    /\ m.node = n
    /\ ArriveReq(m) /\ requests' = requests \ {m}
    /\ UNCHANGED <<cacheVars, coheIn, replies, coheReps, l2fatal>>

DeliverCoheRep(m) ==
  /\ ArriveRep(m) /\ coheReps' = coheReps \ {m}
  /\ UNCHANGED <<cacheVars, coheIn, replies, requests, l2fatal>>
DeliverCoheReply(n) == \E m \in coheReps : m.node = n /\ DeliverCoheRep(m)

DeliverCohe ==
  /\ TakeCohe /\ CoheArrives(Head(outCohe))
  /\ UNCHANGED <<cacheVars, l2fatal>>

DeliverReply ==
  /\ TakeRep /\ ReplyArrives(Head(outRep))
  /\ UNCHANGED <<cacheVars, l2fatal>>

DirectoryStep == DirStep /\ UNCHANGED l2Vars
ByCache(A)    == Running /\ Idle /\ A /\ UNCHANGED dirVars

Network == \/ \E n \in Nodes : DeliverRequest(n) \/ DeliverCoheReply(n)
           \/ DeliverCohe \/ DeliverReply

Next == \/ Running /\ DirectoryStep
        \/ Running /\ Network
        \/ \E n \in Nodes : ByCache(L2Step(n))

Spec == Init /\ [][Next]_vars
-----------------------------------------------------------------------------
(***************************************************************************)
(* Fairness.  Every event of the simulator is scheduled at a finite time,  *)
(* so a module that has work gets to it.  That work is interrupted again   *)
(* and again, when the directory's event runs in between or a REPLY finds  *)
(* every way of its set locked, so the fairness is strong; but it is only  *)
(* of one kind of work, whichever the node: requests on their way round,   *)
(* replies at the caches, write-backs, the coherence traffic.  A           *)
(* write-back in particular arrives even when a COHE that is refused with  *)
(* NACK_PEND goes round and round meanwhile.  The processor owes nobody an *)
(* access, nor the cache a replacement.                                    *)
(***************************************************************************)
RequestWork ==
  \/ Running /\ ((\E n \in Nodes : DeliverRequest(n)) \/ DeliverReply)
  \/ \E n \in Nodes, l \in Lines : ByCache(L2RemoveMSHR(n, l))

ReplyWork == \E n \in Nodes : ByCache(HandleReply(n))

WriteBackWork ==
  \/ Running /\ \E m \in coheReps : m.req_type \in WrbTypes /\ DeliverCoheRep(m)
  \/ \E n \in Nodes, l \in Lines : ByCache(L2SendWRB(n, l))

CoherenceWork ==
  \/ Running /\ DeliverCohe
  \/ Running /\ \E n \in Nodes : DeliverCoheReply(n)
  \/ \E n \in Nodes : ByCache(L2Cohe(n) \/ HandleCoheRep(n))

Fairness ==
  /\ WF_vars(Running /\ DirectoryStep)
  /\ SF_vars(RequestWork)
  /\ SF_vars(ReplyWork)
  /\ SF_vars(WriteBackWork)
  /\ SF_vars(CoherenceWork)
-----------------------------------------------------------------------------
(***************************************************************************)
(* Safety.                                                                 *)
(***************************************************************************)

(* No consistency check of the directory or of the caches ever fails       *)
(* (YS__errmsg), and no null pointer is followed: no interleaving of       *)
(* requests, replacements, NACKs and retries leads to a message its        *)
(* receiver has no case for.                                               *)
NoFatal == fatal = "none" /\ l2fatal = "none"

(* A line that one cache may write is in no other cache.                   *)
SingleWriter ==
  \A l \in Lines : \A n, k \in Nodes :
    n # k /\ st[n][l] \in Private => st[k][l] = "INVALID"

(* The REQ object of processor n's request for line l is in flight in one  *)
(* of many queues, sets and ports; how often a queue q, a set s, or the    *)
(* queues f of all nodes hold it.                                          *)
Owner(m) == IF m.forward_to # NULL THEN m.forward_to ELSE m.node
IsToken(m, n, l) == m.isreq /\ m.tag = l /\ Owner(m) = n
Holds(q, n, l) == Cardinality({i \in DOMAIN q : IsToken(q[i], n, l)})
HeldIn(s, n, l) == Cardinality({m \in s : IsToken(m, n, l)})
HeldAt(f, n, l) ==
  Cardinality(UNION {{k} \X {i \in DOMAIN f[k] : IsToken(f[k][i], n, l)} : k \in Nodes})

(* The copy of a forwarded request that the directory keeps is the request *)
(* itself, which has left as a COHE unless it is still to be sent.         *)
InExtra(n, l) ==
  IF extra[l] # NULL /\ IsToken(extra[l].pend_req, n, l)
     /\ (extra[l].pend_req.type = "COHE" => req_partial = l)
  THEN 1 ELSE 0

Tokens(n, l) ==
  HeldIn(requests, n, l) + HeldIn(replies, n, l) + HeldIn(coheReps, n, l)
  + Holds(inReq, n, l) + Holds(inRep, n, l) + Holds(outCohe, n, l) + Holds(outRep, n, l)
  + Holds(ReadyReqs, n, l) + Holds(OutboundReqs, n, l) + Holds(BufPend[l], n, l)
  + HeldAt(coheIn, n, l) + HeldAt(atL1, n, l) + InExtra(n, l)

(* Every MSHR that waits for a REPLY has exactly one request in flight for *)
(* it, wherever it is: through forwards, NACKs, RARs, bounces and the      *)
(* directory's buffers no request is lost, and none is answered twice.     *)
OneRequestInFlight ==
  NoFatal => \A n \in Nodes, l \in Lines :
    Tokens(n, l) = IF mshrs[n][l] # NULL /\ ~mshrs[n][l].installed THEN 1 ELSE 0

(* Outside a transaction the directory knows every copy: the nodes with    *)
(* the line are in its sharer vector, and a node that may write it is its  *)
(* owner, so the next transaction reaches them all.                        *)
CopiesKnown ==
  \A l \in Lines, n \in Nodes :
    ~pend[l] /\ st[n][l] # "INVALID" =>
      /\ n \in vector[l]
      /\ st[n][l] \in Private => dirst[l] = "DIR_PRIVATE"

(* A request that waits for the write-back of its own node is released by  *)
(* one that is really on its way.                                          *)
WriteBackComing ==
  \A l \in Lines :
    extra[l] # NULL /\ extra[l].waiting =>
      LET n == extra[l].WaitingFor
          IsWrb(m) == m.req_type \in WrbTypes /\ m.node = n /\ m.tag = l
      IN  \/ wrb_buf[n][l] \in WrbTypes
          \/ \E m \in coheReps : IsWrb(m)
          \/ \E i \in DOMAIN inRep : IsWrb(inRep[i])

(* What the directory believes of the caches is so: it knows all copies,   *)
(* and the write-backs that it waits for are coming.                       *)
DirectoryKnows == CopiesKnown /\ WriteBackComing

-----------------------------------------------------------------------------
(***************************************************************************)
(* The protocol implements the abstract one (module Sharing).              *)
(***************************************************************************)
permOf == [n \in Nodes |-> [l \in Lines |->
             CASE st[n][l] = "INVALID" -> "none"
               [] st[n][l] = "SH_CL" -> "read"
               [] OTHER -> "write"]]
wantOf == [n \in Nodes |-> [l \in Lines |->
             IF mshrs[n][l] = NULL THEN "nothing"
             ELSE IF mshrs[n][l].excl THEN "write" ELSE "read"]]

Shared == INSTANCE Sharing WITH perm <- permOf, want <- wantOf

(* Each step of caches and directory is a step of the abstract protocol:   *)
(* an MSHR goes away only with the permission it was for, a write MSHR     *)
(* never with less than exclusive, and no copy appears in any other way.   *)
SharingSpec == Shared!Spec

(* Every MSHR is released: no request is lost, parked in a buffer that     *)
(* nobody empties, or sent round by NACKs and RARs for ever.               *)
EveryRequestServed == Shared!Served

(* In particular a request that the directory buffers, or keeps in an      *)
(* outbound queue, leaves it.                                              *)
BuffersDrain == \A l \in Lines : pend[l] ~> ~pend[l]
=============================================================================
