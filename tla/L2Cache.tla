------------------------------- MODULE L2Cache -------------------------------
(***************************************************************************)
(* The second-level caches (src/src/MemSys/l2cache.c, mshr.c, cachehelp.c, *)
(* setup_cohe.c), one per node, under a write-through first-level cache,   *)
(* the default of architecture.c.                                          *)
(*                                                                         *)
(* An action is one call of L2ProcessTagReq on a message.  A coherence     *)
(* message passes the tags twice: as a COHE, when it is only classified    *)
(* and sent up, and as a COHE_REPLY, when its effect takes place.  In      *)
(* between it is at the first-level cache, which answers in order and,     *)
(* being write-through, never holds data the second level lacks.           *)
(***************************************************************************)
EXTENDS Messages, Sequences, Naturals

CONSTANT DataPipeFull  \* TRUE: a REPLY may find the data pipe full

VARIABLES
  st,         \* [Nodes -> [Lines -> state of the line in the L2 cache]]
  cohe_pend,  \* a COHE for the line has been sent up to the L1 cache
  mshrs,      \* the MSHR of the line, or NULL
  wrb_buf,    \* the write-back buffer's entry for the line, or "NONE"
  atL1,       \* COHEs at the L1 cache of a node, oldest first
  coheIn,     \* the COHE input port of a node and the path to it
  replies,    \* REPLYs on their way to a cache: one per request in flight
  requests,   \* REQUESTs on their way to the directory
  coheReps,   \* COHE_REPLYs on their way to the directory
  l2fatal     \* the YS__errmsg that was reached

cacheVars == <<st, cohe_pend, mshrs, wrb_buf, atL1>>
portVars  == <<coheIn, replies, requests, coheReps>>
l2Vars    == <<cacheVars, portVars, l2fatal>>

(* The state of an MSHR: what prcr_req_type asked for, whether a write has *)
(* joined, the coherence type merged into it, and whether its REPLY has    *)
(* already set the line while the MSHR is still there.                     *)
MSHR == [excl           : BOOLEAN,
         writes_present : BOOLEAN,
         pend_cohe_type : {"NONE", "INVL"},
         installed      : BOOLEAN]

ASSUME MSHRAssumption == NULL \notin MSHR

States == {"INVALID", "SH_CL", "PR_CL", "PR_DY"}
Private == {"PR_CL", "PR_DY"}

L2FatalCodes ==
  {"none", "nonexistent MSHR", "invalid request type", "writes present",
   "pend cohe on PR_DY", "forward to SH_CL", "COPYBACK not valid"}

L2TypeOK ==
  /\ st \in [Nodes -> [Lines -> States]]
  /\ cohe_pend \in [Nodes -> [Lines -> BOOLEAN]]
  /\ mshrs \in [Nodes -> [Lines -> MSHR \cup {NULL}]]
  /\ wrb_buf \in [Nodes -> [Lines -> {"NONE", "INVL", "WRB", "REPL"}]]
  /\ atL1 \in [Nodes -> Seq(REQ)] /\ coheIn \in [Nodes -> Seq(REQ)]
  /\ replies \subseteq REQ /\ requests \subseteq REQ /\ coheReps \subseteq REQ
  /\ l2fatal \in L2FatalCodes

L2Init ==
  /\ st = [n \in Nodes |-> [l \in Lines |-> "INVALID"]]
  /\ cohe_pend = [n \in Nodes |-> [l \in Lines |-> FALSE]]
  /\ mshrs = [n \in Nodes |-> [l \in Lines |-> NULL]]
  /\ wrb_buf = [n \in Nodes |-> [l \in Lines |-> "NONE"]]
  /\ atL1 = [n \in Nodes |-> <<>>] /\ coheIn = [n \in Nodes |-> <<>>]
  /\ replies = {} /\ requests = {} /\ coheReps = {}
  /\ l2fatal = "none"

L2Errmsg(code) == l2fatal' = code /\ UNCHANGED <<cacheVars, portVars>>

(* A definition named MutX is X with a slip; it is not part of the model.  *)
Set(f, n, l, v)  == [f EXCEPT ![n][l] = v]
SendCoheRep(m)   == coheReps' = coheReps \cup {m}
-----------------------------------------------------------------------------
(***************************************************************************)
(* REQUESTs from the L1 cache.  READ stands for the read types, WRITE for  *)
(* WRITE and RMW, PREFETCH for the exclusive prefetches.                   *)
(***************************************************************************)
PrcrTypes == {"READ", "WRITE", "PREFETCH"}

(* The Secondary_WB table for a request: what it sends to the directory.   *)
NxtModReq(t, s) ==
  CASE t = "READ" /\ s = "INVALID" -> "READ_SH"
    [] t # "READ" /\ s = "INVALID" -> "READ_OWN"
    [] t # "READ" /\ s = "SH_CL"   -> "UPGRADE"
    [] OTHER -> "NONE"

Request0(n, l, t) ==
  [type |-> "REQUEST", req_type |-> t, reply |-> "REPLY", nack_st |-> "NACK_OK",
   node |-> n, tag |-> l, forward_to |-> NULL, preprocessed |-> FALSE,
   isreq |-> TRUE]

(* hit_markstall_wrb_buf: a request for a line that is still in the        *)
(* write-back buffer, as whatever kind of entry, stalls.                   *)
Stalls(n, l) == wrb_buf[n][l] # "NONE"

(* A miss or an upgrade books an MSHR.                                     *)
L2Miss(n, l, t) ==
  LET r == NxtModReq(t, st[n][l])
  IN  /\ ~Stalls(n, l) /\ mshrs[n][l] = NULL /\ r # "NONE"
      /\ mshrs' = Set(mshrs, n, l,
                      [excl |-> t # "READ", writes_present |-> t = "WRITE",
                       pend_cohe_type |-> "NONE", installed |-> FALSE])
      /\ requests' = requests \cup {Request0(n, l, r)}
      /\ UNCHANGED <<st, cohe_pend, wrb_buf, atL1, coheIn, replies, coheReps, l2fatal>>

(* The only hit that changes the cache is the first write to a line that   *)
(* is private and clean; hits stall while a COHE is at the L1 cache.       *)
L2WriteHit(n, l) ==
  /\ ~Stalls(n, l) /\ mshrs[n][l] = NULL /\ ~cohe_pend[n][l]
  /\ st[n][l] = "PR_CL"
  /\ st' = Set(st, n, l, "PR_DY")
  /\ UNCHANGED <<cohe_pend, mshrs, wrb_buf, atL1, portVars, l2fatal>>

MutL2WriteCoalesce(n, l) ==  \* a write joins the MSHR of a read
  /\ ~Stalls(n, l) /\ mshrs[n][l] # NULL
  /\ mshrs' = [mshrs EXCEPT ![n][l].writes_present = TRUE]
  /\ UNCHANGED <<st, cohe_pend, wrb_buf, atL1, portVars, l2fatal>>

(* A write joins the MSHR of an exclusive prefetch; a write on a read MSHR *)
(* or on one with a merged COHE stalls.                                    *)
L2WriteCoalesce(n, l) ==
  /\ ~Stalls(n, l) /\ mshrs[n][l] # NULL
  /\ mshrs[n][l].excl /\ ~mshrs[n][l].writes_present
  /\ mshrs[n][l].pend_cohe_type = "NONE"
  /\ mshrs' = [mshrs EXCEPT ![n][l].writes_present = TRUE]
  /\ UNCHANGED <<st, cohe_pend, wrb_buf, atL1, portVars, l2fatal>>
-----------------------------------------------------------------------------
(***************************************************************************)
(* REPLYs.                                                                 *)
(***************************************************************************)
(* RAR: the request is sent again from its MSHR.                           *)
L2Retry(m) ==
  /\ m \in replies /\ m.reply = "RAR"
  /\ IF mshrs[m.node][m.tag] = NULL
     THEN L2Errmsg("nonexistent MSHR")
     ELSE /\ replies' = replies \ {m}
          /\ requests' = requests \cup {[m EXCEPT !.type = "REQUEST", !.reply = "REPLY"]}
          /\ UNCHANGED <<cacheVars, coheIn, coheReps, l2fatal>>

(* Every way of the set holds a line with an upgrade outstanding: the      *)
(* reply is bounced off the directory.                                     *)
L2Bounce(m) ==
  /\ m \in replies /\ m.reply = "REPLY"
  /\ mshrs[m.node][m.tag] # NULL /\ st[m.node][m.tag] = "INVALID"
  /\ replies' = replies \ {m}
  /\ requests' = requests \cup {[m EXCEPT !.type = "REQUEST", !.preprocessed = TRUE]}
  /\ UNCHANGED <<cacheVars, coheIn, coheReps, l2fatal>>

(* The Secondary_WB table for a reply, and the write that waits for it.    *)
ReplyValid(t, s) == s = IF t = "REPLY_UPGRADE" THEN "SH_CL" ELSE "INVALID"
MutReplyState(t) == IF t = "REPLY_EXCLDY" THEN "PR_DY" ELSE "PR_CL"
ReplyState(t) ==
  IF t = "REPLY_SH" THEN "SH_CL"
  ELSE IF t = "REPLY_EXCLDY" \/ MSI THEN "PR_DY" ELSE "PR_CL"

ReplyError(m) ==
  LET h == mshrs[m.node][m.tag]
      s == ReplyState(m.req_type)
  IN  IF h = NULL THEN "nonexistent MSHR"
      ELSE IF ~ReplyValid(m.req_type, st[m.node][m.tag]) THEN "invalid request type"
      ELSE IF h.writes_present /\ s = "SH_CL" THEN "writes present"
      ELSE IF h.pend_cohe_type # "NONE" /\ (s = "PR_DY" \/ h.writes_present)
           THEN "pend cohe on PR_DY" ELSE "none"

(* The line takes the state of the reply, or of the write or the merged    *)
(* COHE that waits for it; a merged COHE is ignored when the line comes    *)
(* private.  When a dirty victim does not get into the data pipe the MSHR  *)
(* stays for a while although the line is set (held).                      *)
L2Install(m, held) ==
  LET n == m.node
      l == m.tag
      h == mshrs[n][l]
      s == ReplyState(m.req_type)
  IN  /\ m \in replies /\ m.reply = "REPLY"
      /\ held => DataPipeFull /\ st[n][l] = "INVALID"
      /\ IF ReplyError(m) # "none"
         THEN L2Errmsg(ReplyError(m))
         ELSE /\ st' = Set(st, n, l,
                           IF h.writes_present THEN "PR_DY"
                           ELSE IF s = "SH_CL" /\ h.pend_cohe_type = "INVL"
                                THEN "INVALID" ELSE s)
              /\ cohe_pend' = IF st[n][l] = "INVALID"
                              THEN Set(cohe_pend, n, l, FALSE) ELSE cohe_pend
              /\ mshrs' = IF held THEN [mshrs EXCEPT ![n][l].installed = TRUE]
                                  ELSE Set(mshrs, n, l, NULL)
              /\ replies' = replies \ {m}
              /\ UNCHANGED <<wrb_buf, atL1, coheIn, requests, coheReps, l2fatal>>

(* The data pipe has room again and the MSHR is removed.                   *)
L2RemoveMSHR(n, l) ==
  /\ mshrs[n][l] # NULL /\ mshrs[n][l].installed
  /\ mshrs' = Set(mshrs, n, l, NULL)
  /\ UNCHANGED <<st, cohe_pend, wrb_buf, atL1, portVars, l2fatal>>
-----------------------------------------------------------------------------
(***************************************************************************)
(* Replacement: some other line, of this directory or another, takes the   *)
(* place of l.  A line with an MSHR is never the victim (mshr_out).        *)
(***************************************************************************)
VictimEntry(s) == CASE s = "SH_CL" -> "INVL"
                    [] s = "PR_CL" -> "REPL"
                    [] OTHER -> "WRB"

L2Evict(n, l) ==
  /\ st[n][l] # "INVALID" /\ mshrs[n][l] = NULL
  /\ st' = Set(st, n, l, "INVALID")
  /\ cohe_pend' = Set(cohe_pend, n, l, FALSE)
  /\ wrb_buf' = Set(wrb_buf, n, l, VictimEntry(st[n][l]))
  /\ UNCHANGED <<mshrs, atL1, portVars, l2fatal>>

WriteBackOf(n, l) ==
  [type |-> "COHE_REPLY", req_type |-> wrb_buf[n][l], reply |-> "REPLY",
   nack_st |-> "NACK_OK", node |-> n, tag |-> l, forward_to |-> NULL,
   preprocessed |-> FALSE, isreq |-> FALSE]

(* MoveINVLToL1, replace_in_wrb_buf: the invalidation has gone up; the     *)
(* write-back or replacement hint goes down and the entry is free.         *)
L2SendWRB(n, l) ==
  /\ wrb_buf[n][l] # "NONE"
  /\ IF wrb_buf[n][l] = "INVL" THEN UNCHANGED coheReps
                               ELSE SendCoheRep(WriteBackOf(n, l))
  /\ wrb_buf' = Set(wrb_buf, n, l, "NONE")
  /\ UNCHANGED <<st, cohe_pend, mshrs, atL1, coheIn, replies, requests, l2fatal>>
-----------------------------------------------------------------------------
(***************************************************************************)
(* COHEs and COHE_REPLYs.                                                  *)
(***************************************************************************)
Nack(m) == [m EXCEPT !.type = "COHE_REPLY", !.reply = "NACK"]

(* A COHE for a line that is neither cached nor awaited is refused at      *)
(* once; any other goes up to the L1 cache, one at a time per line.        *)
L2Cohe(n) ==
  LET m == Head(coheIn[n])
      l == m.tag
      hit == st[n][l] # "INVALID"
  IN  /\ coheIn[n] # <<>> /\ (hit => ~cohe_pend[n][l])
      /\ coheIn' = [coheIn EXCEPT ![n] = Tail(@)]
      /\ IF hit \/ mshrs[n][l] # NULL
         THEN /\ atL1' = [atL1 EXCEPT ![n] = Append(@, m)]
              /\ cohe_pend' = Set(cohe_pend, n, l, hit \/ cohe_pend[n][l])
              /\ UNCHANGED coheReps
         ELSE SendCoheRep(Nack(m)) /\ UNCHANGED <<atL1, cohe_pend>>
      /\ UNCHANGED <<st, mshrs, wrb_buf, replies, requests, l2fatal>>

(* notpres_mshr for a COHE_REPLY, and what the line makes of it.           *)
CoheClass(n, m) ==
  LET h == mshrs[n][m.tag]
  IN  IF h # NULL
      THEN CASE m.nack_st = "NACK_NOK" -> "NACK_PEND"
             [] m.nack_st = "NACK_OK" /\ ~h.excl -> "MERGE"
             [] OTHER -> "NACK_INVL"
      ELSE IF st[n][m.tag] = "INVALID" THEN "NACK"
           ELSE IF m.forward_to # NULL THEN "FORWARD" ELSE "ACK"

(* The next L1 answer at node n, of the given class; cohe_pend is cleared  *)
(* on a hit.                                                               *)
L1Answer(n, class) ==
  /\ atL1[n] # <<>> /\ CoheClass(n, Head(atL1[n])) = class
  /\ atL1' = [atL1 EXCEPT ![n] = Tail(@)]
  /\ LET l == Head(atL1[n]).tag
     IN  cohe_pend' = IF st[n][l] = "INVALID" THEN cohe_pend
                                              ELSE Set(cohe_pend, n, l, FALSE)
  /\ UNCHANGED <<wrb_buf, coheIn, requests, l2fatal>>

(* The cache awaits the line and cannot tell whether the copyback is meant *)
(* for the copy it had or for the one to come.                             *)
L2NackPend(n) ==
  /\ L1Answer(n, "NACK_PEND")
  /\ SendCoheRep([Head(atL1[n]) EXCEPT !.type = "COHE_REPLY", !.reply = "NACK_PEND"])
  /\ UNCHANGED <<st, mshrs, replies>>

(* An invalidation is merged into a read MSHR and acknowledged.            *)
L2Merge(n) ==
  LET m == Head(atL1[n])
  IN  /\ L1Answer(n, "MERGE")
      /\ mshrs' = [mshrs EXCEPT ![n][m.tag].pend_cohe_type = "INVL"]
      /\ SendCoheRep([m EXCEPT !.type = "COHE_REPLY", !.reply = "REPLY"])
      /\ UNCHANGED <<st, replies>>

(* An invalidation meets an exclusive MSHR: done now if the line is there. *)
CopybackInvalid(n, m) ==
  /\ CoheClass(n, m) = "NACK_INVL"
  /\ m.req_type = "COPYBACK" /\ st[n][m.tag] # "INVALID"

L2NackInvl(n) ==
  LET m == Head(atL1[n])
  IN  /\ L1Answer(n, "NACK_INVL") /\ ~CopybackInvalid(n, m)
      /\ st' = Set(st, n, m.tag, "INVALID")
      /\ SendCoheRep(Nack(m))
      /\ UNCHANGED <<mshrs, replies>>

(* The line was replaced while its COHE was at the L1 cache.               *)
L2NackMiss(n) ==
  /\ L1Answer(n, "NACK")
  /\ SendCoheRep(Nack(Head(atL1[n])))
  /\ UNCHANGED <<st, mshrs, replies>>

MutCoheState(t) == "SH_CL"
CoheState(t) == IF t = "COPYBACK" THEN "SH_CL" ELSE "INVALID"

L2Ack(n) ==
  LET m == Head(atL1[n])
  IN  /\ L1Answer(n, "ACK")
      /\ st' = Set(st, n, m.tag, CoheState(m.req_type))
      /\ SendCoheRep([m EXCEPT !.type = "COHE_REPLY", !.reply = "REPLY"])
      /\ UNCHANGED <<mshrs, replies>>

(* MakeForward, MakeForwardAck: the request itself goes to the requester   *)
(* as a REPLY with the line, and an acknowledgment to the directory.       *)
ForwardType(t, s) ==
  IF t = "COPYBACK" THEN "REPLY_SH"
  ELSE IF s = "PR_DY" THEN "REPLY_EXCLDY" ELSE "REPLY_EXCL"

L2Forward(n) ==
  LET m == Head(atL1[n])
      s == st[n][m.tag]
  IN  /\ L1Answer(n, "FORWARD") /\ s \in Private
      /\ st' = Set(st, n, m.tag, CoheState(m.req_type))
      /\ replies' = replies \cup
           {[m EXCEPT !.type = "REPLY", !.reply = "REPLY", !.node = m.forward_to,
                      !.req_type = ForwardType(m.req_type, s),
                      !.forward_to = NULL, !.nack_st = "NACK_OK"]}
      /\ SendCoheRep([m EXCEPT !.type = "COHE_REPLY", !.reply = "REPLY",
                               !.isreq = FALSE])
      /\ UNCHANGED mshrs

(* The errors of a COHE_REPLY.                                             *)
L2CoheError(n) ==
  LET m == Head(atL1[n])
  IN  /\ atL1[n] # <<>>
      /\ \/ /\ CoheClass(n, m) = "FORWARD" /\ st[n][m.tag] = "SH_CL"
            /\ L2Errmsg("forward to SH_CL")
         \/ CopybackInvalid(n, m) /\ L2Errmsg("COPYBACK not valid")
-----------------------------------------------------------------------------
(***************************************************************************)
(* What a cache does on its own (the processor's accesses, replacements),  *)
(* and what it does with the messages that reach it, one per input port.   *)
(***************************************************************************)
Access(n) == \E l \in Lines :
  (\E t \in PrcrTypes : L2Miss(n, l, t)) \/ L2WriteHit(n, l) \/ L2WriteCoalesce(n, l)

ReplyAt(n, m) == m.node = n /\ (L2Retry(m) \/ L2Install(m, FALSE))
HandleReply(n) == \E m \in replies : ReplyAt(n, m)
HoldReply(n) == \E m \in replies : m.node = n /\ (L2Bounce(m) \/ L2Install(m, TRUE))

HandleCoheRep(n) ==
  \/ L2NackPend(n) \/ L2Merge(n) \/ L2NackInvl(n) \/ L2NackMiss(n)
  \/ L2Ack(n) \/ L2Forward(n) \/ L2CoheError(n)

L2Step(n) ==
  \/ Access(n) \/ HandleReply(n) \/ HoldReply(n) \/ L2Cohe(n) \/ HandleCoheRep(n)
  \/ \E l \in Lines : L2Evict(n, l) \/ L2SendWRB(n, l) \/ L2RemoveMSHR(n, l)

(* What reaches a cache from the bus: REPLYs, in any order, and COHEs.     *)
ReplyArrives(m) ==
  replies' = replies \cup {m} /\ UNCHANGED <<coheIn, requests, coheReps>>
CoheArrives(m) ==
  /\ coheIn' = [coheIn EXCEPT ![m.node] = Append(@, m)]
  /\ UNCHANGED <<replies, requests, coheReps>>

(* The caches by themselves: any message may arrive, in any order, and     *)
(* what they send leaves at any time.  The module Coherence says what does.*)
L2Environment ==
  \/ \E m \in REQ : ReplyArrives(m)
  \/ \E m \in REQ : CoheArrives(m)
  \/ /\ requests' \subseteq requests /\ coheReps' \subseteq coheReps
     /\ UNCHANGED <<coheIn, replies>>

L2Next == \/ \E n \in Nodes : L2Step(n)
          \/ L2Environment /\ UNCHANGED <<cacheVars, l2fatal>>
L2Spec == L2Init /\ [][L2Next]_l2Vars
-----------------------------------------------------------------------------
(***************************************************************************)
(* What an L2 cache guarantees whatever the directory sends.               *)
(***************************************************************************)

(* A line in the write-back buffer is neither cached nor requested again:  *)
(* requests stall on the entry (hit_markstall_wrb_buf), so the write-back  *)
(* of one tenure of a line never leaves after the request of the next.     *)
WrbExclusive ==
  \A n \in Nodes, l \in Lines :
    wrb_buf[n][l] # "NONE" => st[n][l] = "INVALID" /\ mshrs[n][l] = NULL

(* cohe_pend is set exactly while a COHE for a cached line is at the L1:   *)
(* it is never left behind, where it would stall hits and COHEs for good.  *)
CohePendOK ==
  \A n \in Nodes, l \in Lines :
    cohe_pend[n][l] => /\ st[n][l] # "INVALID"
                       /\ \E i \in DOMAIN atL1[n] : atL1[n][i].tag = l

(* An MSHR is only for what the line lacks: a shared line has an MSHR only *)
(* to become exclusive, and only MSHRs of reads have a merged invalidation *)
(* (a merged COHE on a write could need a copyback the cache has not got). *)
MSHROK ==
  \A n \in Nodes, l \in Lines :
    mshrs[n][l] # NULL =>
      LET h == mshrs[n][l]
      IN  /\ h.writes_present => h.excl
          /\ h.pend_cohe_type # "NONE" => ~h.excl
          /\ ~h.installed =>
               \/ st[n][l] = "INVALID"
               \/ st[n][l] = "SH_CL" /\ h.excl

(* Tags, MSHRs, write-back buffer and the COHEs at the L1 cache fit        *)
(* together, whatever the directory sends and in whichever order.          *)
L2Consistent == L2TypeOK /\ WrbExclusive /\ CohePendOK /\ MSHROK
=============================================================================
