------------------------------ MODULE Directory ------------------------------
(***************************************************************************)
(* The home directory of RSIM's coherence protocol (src/src/MemSys/        *)
(* directory.c): one event, DirSim, that serves two input ports round      *)
(* robin, calls Dir_Cohe for requests and write-backs, and sends replies   *)
(* and coherence messages through two bounded output ports.                *)
(*                                                                         *)
(* An action is one case of DirSim between two points where the code       *)
(* either delays or jumps; while pc = "START" the event is running, so     *)
(* nothing else in the simulator moves.  The environment (the bus) appends *)
(* to the input ports and removes from the output ports; this module says  *)
(* nothing about what it sends, the module Coherence does.                 *)
(***************************************************************************)
EXTENDS Messages, Integers, Sequences, FiniteSetsExt

CONSTANTS
  BufMax,    \* bufmaxsz: requests the directory can hold (dirbufsz)
  InCap,     \* messages an input port holds
  OutCap     \* messages an output port holds, overflow slot included

(* The extra information of a line with a transaction in flight.  left is  *)
(* the part of node_ary not yet sent a COHE (its size is num_left).        *)
DirEP == [pend_req      : REQ,
          counter       : Nat,
          left          : SUBSET Nodes,
          next_req_type : CoheTypes,
          nack_st       : {"NACK_OK", "NACK_NOK"},
          ret_st        : {"DIR_REPLY", "SPECIAL_REPLY", "ACK_REPLY"},
          waiting       : BOOLEAN,
          WaitingFor    : Nodes \cup {NULL},
          WasHere       : Nodes \cup {NULL}]

ASSUME ExtraAssumption == NULL \notin DirEP
ASSUME SizeAssumption ==
  /\ BufMax \in Nat \ {0}
  /\ InCap \in Nat \ {0}
  /\ OutCap \in Nat \ {0}

VARIABLES
  dirst,           \* per line: UNCACHED, DIR_SHARED or DIR_PRIVATE
  vector,          \* per line: the set of nodes in the sharer bit vector
  pend,            \* per line: a transaction is outstanding
  extra,           \* per line: its DirEP, or NULL
  buftotsz,        \* directory buffers in use
  wait_cntsz,      \* COHEs in flight that have not yet returned
  BufPend,         \* per line: requests waiting for the line, oldest first
  ReadyReqs,       \* requests revived from BufPend, to be processed again
  OutboundReqs,    \* messages waiting for room in an output port
  pc,              \* where the DirSim event stands
  sel,             \* what dirptr->req points to
  next_port,       \* round-robin pointer: 0 is reqport, 1 takes COHE_REPLYs
  loop_count,      \* empty ports seen in this activation
  checkedOutbound, \* OutboundReqs is not looked at again in this activation
  req_partial,     \* line whose COHEs are partly sent, or NULL
  fatal,           \* the YS__errmsg (or null dereference) that was reached
  inReq, inRep,    \* input ports: REQUESTs, COHE_REPLYs
  outCohe, outRep  \* output ports: COHEs, REPLYs

lineVars  == <<dirst, vector, pend, extra>>
countVars == <<buftotsz, wait_cntsz>>
queueVars == <<BufPend, ReadyReqs, OutboundReqs>>
ctlVars   == <<pc, sel, next_port, loop_count, checkedOutbound, req_partial>>
inVars    == <<inReq, inRep>>
outVars   == <<outCohe, outRep>>
dirVars   == <<lineVars, countVars, queueVars, ctlVars, fatal, inVars, outVars>>

FatalCodes ==
  {"none",
   "unknown request type",            \* Dir_Cohe, default of the switch
   "preprocessed request pending",    \* DIRREQ
   "find",                            \* DIR_PRIVATE/DIR_SHARED and find wrong
   "uncached write-back",             \* Dir_Cohe, WRB/REPL case
   "waiting for another node",        \* Dir_Cohe, WAITFORWRB and other sender
   "counter",                         \* Dir_Cohe, WAITFORWRB and other answers
   "unexpected coherence reply",      \* DIRCOHEREP
   "NACK_NOK not pend_req",
   "non-forward NACK_NOK",
   "NACK_OK NACK_PEND",
   "forward without ACK_REPLY",
   "unknown forward type",            \* FixForwardRARs
   "forward not satisfied",
   "null pointer"}                    \* not a YS__errmsg: the process faults

LineTypeOK ==
  /\ dirst \in [Lines -> {"UNCACHED", "DIR_SHARED", "DIR_PRIVATE"}]
  /\ vector \in [Lines -> SUBSET Nodes]
  /\ pend \in [Lines -> BOOLEAN]
  /\ extra \in [Lines -> DirEP \cup {NULL}]
CountTypeOK == buftotsz \in Int /\ wait_cntsz \in Int
QueueTypeOK ==
  /\ BufPend \in [Lines -> Seq(REQ)]
  /\ ReadyReqs \in Seq(REQ)
  /\ OutboundReqs \in Seq(REQ)
CtlTypeOK ==
  /\ pc \in {"SCHED", "START", "SERV", "SENDCOHE",
             "WAIT_INQ_EMPTY", "WAIT_QUEUE_EVENT", "EXIT"}
  /\ sel \in {"NONE", "REQ", "READY", "COHE_REPLY", "PARTIAL"}
  /\ next_port \in {0, 1}
  /\ loop_count \in {0, 1}
  /\ checkedOutbound \in BOOLEAN
  /\ req_partial \in Lines \cup {NULL}
  /\ fatal \in FatalCodes
PortTypeOK ==
  /\ inReq \in Seq(REQ) /\ inRep \in Seq(REQ)
  /\ outCohe \in Seq(REQ) /\ outRep \in Seq(REQ)
TypeOK == LineTypeOK /\ CountTypeOK /\ QueueTypeOK /\ CtlTypeOK /\ PortTypeOK
-----------------------------------------------------------------------------
(* The entry DirHashLookup_FM makes for a line that is first asked for.    *)
FreshLines ==
  /\ dirst = [l \in Lines |-> "UNCACHED"]
  /\ vector = [l \in Lines |-> {}]
  /\ pend = [l \in Lines |-> FALSE]
  /\ extra = [l \in Lines |-> NULL]

(***************************************************************************)
(* NewDir: no line is cached, nothing is buffered, the event sleeps.       *)
(***************************************************************************)
DirInit ==
  /\ FreshLines
  /\ buftotsz = 0 /\ wait_cntsz = 0
  /\ BufPend = [l \in Lines |-> <<>>]
  /\ ReadyReqs = <<>> /\ OutboundReqs = <<>>
  /\ pc = "WAIT_INQ_EMPTY" /\ sel = "NONE"
  /\ next_port = 0 /\ loop_count = 0 /\ checkedOutbound = FALSE
  /\ req_partial = NULL /\ fatal = "none"
  /\ inReq = <<>> /\ inRep = <<>> /\ outCohe = <<>> /\ outRep = <<>>

(***************************************************************************)
(* A definition named MutX is X with a slip; it is not part of the model.  *)
(* Each property is seen to fail when some X is replaced by its MutX.      *)
(***************************************************************************)

(* The ends of a case of DirSim: DIRSTARTOVER advances next_port and runs  *)
(* on; YS__errmsg ends the simulation.                                     *)
StartOver ==
  /\ pc' = "START" /\ sel' = "NONE" /\ next_port' = 1 - next_port
  /\ UNCHANGED <<loop_count, checkedOutbound>>

YS__errmsg(code) ==
  /\ fatal' = code /\ pc' = "EXIT"
  /\ UNCHANGED <<lineVars, countVars, queueVars, inVars, outVars,
                 sel, next_port, loop_count, checkedOutbound, req_partial>>

(* checkQ and routing_dir: COHEs leave by one port, replies by the other.  *)
Full(q)      == Len(q) >= OutCap
PortFull(m)  == IF m.type = "COHE" THEN Full(outCohe) ELSE Full(outRep)
AddReq(m)    == /\ outCohe' = IF m.type = "COHE" THEN Append(outCohe, m) ELSE outCohe
                /\ outRep'  = IF m.type = "COHE" THEN outRep ELSE Append(outRep, m)
-----------------------------------------------------------------------------
(***************************************************************************)
(* DIRSTART: what an activation of the event looks at, and in which order. *)
(***************************************************************************)
OutboundDone == checkedOutbound \/ OutboundReqs = <<>>

(* What next_port has to offer: on the request port a partly sent          *)
(* transaction comes before a revived request, and that before a new one.  *)
MutOffer ==  \* looks for COHE_REPLYs in the port of the REQUESTs
  IF next_port = 1
  THEN IF inReq # <<>> THEN "COHE_REPLY" ELSE "NONE"
  ELSE IF req_partial # NULL THEN "PARTIAL"
       ELSE IF ReadyReqs # <<>> THEN "READY"
            ELSE IF inReq # <<>> THEN "REQ" ELSE "NONE"
Offer ==
  IF next_port = 1
  THEN IF inRep # <<>> THEN "COHE_REPLY" ELSE "NONE"
  ELSE IF req_partial # NULL THEN "PARTIAL"
       ELSE IF ReadyReqs # <<>> THEN "READY"
            ELSE IF inReq # <<>> THEN "REQ" ELSE "NONE"

DirActivate ==
  /\ pc = "SCHED"
  /\ pc' = "START"
  /\ UNCHANGED <<lineVars, countVars, queueVars, fatal, inVars, outVars,
                 sel, next_port, loop_count, checkedOutbound, req_partial>>

(* The head of OutboundReqs is sent (DIROUTBOUND), or recycled to the tail *)
(* when its port is full.  A reply gives its buffer back, a COHE keeps it. *)
DirOutbound ==
  /\ pc = "START" /\ ~OutboundDone
  /\ checkedOutbound' = TRUE
  /\ LET m == Head(OutboundReqs)
     IN  IF PortFull(m)
         THEN /\ OutboundReqs' = Append(Tail(OutboundReqs), m)
              /\ UNCHANGED <<outVars, buftotsz>>
         ELSE /\ OutboundReqs' = Tail(OutboundReqs)
              /\ AddReq(m)
              /\ buftotsz' = IF m.type = "REPLY" THEN buftotsz - 1 ELSE buftotsz
  /\ UNCHANGED <<lineVars, wait_cntsz, BufPend, ReadyReqs, fatal, inVars,
                 pc, sel, next_port, loop_count, req_partial>>

(* Something was found: it is served after the access delay.               *)
DirPick ==
  /\ pc = "START" /\ OutboundDone
  /\ Offer \in {"COHE_REPLY", "READY", "REQ"}
  /\ sel' = Offer /\ pc' = "SERV"
  /\ loop_count' = 0 /\ checkedOutbound' = TRUE
  /\ UNCHANGED <<lineVars, countVars, queueVars, fatal, inVars, outVars,
                 next_port, req_partial>>

(* How the event ends when both ports have nothing: it is scheduled again, *)
(* or sleeps until a message arrives or until a queue has room.            *)
Asleep == IF ReadyReqs # <<>> THEN "SCHED"
          ELSE IF req_partial # NULL \/ OutboundReqs # <<>>
               THEN "WAIT_QUEUE_EVENT" ELSE "WAIT_INQ_EMPTY"

(* Nothing at this port: try the other one, or sleep after both.           *)
DirNextPort ==
  /\ pc = "START" /\ OutboundDone /\ Offer = "NONE"
  /\ next_port' = 1 - next_port
  /\ IF loop_count = 0
     THEN loop_count' = 1 /\ UNCHANGED <<pc, checkedOutbound>>
     ELSE /\ loop_count' = 0 /\ checkedOutbound' = FALSE
          /\ pc' = Asleep
  /\ UNCHANGED <<lineVars, countVars, queueVars, fatal, inVars, outVars,
                 sel, req_partial>>
-----------------------------------------------------------------------------
(***************************************************************************)
(* DIRREQ and Dir_Cohe: a REQUEST, new or revived, is served.              *)
(***************************************************************************)
wasPending == sel = "READY"
Request    == IF wasPending THEN Head(ReadyReqs) ELSE Head(inReq)
ServeReq   == pc = "SERV" /\ sel \in {"REQ", "READY"}
MutFewBuffers == buftotsz < BufMax - 1
HaveBuffer == buftotsz < BufMax \/ (buftotsz = BufMax /\ wasPending)
ServeCohe  == ServeReq /\ ~Request.preprocessed /\ HaveBuffer

(* dir_commit_req takes the request off the queue it came from; a request  *)
(* that is not committed stays there, with the fields written so far.      *)
CommitReq ==
  IF wasPending THEN ReadyReqs' = Tail(ReadyReqs) /\ UNCHANGED inReq
                ELSE inReq' = Tail(inReq) /\ UNCHANGED ReadyReqs
LeaveReq(m) ==
  IF wasPending THEN ReadyReqs' = <<m>> \o Tail(ReadyReqs) /\ UNCHANGED inReq
                ELSE inReq' = <<m>> \o Tail(inReq) /\ UNCHANGED ReadyReqs

(* DirAddBuf, and where Dir_Cohe starts a transaction: a request that was  *)
(* pending already has its buffer.                                         *)
HoldBuffer == buftotsz' = IF wasPending THEN buftotsz ELSE buftotsz + 1

(* An UPGRADE from a node that is not a sharer has lost a race and is      *)
(* turned into a READ_OWN.                                                 *)
CoheReqType(m) ==
  IF m.req_type = "UPGRADE"
     /\ ~(dirst[m.tag] = "DIR_SHARED" /\ m.node \in vector[m.tag])
  THEN "READ_OWN" ELSE m.req_type

(* Table maintenance: the sharers after node n joins those of line l, or   *)
(* replaces them.                                                          *)
DirAdd_FM(l, n)   == vector[l] \cup {n}
DirRmAllAdd_FM(n) == {n}

(* DirFind_FM: the sharers an answer must come from.                       *)
Others(m) == vector[m.tag] \ {m.node}

(* The errors of Dir_Cohe and DIRREQ on a REQUEST.                         *)
ReqError(m) ==
  IF m.preprocessed
  THEN IF wasPending THEN "preprocessed request pending" ELSE "none"
  ELSE IF ~HaveBuffer \/ pend[m.tag] THEN "none"
  ELSE IF m.req_type \notin ReqTypes THEN "unknown request type"
  ELSE IF \/ dirst[m.tag] = "DIR_PRIVATE" /\ Cardinality(vector[m.tag]) # 1
          \/ /\ dirst[m.tag] = "DIR_SHARED" /\ m.req_type # "READ_SH"
             /\ vector[m.tag] = {}
       THEN "find" ELSE "none"

MutWaitsForWRB(m) == FALSE
MutInvalidates(m) ==  \* a read upgrades a line shared by others
  dirst[m.tag] = "DIR_SHARED" /\ m.req_type = "UPGRADE" /\ Others(m) # {}
(* Which answer Dir_Cohe gives to a request for a line that is not pending.*)
WaitsForWRB(m) == dirst[m.tag] = "DIR_PRIVATE" /\ vector[m.tag] = {m.node}
Forwards(m)    == dirst[m.tag] = "DIR_PRIVATE" /\ vector[m.tag] # {m.node}
Invalidates(m) == /\ dirst[m.tag] = "DIR_SHARED" /\ Others(m) # {}
                  /\ CoheReqType(m) # "READ_SH"
Grants(m)      == ~WaitsForWRB(m) /\ ~Forwards(m) /\ ~Invalidates(m)

(* The reply of VISIT_MEM and DIR_REPLY.  Under MESI the only reader of a  *)
(* line gets it exclusive.                                                 *)
GrantType(m) ==
  CASE CoheReqType(m) = "READ_SH" ->
         IF ~MSI /\ (dirst[m.tag] = "UNCACHED" \/ vector[m.tag] = {m.node})
         THEN "REPLY_EXCL" ELSE "REPLY_SH"
    [] CoheReqType(m) = "UPGRADE" -> "REPLY_UPGRADE"
    [] OTHER -> "REPLY_EXCL"

DirReqError ==
  /\ ServeReq
  /\ ReqError(Request) # "none"
  /\ YS__errmsg(ReqError(Request))

(* A request the requester could not accept (every way of its set upgrades)*)
(* is bounced back as the reply it already is.                             *)
DirReqBounce ==
  /\ ServeReq /\ Request.preprocessed /\ ReqError(Request) = "none"
  /\ IF Full(outRep)
     THEN UNCHANGED <<ReadyReqs, inReq, outVars>>
     ELSE /\ CommitReq
          /\ AddReq([Request EXCEPT !.type = "REPLY", !.reply = "REPLY"])
  /\ StartOver
  /\ UNCHANGED <<lineVars, countVars, BufPend, OutboundReqs, fatal, inRep,
                 req_partial>>

(* No buffer is free: the requester is told to retry.                      *)
DirReqRAR ==
  /\ ServeReq /\ ~Request.preprocessed /\ ~HaveBuffer
  /\ IF Full(outRep)
     THEN UNCHANGED <<ReadyReqs, inReq, outVars>>
     ELSE /\ CommitReq
          /\ AddReq([Request EXCEPT !.type = "REPLY", !.reply = "RAR"])
  /\ StartOver
  /\ UNCHANGED <<lineVars, countVars, BufPend, OutboundReqs, fatal, inRep,
                 req_partial>>

(* WAIT_PEND: the line is in transition, the request joins its buffer.     *)
DirReqPend ==
  /\ ServeCohe /\ pend[Request.tag]
  /\ CommitReq
  /\ BufPend' = [BufPend EXCEPT ![Request.tag] = Append(@, Request)]
  /\ HoldBuffer
  /\ StartOver
  /\ UNCHANGED <<lineVars, wait_cntsz, OutboundReqs, fatal, inRep, outVars,
                 req_partial>>

(* A request that Dir_Cohe decides on now.                                 *)
Decides(m) == ServeCohe /\ ~pend[m.tag] /\ ReqError(m) = "none"

(* VISIT_MEM and DIR_REPLY: the line changes hands at once.  When the      *)
(* reply port is full the request, already rewritten, is left uncommitted. *)
DirReqGrant ==
  LET m == Request
      l == m.tag
      r == [m EXCEPT !.req_type = GrantType(m)]
  IN  /\ Decides(m) /\ Grants(m)
      /\ dirst' = [dirst EXCEPT ![l] = IF r.req_type = "REPLY_SH"
                                       THEN "DIR_SHARED" ELSE "DIR_PRIVATE"]
      /\ vector' = [vector EXCEPT ![l] = IF CoheReqType(m) = "READ_SH"
                                         THEN DirAdd_FM(l, m.node)
                                         ELSE DirRmAllAdd_FM(m.node)]
      /\ extra' = [extra EXCEPT ![l] = NULL]
      /\ IF Full(outRep)
         THEN LeaveReq(r) /\ UNCHANGED <<buftotsz, outVars>>
         ELSE /\ CommitReq
              /\ AddReq([r EXCEPT !.type = "REPLY", !.reply = "REPLY"])
              /\ buftotsz' = IF wasPending THEN buftotsz - 1 ELSE buftotsz
      /\ StartOver
      /\ UNCHANGED <<pend, wait_cntsz, BufPend, OutboundReqs, fatal, inRep,
                     req_partial>>

(* A fresh extra for the line of m, which will wait for count answers.     *)
NewExtra(m, count, targets) ==
  [pend_req |-> m, counter |-> count, left |-> targets,
   next_req_type |-> "INVL", nack_st |-> "NACK_OK", ret_st |-> "DIR_REPLY",
   waiting |-> FALSE, WaitingFor |-> NULL, WasHere |-> NULL]

(* WAITFORWRB: the requester still counts as the owner, so its write-back  *)
(* or replacement hint is on the way and must be seen first.               *)
DirReqWaitForWRB ==
  LET m == [Request EXCEPT !.req_type = CoheReqType(Request)]
      l == m.tag
  IN  /\ Decides(Request) /\ WaitsForWRB(m)
      /\ CommitReq
      /\ pend' = [pend EXCEPT ![l] = TRUE]
      /\ extra' = [extra EXCEPT ![l] = [NewExtra(m, 1, {}) EXCEPT
                     !.waiting = TRUE, !.WaitingFor = m.node]]
      /\ HoldBuffer /\ wait_cntsz' = wait_cntsz + 1
      /\ StartOver
      /\ UNCHANGED <<dirst, vector, BufPend, OutboundReqs, fatal, inRep,
                     outVars, req_partial>>

(* The directory now delays for the creation of a COHE packet.             *)
StartCohe(l) ==
  /\ req_partial' = l /\ pc' = "SENDCOHE" /\ sel' = "PARTIAL"
  /\ UNCHANGED <<next_port, loop_count, checkedOutbound>>

(* WAIT_CNT: every other sharer is to be invalidated before the reply.     *)
DirReqInval ==
  LET m == Request
      l == m.tag
      r == [m EXCEPT !.req_type = GrantType(m)]
      e == [NewExtra(r, Cardinality(Others(m)), Others(m)) EXCEPT
              !.ret_st = IF CoheReqType(m) = "UPGRADE"
                         THEN "DIR_REPLY" ELSE "SPECIAL_REPLY"]
  IN  /\ Decides(m) /\ Invalidates(m)
      /\ CommitReq
      /\ dirst' = [dirst EXCEPT ![l] = "DIR_PRIVATE"]
      /\ vector' = [vector EXCEPT ![l] = DirRmAllAdd_FM(m.node)]
      /\ pend' = [pend EXCEPT ![l] = TRUE]
      /\ extra' = [extra EXCEPT ![l] = e]
      /\ HoldBuffer /\ wait_cntsz' = wait_cntsz + 1
      /\ StartCohe(l)
      /\ UNCHANGED <<BufPend, OutboundReqs, fatal, inRep, outVars>>

(* What the owner of the line is asked to do with its copy.                *)
CopybackType(m) == IF CoheReqType(m) = "READ_SH" THEN "COPYBACK" ELSE "COPYBACK_INVL"

(* FORWARD_REQUEST: the request itself goes to the owner as a COHE, for a  *)
(* cache-to-cache transfer.                                                *)
DirReqForward ==
  LET m     == Request
      l     == m.tag
      owner == CHOOSE n \in vector[l] : TRUE
      c     == CopybackType(m)
      r     == [m EXCEPT !.type = "COHE", !.req_type = c, !.nack_st = "NACK_NOK",
                         !.reply = "REPLY", !.node = owner, !.forward_to = m.node]
  IN  /\ Decides(m) /\ Forwards(m)
      /\ CommitReq
      /\ dirst' = [dirst EXCEPT ![l] = IF c = "COPYBACK"
                                       THEN "DIR_SHARED" ELSE "DIR_PRIVATE"]
      /\ vector' = [vector EXCEPT ![l] = IF c = "COPYBACK"
                                         THEN DirAdd_FM(l, m.node)
                                         ELSE DirRmAllAdd_FM(m.node)]
      /\ pend' = [pend EXCEPT ![l] = TRUE]
      /\ extra' = [extra EXCEPT ![l] = [NewExtra(r, 1, {owner}) EXCEPT
                     !.next_req_type = c, !.nack_st = "NACK_NOK",
                     !.ret_st = "ACK_REPLY"]]
      /\ HoldBuffer /\ wait_cntsz' = wait_cntsz + 1
      /\ StartCohe(l)
      /\ UNCHANGED <<BufPend, OutboundReqs, fatal, inRep, outVars>>
-----------------------------------------------------------------------------
(***************************************************************************)
(* DIRSENDCOHE: one COHE of the partly sent transaction leaves, or the     *)
(* directory keeps it in req_partial and looks for other work.             *)
(***************************************************************************)
SendCohe == pc = "SENDCOHE" \/ (pc = "START" /\ OutboundDone /\ Offer = "PARTIAL")

(* DIRSTART leaves dirptr->req null when it resumes req_partial, and a     *)
(* delay that follows comes back with that pointer.                        *)
DirSendCoheNull ==
  /\ SendCohe
  /\ (pc = "SENDCOHE" /\ sel = "NONE") \/ extra[req_partial] = NULL
  /\ YS__errmsg("null pointer")

Sending == SendCohe /\ ~(pc = "SENDCOHE" /\ sel = "NONE") /\ extra[req_partial] # NULL

DirSendForward ==
  LET c == extra[req_partial].pend_req
  IN  /\ Sending /\ c.type = "COHE"
      /\ IF Full(outCohe)
         THEN UNCHANGED <<outVars, req_partial>>
         ELSE AddReq(c) /\ req_partial' = NULL
      /\ StartOver
      /\ UNCHANGED <<lineVars, countVars, queueVars, fatal, inVars>>

Invalidation(l, n) ==
  [type |-> "COHE", req_type |-> extra[l].next_req_type, reply |-> "REPLY",
   nack_st |-> extra[l].nack_st, node |-> n, tag |-> l, forward_to |-> NULL,
   preprocessed |-> FALSE, isreq |-> FALSE]

DirSendInval ==
  LET l == req_partial
      e == extra[l]
  IN  /\ Sending /\ e.pend_req.type # "COHE"
      /\ IF Full(outCohe)
         THEN StartOver /\ UNCHANGED <<extra, outVars, req_partial>>
         ELSE \E n \in e.left :
                /\ AddReq(Invalidation(l, n))
                /\ extra' = [extra EXCEPT ![l].left = @ \ {n}]
                /\ IF e.left = {n}
                   THEN req_partial' = NULL /\ StartOver
                   ELSE /\ pc' = "SENDCOHE"
                        /\ loop_count' = 0 /\ checkedOutbound' = TRUE
                        /\ UNCHANGED <<sel, next_port, req_partial>>
      /\ UNCHANGED <<dirst, vector, pend, countVars, queueVars, fatal, inVars>>
-----------------------------------------------------------------------------
(***************************************************************************)
(* DIRCOHEREP: a coherence reply is always sunk; what it leads to goes to  *)
(* an output port, or to OutboundReqs when that is full.                   *)
(***************************************************************************)
Answer     == Head(inRep)
ServeRep   == pc = "SERV" /\ sel = "COHE_REPLY"
CommitRep  == inRep' = Tail(inRep) /\ UNCHANGED inReq

MutDirCheckBuf(l, first) == ReadyReqs' = ReadyReqs \o first /\ UNCHANGED BufPend
MutRevive(l, first) ==  \* loses the request the caller revives
  /\ ReadyReqs' = ReadyReqs \o BufPend[l]
  /\ BufPend' = [BufPend EXCEPT ![l] = <<>>]

(* DirCheckBuf: the requests that wait for line l become ready, behind     *)
(* those in first (a request that the caller revives itself).              *)
DirCheckBuf(l, first) ==
  /\ ReadyReqs' = ReadyReqs \o first \o BufPend[l]
  /\ BufPend' = [BufPend EXCEPT ![l] = <<>>]

MutSettle(l) == extra' = [extra EXCEPT ![l] = NULL] /\ UNCHANGED pend

(* The line is no longer pending and its extra is freed.                   *)
Settle(l) ==
  /\ pend' = [pend EXCEPT ![l] = FALSE]
  /\ extra' = [extra EXCEPT ![l] = NULL]

MutSendOrQueue(m) ==  \* a reply keeps its buffer when it leaves
  /\ IF PortFull(m)
     THEN OutboundReqs' = Append(OutboundReqs, m) /\ UNCHANGED outVars
     ELSE AddReq(m) /\ UNCHANGED OutboundReqs
  /\ UNCHANGED buftotsz

(* A message that holds a buffer leaves now, or through OutboundReqs; a    *)
(* reply gives its buffer back when it leaves.                             *)
SendOrQueue(m) ==
  IF PortFull(m)
  THEN OutboundReqs' = Append(OutboundReqs, m) /\ UNCHANGED <<outVars, buftotsz>>
  ELSE /\ AddReq(m)
       /\ buftotsz' = IF m.type = "REPLY" THEN buftotsz - 1 ELSE buftotsz
       /\ UNCHANGED OutboundReqs

(* FixForwardRARs: what the requester of a forwarded COHE had asked for.   *)
FixForwardRARs(t) == IF t = "COPYBACK" THEN "READ_SH" ELSE "READ_OWN"

(* A write-back of the node that answers has been seen in the meantime.    *)
WasHere(m) == extra[m.tag].WasHere = m.node

(* How DIRCOHEREP classifies the answer m.                                 *)
AnswerClass(m) ==
  CASE m.reply = "NACK" /\ extra[m.tag].nack_st = "NACK_NOK" ->
         IF WasHere(m) THEN "RETRY" ELSE "RACE"
    [] m.reply = "NACK_PEND" -> IF WasHere(m) THEN "RETRY" ELSE "RESEND"
    [] OTHER -> "ACK"

AnswerError(m) ==
  LET e == extra[m.tag]
  IN  IF e = NULL
      THEN IF m.reply = "NACK" THEN "null pointer" ELSE "unexpected coherence reply"
      ELSE IF m.reply = "NACK_PEND" /\ e.nack_st # "NACK_NOK"
      THEN "NACK_OK NACK_PEND"
      ELSE CASE AnswerClass(m) = "RETRY" ->
                  IF m.forward_to = NULL THEN "non-forward NACK_NOK"
                  ELSE IF m.req_type = "INVL" THEN "unknown forward type" ELSE "none"
             [] AnswerClass(m) = "RACE" ->
                  IF ~m.isreq THEN "NACK_NOK not pend_req"
                  ELSE IF m.forward_to # NULL /\ m.req_type = "INVL"
                       THEN "unknown forward type" ELSE "none"
             [] AnswerClass(m) = "RESEND" -> "none"
             [] OTHER ->
                  IF m.forward_to # NULL /\ e.ret_st # "ACK_REPLY"
                  THEN "forward without ACK_REPLY"
                  ELSE IF e.counter = 1 /\ e.ret_st = "ACK_REPLY" /\ m.isreq
                       THEN "forward not satisfied" ELSE "none"

DirCoheRepError ==
  /\ ServeRep /\ Answer.req_type \notin WrbTypes
  /\ AnswerError(Answer) # "none"
  /\ YS__errmsg(AnswerError(Answer))

Answers(class) ==
  /\ ServeRep /\ Answer.req_type \notin WrbTypes
  /\ AnswerError(Answer) = "none" /\ AnswerClass(Answer) = class
  /\ CommitRep /\ StartOver
  /\ UNCHANGED <<fatal, req_partial>>

(* CLASS 2 RAR: the presumed owner does not have the line and its          *)
(* write-back has not come, so the line goes back to it and the requester  *)
(* is told to retry.                                                       *)
DirNackRace ==
  LET m == Answer
      l == m.tag
      r == IF m.forward_to = NULL
           THEN [m EXCEPT !.type = "REPLY", !.reply = "RAR"]
           ELSE [m EXCEPT !.type = "REPLY", !.reply = "RAR",
                          !.req_type = FixForwardRARs(m.req_type),
                          !.nack_st = "NACK_OK",
                          !.node = m.forward_to, !.forward_to = NULL]
  IN  /\ Answers("RACE")
      /\ dirst' = [dirst EXCEPT ![l] = "DIR_PRIVATE"]
      /\ vector' = [vector EXCEPT ![l] = DirRmAllAdd_FM(m.node)]
      /\ Settle(l) /\ DirCheckBuf(l, <<>>) /\ SendOrQueue(r)
      /\ UNCHANGED wait_cntsz

(* The presumed owner's write-back came first: the original REQUEST is     *)
(* recovered and processed again.                                          *)
DirNackRetry ==
  LET m == Answer
      l == m.tag
      r == [m EXCEPT !.type = "REQUEST", !.reply = "REPLY",
                     !.req_type = FixForwardRARs(m.req_type),
                     !.nack_st = "NACK_OK",
                     !.node = m.forward_to, !.forward_to = NULL]
  IN  /\ Answers("RETRY")
      /\ Settle(l) /\ DirCheckBuf(l, <<r>>)
      /\ UNCHANGED <<dirst, vector, countVars, OutboundReqs, outVars>>

MutDirNackPendResend ==  \* counts the NACKed COHE as returned
  /\ Answers("RESEND")
  /\ SendOrQueue([Answer EXCEPT !.type = "COHE"])
  /\ wait_cntsz' = wait_cntsz - 1
  /\ UNCHANGED <<lineVars, BufPend, ReadyReqs>>

(* NACK_PEND: the COHE overtook the REPLY to its target; it is sent again. *)
DirNackPendResend ==
  /\ Answers("RESEND")
  /\ SendOrQueue([Answer EXCEPT !.type = "COHE"])
  /\ UNCHANGED <<lineVars, wait_cntsz, BufPend, ReadyReqs>>

(* An ordinary acknowledgment, not the last one.                           *)
DirAck ==
  LET l == Answer.tag
  IN  /\ Answers("ACK") /\ extra[l].counter # 1
      /\ extra' = [extra EXCEPT ![l].counter = @ - 1]
      /\ UNCHANGED <<dirst, vector, pend, countVars, queueVars, outVars>>

(* The last invalidation is acknowledged: the REPLY can leave.             *)
DirAckReply ==
  LET l == Answer.tag
      e == extra[l]
  IN  /\ Answers("ACK") /\ e.counter = 1 /\ e.ret_st # "ACK_REPLY"
      /\ wait_cntsz' = wait_cntsz - 1
      /\ Settle(l) /\ DirCheckBuf(l, <<>>)
      /\ SendOrQueue([e.pend_req EXCEPT !.type = "REPLY", !.reply = "REPLY"])
      /\ UNCHANGED <<dirst, vector>>

(* A cache-to-cache transfer is acknowledged: the transaction is over.     *)
DirAckForward ==
  LET l == Answer.tag
      e == extra[l]
  IN  /\ Answers("ACK") /\ e.counter = 1 /\ e.ret_st = "ACK_REPLY"
      /\ wait_cntsz' = wait_cntsz - 1 /\ buftotsz' = buftotsz - 1
      /\ Settle(l) /\ DirCheckBuf(l, <<>>)
      /\ UNCHANGED <<dirst, vector, OutboundReqs, outVars>>
-----------------------------------------------------------------------------
(***************************************************************************)
(* DIRWRB: a write-back or a replacement hint of a line held exclusive.    *)
(***************************************************************************)
Expected(m) == extra[m.tag] # NULL /\ extra[m.tag].waiting

WrbError(m) ==
  LET l == m.tag
  IN  IF Expected(m) /\ extra[l].WaitingFor # m.node
      THEN "waiting for another node"
      ELSE IF Expected(m) /\ extra[l].counter # 1 THEN "counter"
      ELSE IF pend[l] /\ extra[l] = NULL THEN "none"
      ELSE IF dirst[l] = "UNCACHED" THEN "uncached write-back"
      ELSE IF dirst[l] = "DIR_PRIVATE" /\ Cardinality(vector[l]) # 1
           THEN "find" ELSE "none"

DirWrbError ==
  /\ ServeRep /\ Answer.req_type \in WrbTypes
  /\ WrbError(Answer) # "none"
  /\ YS__errmsg(WrbError(Answer))

WriteBack ==
  /\ ServeRep /\ Answer.req_type \in WrbTypes /\ WrbError(Answer) = "none"
  /\ CommitRep /\ StartOver
  /\ UNCHANGED <<buftotsz, OutboundReqs, fatal, outVars, req_partial>>

MutUncache(l) == dirst' = [dirst EXCEPT ![l] = "UNCACHED"] /\ UNCHANGED vector

(* DirRmAll_FM and the state that goes with it.                            *)
Uncache(l) ==
  /\ dirst' = [dirst EXCEPT ![l] = "UNCACHED"]
  /\ vector' = [vector EXCEPT ![l] = {}]

(* The write-back WAITFORWRB was waiting for: the request is revived.      *)
DirWrbRevive ==
  LET l == Answer.tag
  IN  /\ WriteBack /\ Expected(Answer)
      /\ Uncache(l) /\ Settle(l)
      /\ DirCheckBuf(l, <<extra[l].pend_req>>)
      /\ wait_cntsz' = wait_cntsz - 1

(* A write-back that nobody waits for while COHEs are in flight: only      *)
(* remembered, for the NACK that is to come.                               *)
DirWrbWasHere ==
  LET l == Answer.tag
  IN  /\ WriteBack /\ extra[l] # NULL /\ ~Expected(Answer)
      /\ Uncache(l)
      /\ extra' = [extra EXCEPT ![l].WasHere = Answer.node]
      /\ UNCHANGED <<pend, wait_cntsz, BufPend, ReadyReqs>>

DirWrbPlain ==
  LET l == Answer.tag
  IN  /\ WriteBack /\ extra[l] = NULL
      /\ IF pend[l] THEN UNCHANGED <<dirst, vector>> ELSE Uncache(l)
      /\ pend' = [pend EXCEPT ![l] = FALSE]
      /\ DirCheckBuf(l, <<>>)
      /\ UNCHANGED <<extra, wait_cntsz>>
-----------------------------------------------------------------------------
(***************************************************************************)
(* The ports (route.c).  An arrival wakes a sleeping directory; a removal  *)
(* wakes it only when the port was full and it sleeps for a queue event.   *)
(***************************************************************************)
Idle == pc \notin {"START", "EXIT"}

Arrival ==
  /\ pc' = IF pc \in {"WAIT_INQ_EMPTY", "WAIT_QUEUE_EVENT"} THEN "SCHED" ELSE pc
  /\ UNCHANGED <<lineVars, countVars, queueVars, fatal, outVars,
                 sel, next_port, loop_count, checkedOutbound, req_partial>>

ArriveReq(m) ==
  /\ Idle /\ Len(inReq) < InCap /\ inReq' = Append(inReq, m)
  /\ Arrival /\ UNCHANGED inRep
ArriveRep(m) ==
  /\ Idle /\ Len(inRep) < InCap /\ inRep' = Append(inRep, m)
  /\ Arrival /\ UNCHANGED inReq

Removal(q) ==
  /\ Idle /\ q # <<>>
  /\ pc' = IF pc = "WAIT_QUEUE_EVENT" /\ Full(q) THEN "SCHED" ELSE pc
  /\ UNCHANGED <<lineVars, countVars, queueVars, fatal, inVars,
                 sel, next_port, loop_count, checkedOutbound, req_partial>>

TakeCohe == Removal(outCohe) /\ outCohe' = Tail(outCohe) /\ UNCHANGED outRep
TakeRep  == Removal(outRep) /\ outRep' = Tail(outRep) /\ UNCHANGED outCohe

(* One step of the event, whatever its environment does.                   *)
DirStart == DirActivate \/ DirOutbound \/ DirPick \/ DirNextPort
DirReq   == \/ DirReqError \/ DirReqBounce \/ DirReqRAR \/ DirReqPend
            \/ DirReqGrant \/ DirReqWaitForWRB \/ DirReqInval \/ DirReqForward
DirSend  == DirSendCoheNull \/ DirSendForward \/ DirSendInval
DirCoheRep == \/ DirCoheRepError \/ DirNackRace \/ DirNackRetry
              \/ DirNackPendResend \/ DirAck \/ DirAckReply \/ DirAckForward
DirWrb   == DirWrbError \/ DirWrbRevive \/ DirWrbWasHere \/ DirWrbPlain
DirStep  == DirStart \/ DirReq \/ DirSend \/ DirCoheRep \/ DirWrb

(* The messages a bus may put into the ports: nothing is said of when or   *)
(* why, so what holds here holds under any protocol of the caches.  (A     *)
(* request that found the reply port full carries the type of its reply.)  *)
RequestMsg ==
  {m \in REQ : /\ m.type = "REQUEST" /\ m.isreq /\ m.forward_to = NULL
               /\ m.reply = "REPLY" /\ m.nack_st = "NACK_OK"
               /\ m.req_type \in ReqTypes \cup DataTypes}
CoheRepMsg ==
  {m \in REQ : /\ m.type = "COHE_REPLY" /\ ~m.preprocessed /\ m.reply # "RAR"
               /\ m.req_type \in CoheTypes \cup WrbTypes
               /\ m.req_type \in WrbTypes =>
                    ~m.isreq /\ m.forward_to = NULL /\ m.reply = "REPLY"}

Environment == \/ \E m \in RequestMsg : ArriveReq(m)
               \/ \E m \in CoheRepMsg : ArriveRep(m)
               \/ TakeCohe \/ TakeRep

DirNext == DirStep \/ Environment
DirSpec == DirInit /\ [][DirNext]_dirVars
-----------------------------------------------------------------------------
(***************************************************************************)
(* What the directory guarantees whatever the caches and the bus do.       *)
(***************************************************************************)

(* What the event serves is still there after the access delay: it works   *)
(* on dirptr->req, peeked before the delay, while messages go on arriving. *)
PickedThere ==
  /\ pc = "SERV" => \/ sel = "REQ" /\ inReq # <<>>
                    \/ sel = "READY" /\ ReadyReqs # <<>>
                    \/ sel = "COHE_REPLY" /\ inRep # <<>>
  /\ pc = "SENDCOHE" => req_partial # NULL

(* A line is pending exactly while it has its extra information: every     *)
(* path that ends a transaction clears both, so no request can join the    *)
(* buffer of a line that nothing will ever release.                        *)
PendIffExtra == \A l \in Lines : pend[l] <=> extra[l] # NULL

(* A buffered request waits for a transaction in flight: the paths that    *)
(* end one all call DirCheckBuf, and none leaves a request behind.         *)
NoStranded == \A l \in Lines : BufPend[l] # <<>> => pend[l]

(* The state of a line and its sharer vector agree: this is what the find  *)
(* checks of Dir_Cohe rely on.                                             *)
VectorOK ==
  \A l \in Lines :
    /\ dirst[l] = "UNCACHED" => vector[l] = {}
    /\ dirst[l] = "DIR_SHARED" => vector[l] # {}
    /\ dirst[l] = "DIR_PRIVATE" => \E n \in Nodes : vector[l] = {n}

(* The directory never holds more requests than it has buffers for.        *)
BufBound == buftotsz <= BufMax

(* A transaction in flight always waits for at least one answer, and for   *)
(* exactly one when it waits for a write-back: the write-back it waits for *)
(* never finds another count.                                              *)
CounterOK ==
  \A l \in Lines :
    extra[l] # NULL => /\ extra[l].counter >= 1
                       /\ extra[l].waiting => extra[l].counter = 1

(* Each buffer in use is a request that is ready, one that is pending, one *)
(* whose transaction is in flight, or a reply that has no room to leave:   *)
(* none leaks and none is given back twice.                                *)
Parked == UNION {{<<l, i>> : i \in 1..Len(BufPend[l])} : l \in Lines}
InFlight == Cardinality({l \in Lines : extra[l] # NULL})
Replies(q) == {i \in 1..Len(q) : q[i].type = "REPLY"}
BufAccounting ==
  buftotsz = Len(ReadyReqs) + Cardinality(Parked) + InFlight
             + Cardinality(Replies(OutboundReqs))

(* Each transaction in flight is counted in wait_cntsz, so that the answer *)
(* that ends it never drives the counter below zero, which DirSim would    *)
(* take for corruption ("directory buffer size drops below zero").         *)
CohesCounted == wait_cntsz >= InFlight

(* The directory's books: every count it keeps is the number of what it    *)
(* counts, and no line is pending without what its transaction waits for.  *)
Accounts == TypeOK /\ PendIffExtra /\ CounterOK /\ BufBound /\ BufAccounting
=============================================================================
