--------------------------- MODULE CoherenceProofs ---------------------------
(***************************************************************************)
(* The protocol keeps what its parts promise.  DirectoryProofs and         *)
(* L2Proofs speak of a directory and of caches to which any message may    *)
(* come, within limits that Environment and L2Environment state; here the  *)
(* two send each other their messages, and the limits are shown to be      *)
(* kept.  The invariant Shapes says which messages each queue holds: what  *)
(* a message looks like when it has been rewritten by the directory, a     *)
(* cache or both on its way, through forwards, NACKs, RARs and bounces.    *)
(***************************************************************************)
EXTENDS Coherence, DirectoryProofs, L2Proofs

(* A request that the directory may buffer, in the buffer of line l.       *)
PlainRequest == {m \in RequestMsg : ~m.preprocessed}
PlainOf(l) == {m \in PlainRequest : m.tag = l}

(* What answers a request, or sends it round again (RAR).                  *)
ReplyMsg ==
  {m \in REQ : /\ m.type = "REPLY" /\ m.reply \in {"REPLY", "RAR"} /\ m.isreq
               /\ m.forward_to = NULL /\ m.nack_st = "NACK_OK"
               /\ m.req_type \in ReqTypes \cup DataTypes}

(* A COHE is a forwarded request or one of the directory's own, and only   *)
(* a forwarded request knows who asked and may meet an MSHR (NACK_NOK).    *)
CoheMsg ==
  {m \in REQ : /\ m.type = "COHE" /\ m.reply # "RAR" /\ ~m.preprocessed
               /\ m.req_type \in CoheTypes
               /\ m.isreq => m.req_type # "INVL"
               /\ m.isreq <=> m.forward_to # NULL
               /\ m.isreq <=> m.nack_st = "NACK_NOK"}

(* Its answer is the COHE, turned round; only the acknowledgment of a      *)
(* transfer names a requester that has its request back already.           *)
AnswerMsg ==
  {m \in CoheRepMsg : /\ m.isreq => m.req_type # "INVL" /\ m.nack_st = "NACK_NOK"
                      /\ m.isreq <=> m.forward_to # NULL /\ m.reply # "REPLY"
                      /\ m.reply = "NACK_PEND" => m.isreq}

(* The transaction of line l keeps its request, forwarded already or not.  *)
PendReq(l, e) ==
  /\ e.pend_req \in IF e.ret_st = "ACK_REPLY" THEN CoheMsg ELSE PlainRequest
  /\ e.pend_req.tag = l
  /\ e.nack_st = "NACK_NOK" <=> e.ret_st = "ACK_REPLY"
  /\ e.waiting => e.ret_st # "ACK_REPLY"
Kept == \A l \in Lines : extra[l] # NULL => PendReq(l, extra[l])

DirShapes ==
  /\ inReq \in Seq(RequestMsg) /\ inRep \in Seq(AnswerMsg)
  /\ outCohe \in Seq(CoheMsg) /\ outRep \in Seq(ReplyMsg)
  /\ ReadyReqs \in Seq(PlainRequest)
  /\ OutboundReqs \in Seq(CoheMsg \cup ReplyMsg)
  /\ \A l \in Lines : BufPend[l] \in Seq(PlainOf(l))
  /\ Kept
CacheShapes ==
  /\ coheIn \in [Nodes -> Seq(CoheMsg)] /\ atL1 \in [Nodes -> Seq(CoheMsg)]
  /\ replies \subseteq ReplyMsg /\ requests \subseteq RequestMsg
  /\ coheReps \subseteq AnswerMsg
Shapes == DirShapes /\ CacheShapes
-----------------------------------------------------------------------------
(***************************************************************************)
(* Messages and what becomes of them.                                      *)
(***************************************************************************)
(* A message of each shape is a message; what can be told apart by type.   *)
LEMMA ShapesAreMessages ==
  /\ PlainRequest \subseteq RequestMsg /\ RequestMsg \subseteq REQ
  /\ AnswerMsg \subseteq CoheRepMsg /\ CoheRepMsg \subseteq REQ
  /\ CoheMsg \subseteq REQ /\ ReplyMsg \subseteq REQ
  BY DEF PlainRequest, RequestMsg, AnswerMsg, CoheRepMsg, CoheMsg, ReplyMsg

(* DirSim and DirReqBounce answer a request: with a grant, whose type is   *)
(* written over that of the request, with itself, or with a RAR.           *)
LEMMA AnsweredRequest ==
  ASSUME NEW m \in RequestMsg, NEW t \in ReqTypes \cup DataTypes
  PROVE  /\ [m EXCEPT !.type = "REPLY", !.reply = "REPLY"] \in ReplyMsg
         /\ [m EXCEPT !.type = "REPLY", !.reply = "RAR"] \in ReplyMsg
         /\ [m EXCEPT !.req_type = t] \in RequestMsg
         /\ ~m.preprocessed => [m EXCEPT !.req_type = t] \in PlainRequest
  BY DEF RequestMsg, ReplyMsg, PlainRequest, REQ

(* A cache sends a reply back as a request: it retries or bounces it.      *)
LEMMA ReturnedReply ==
  ASSUME NEW m \in ReplyMsg
  PROVE  /\ [m EXCEPT !.type = "REQUEST", !.reply = "REPLY"] \in RequestMsg
         /\ m.reply = "REPLY" =>
              [m EXCEPT !.type = "REQUEST", !.preprocessed = TRUE] \in RequestMsg
  BY DEF RequestMsg, ReplyMsg, REQ

(* A cache answers a COHE; an acknowledgment or a refusal is the COHE.     *)
LEMMA AnsweredCohe ==
  ASSUME NEW m \in CoheMsg, NEW r \in {"REPLY", "NACK", "NACK_PEND"},
         r = "REPLY" => ~m.isreq, r = "NACK_PEND" => m.isreq
  PROVE  [m EXCEPT !.type = "COHE_REPLY", !.reply = r] \in AnswerMsg
<1>1. m \in REQ /\ m.req_type \in CoheTypes /\ m.req_type \notin WrbTypes /\ ~m.preprocessed
      /\ (m.isreq => m.req_type # "INVL") /\ (m.isreq <=> m.forward_to # NULL)
      /\ (m.isreq <=> m.nack_st = "NACK_NOK")
  BY DEF CoheMsg, CoheTypes, WrbTypes
<1> QED BY <1>1 DEF AnswerMsg, CoheRepMsg, REQ

(* A forwarded request that is served becomes a reply and an answer.       *)
LEMMA ForwardedRequest ==
  ASSUME NEW m \in CoheMsg, m.forward_to # NULL, NEW s
  PROVE  /\ [m EXCEPT !.type = "REPLY", !.reply = "REPLY", !.node = m.forward_to,
                      !.req_type = ForwardType(m.req_type, s),
                      !.forward_to = NULL, !.nack_st = "NACK_OK"] \in ReplyMsg
         /\ [m EXCEPT !.type = "COHE_REPLY", !.reply = "REPLY", !.isreq = FALSE]
              \in AnswerMsg
<1>1. m \in REQ /\ m.req_type \in CoheTypes /\ m.req_type \notin WrbTypes /\ ~m.preprocessed
      /\ m.req_type # "INVL" /\ m.isreq /\ m.forward_to \in Nodes
  BY DEF CoheMsg, CoheTypes, WrbTypes, REQ
<1>2. ForwardType(m.req_type, s) \in DataTypes
  BY DEF ForwardType, DataTypes
<1> QED BY <1>1, <1>2 DEF AnswerMsg, CoheRepMsg, ReplyMsg, REQ

(* A COHE that is refused: it is sent again, or the request in it comes    *)
(* out, as a RAR or as the REQUEST it was.                                 *)
LEMMA RefusedCohe ==
  ASSUME NEW m \in AnswerMsg, m.reply # "REPLY"
  PROVE  /\ m.reply = "NACK_PEND" => [m EXCEPT !.type = "COHE"] \in CoheMsg
         /\ m.isreq =>
              [m EXCEPT !.type = "REPLY", !.reply = "RAR",
                        !.req_type = FixForwardRARs(m.req_type),
                        !.nack_st = "NACK_OK",
                        !.node = m.forward_to, !.forward_to = NULL] \in ReplyMsg
         /\ m.forward_to # NULL =>
              [m EXCEPT !.type = "REQUEST", !.reply = "REPLY",
                        !.req_type = FixForwardRARs(m.req_type),
                        !.nack_st = "NACK_OK",
                        !.node = m.forward_to, !.forward_to = NULL] \in PlainRequest
<1>1. m \in REQ /\ m.req_type \in CoheTypes /\ m.reply # "RAR" /\ ~m.preprocessed
      /\ (m.isreq => m.req_type # "INVL" /\ m.nack_st = "NACK_NOK")
      /\ (m.isreq <=> m.forward_to # NULL) /\ (m.reply = "NACK_PEND" => m.isreq)
  BY DEF AnswerMsg, CoheRepMsg
<1>2. FixForwardRARs(m.req_type) \in ReqTypes
  BY DEF FixForwardRARs, ReqTypes
<1> QED BY <1>1, <1>2 DEF CoheMsg, ReplyMsg, PlainRequest, RequestMsg, REQ

(* A write-back is an answer that nobody asked for.                        *)
LEMMA WriteBackShape ==
  ASSUME NEW n \in Nodes, NEW l \in Lines, wrb_buf[n][l] \in WrbTypes
  PROVE  WriteBackOf(n, l) \in AnswerMsg
  BY DEF WriteBackOf, AnswerMsg, CoheRepMsg, REQ

(* The directory's own COHEs.                                              *)
LEMMA InvalidationShape ==
  ASSUME NEW l \in Lines, NEW n \in Nodes, extra[l] \in DirEP, extra[l].nack_st = "NACK_OK"
  PROVE  Invalidation(l, n) \in CoheMsg
  BY DEF Invalidation, CoheMsg, REQ, DirEP
-----------------------------------------------------------------------------
(***************************************************************************)
(* The directory's queues.                                                 *)
(***************************************************************************)
(* A request that is served is one; a revived one may be buffered again.   *)
(* It is taken off its queue, or left there as m.                          *)
LEMMA RequestShape ==
  ASSUME IInv, DirShapes, ServeReq
  PROVE  /\ Request \in RequestMsg /\ (wasPending => Request \in PlainRequest)
         /\ CommitReq => ReadyReqs' \in Seq(PlainRequest) /\ inReq' \in Seq(RequestMsg)
<1>1. ReadyReqs \in Seq(PlainRequest) /\ inReq \in Seq(RequestMsg)
  BY DEF DirShapes, Kept
<1>2. CASE sel = "READY"
  <2>1. ReadyReqs # <<>> /\ wasPending
    BY <1>2 DEF IInv, CtlInv, PickedThere, ServeReq, wasPending
  <2> QED BY <1>1, <2>1, SeqFacts, ShapesAreMessages DEF Request, CommitReq
<1>3. CASE sel = "REQ"
  <2>1. inReq # <<>> /\ ~wasPending
    BY <1>3 DEF IInv, CtlInv, PickedThere, ServeReq, wasPending
  <2> QED BY <1>1, <2>1, SeqFacts DEF Request, CommitReq
<1> QED BY <1>2, <1>3 DEF ServeReq

LEMMA LeaveShape ==
  ASSUME IInv, DirShapes, ServeReq, NEW m \in PlainRequest, LeaveReq(m)
  PROVE  ReadyReqs' \in Seq(PlainRequest) /\ inReq' \in Seq(RequestMsg)
<1>1. ReadyReqs \in Seq(PlainRequest) /\ inReq \in Seq(RequestMsg) /\ m \in RequestMsg
  BY ShapesAreMessages DEF DirShapes, Kept
<1>2. CASE sel = "READY"
  <2>1. ReadyReqs # <<>> /\ wasPending
    BY <1>2 DEF IInv, CtlInv, PickedThere, ServeReq, wasPending
  <2> QED BY <1>1, <2>1, SeqFacts DEF LeaveReq
<1>3. CASE sel = "REQ"
  <2>1. inReq # <<>> /\ ~wasPending
    BY <1>3 DEF IInv, CtlInv, PickedThere, ServeReq, wasPending
  <2> QED BY <1>1, <2>1, SeqFacts DEF LeaveReq
<1> QED BY <1>2, <1>3 DEF ServeReq

(* The answer that is served.                                              *)
LEMMA AnswerShape ==
  ASSUME IInv, DirShapes, ServeRep
  PROVE  /\ Answer \in AnswerMsg /\ Answer.tag \in Lines
         /\ CommitRep => inRep' \in Seq(AnswerMsg) /\ UNCHANGED inReq
<1>1. inRep \in Seq(AnswerMsg) /\ inRep # <<>>
  BY DEF DirShapes, Kept, IInv, CtlInv, PickedThere, ServeRep
<1>2. Answer \in AnswerMsg
  BY <1>1, SeqFacts DEF Answer
<1>3. Answer.tag \in Lines
  BY <1>2, ShapesAreMessages DEF REQ
<1> QED BY <1>1, <1>2, <1>3, SeqFacts DEF CommitRep

(* Output ports take COHEs and replies, each their own.                    *)
LEMMA AddReqShape ==
  ASSUME DirShapes, NEW m \in CoheMsg \cup ReplyMsg, AddReq(m)
  PROVE  outCohe' \in Seq(CoheMsg) /\ outRep' \in Seq(ReplyMsg)
<1>1. outCohe \in Seq(CoheMsg) /\ outRep \in Seq(ReplyMsg)
  BY DEF DirShapes, Kept
<1>2. CASE m.type = "COHE"
  <2>1. m \in CoheMsg
    BY <1>2 DEF ReplyMsg
  <2> QED BY <1>1, <1>2, <2>1, SeqFacts DEF AddReq
<1>3. CASE m.type # "COHE"
  <2>1. m \in ReplyMsg
    BY <1>3 DEF CoheMsg
  <2> QED BY <1>1, <1>3, <2>1, SeqFacts DEF AddReq
<1> QED BY <1>2, <1>3

(* What leaves or waits for room.                                          *)
LEMMA SendOrQueueShape ==
  ASSUME DirShapes, NEW m \in CoheMsg \cup ReplyMsg, SendOrQueue(m)
  PROVE  /\ outCohe' \in Seq(CoheMsg) /\ outRep' \in Seq(ReplyMsg)
         /\ OutboundReqs' \in Seq(CoheMsg \cup ReplyMsg)
<1>1. /\ outCohe \in Seq(CoheMsg) /\ outRep \in Seq(ReplyMsg)
      /\ OutboundReqs \in Seq(CoheMsg \cup ReplyMsg)
  BY DEF DirShapes, Kept
<1>2. CASE PortFull(m)
  BY <1>1, <1>2, SeqFacts DEF SendOrQueue, outVars
<1>3. CASE ~PortFull(m)
  BY <1>1, <1>3, AddReqShape DEF SendOrQueue
<1> QED BY <1>2, <1>3

(* DirCheckBuf revives requests.                                           *)
LEMMA CheckBufShape ==
  ASSUME IInv, DirShapes, NEW l \in Lines, NEW first \in Seq(PlainRequest),
         DirCheckBuf(l, first)
  PROVE  /\ ReadyReqs' \in Seq(PlainRequest)
         /\ \A k \in Lines : BufPend'[k] \in Seq(PlainOf(k))
<1>1. BufPend \in [Lines -> Seq(REQ)]
  BY DEF IInv, QueueInv, QueueTypeOK
<1>2. ReadyReqs \in Seq(PlainRequest) /\ BufPend[l] \in Seq(PlainOf(l))
  BY DEF DirShapes, Kept
<1>3. BufPend[l] \in Seq(PlainRequest)
  BY <1>2 DEF PlainOf
<1>4. ReadyReqs \o first \in Seq(PlainRequest)
  BY <1>2
<1>5. (ReadyReqs \o first) \o BufPend[l] \in Seq(PlainRequest)
  BY <1>3, <1>4
<1>6. ASSUME NEW k \in Lines PROVE BufPend'[k] \in Seq(PlainOf(k))
  <2>1. <<>> \in Seq(PlainOf(k)) /\ BufPend[k] \in Seq(PlainOf(k))
    BY DEF DirShapes, Kept
  <2> QED BY <1>1, <2>1 DEF DirCheckBuf
<1> QED BY <1>5, <1>6 DEF DirCheckBuf

(* The request that a transaction keeps has its shape as long as each new  *)
(* extra is of that shape.                                                 *)
LEMMA KeptIfNew ==
  ASSUME Kept, LineTypeOK, NEW l \in Lines, NEW e, e # NULL => PendReq(l, e),
         extra' = [extra EXCEPT ![l] = e]
  PROVE  Kept'
  BY DEF Kept, LineTypeOK
-----------------------------------------------------------------------------
(***************************************************************************)
(* Every case of DirSim keeps the shapes.                                  *)
(***************************************************************************)
(* What an activation looks at moves a message from OutboundReqs at most.  *)
LEMMA ShapesStart ==
  ASSUME IInv, DirShapes, DirStart PROVE DirShapes'
<1>1. CASE DirOutbound
  <2>1. OutboundReqs \in Seq(CoheMsg \cup ReplyMsg) /\ OutboundReqs # <<>>
    BY <1>1 DEF DirShapes, Kept, DirOutbound, OutboundDone
  <2> PICK m \in CoheMsg \cup ReplyMsg : m = Head(OutboundReqs)
    BY <2>1, SeqFacts
  <2>2. /\ Tail(OutboundReqs) \in Seq(CoheMsg \cup ReplyMsg)
        /\ Append(Tail(OutboundReqs), m) \in Seq(CoheMsg \cup ReplyMsg)
    BY <2>1
  <2>3. UNCHANGED <<lineVars, BufPend, ReadyReqs, inVars>>
    BY <1>1 DEF DirOutbound
  <2>4. CASE PortFull(m)
    BY <1>1, <2>2, <2>3, <2>4 DEF DirOutbound, DirShapes, Kept, lineVars, inVars, outVars
  <2>5. CASE ~PortFull(m)
    <3>1. OutboundReqs' = Tail(OutboundReqs) /\ AddReq(m)
      BY <1>1, <2>5 DEF DirOutbound
    <3> QED BY <2>2, <2>3, <3>1, AddReqShape DEF DirShapes, Kept, lineVars, inVars
  <2> QED BY <2>4, <2>5
<1>2. CASE DirActivate \/ DirPick \/ DirNextPort
  BY <1>2 DEF DirActivate, DirPick, DirNextPort, DirShapes, Kept, lineVars, inVars, outVars, queueVars
<1> QED BY <1>1, <1>2 DEF DirStart

(* An error changes no message.                                            *)
LEMMA ShapesError ==
  ASSUME DirShapes, NEW c, YS__errmsg(c) PROVE DirShapes'
  BY DEF YS__errmsg, DirShapes, Kept, lineVars, inVars, outVars, queueVars

(* A request is answered, buffered, or starts a transaction.               *)
LEMMA ShapesReq ==
  ASSUME IInv, DirShapes, DirReq PROVE DirShapes'
<1>1. CASE DirReqError
  BY <1>1, ShapesError DEF DirReqError
<1> SUFFICES ASSUME ServeReq, ~DirReqError PROVE DirShapes'
  BY <1>1 DEF DirReq, DirReqError, DirReqBounce, DirReqRAR, DirReqPend, DirReqGrant,
     DirReqWaitForWRB, DirReqInval, DirReqForward, ServeCohe, Decides
<1> PICK m \in RequestMsg : m = Request
  BY RequestShape
<1> PICK l \in Lines : l = m.tag
  BY ShapesAreMessages DEF REQ
<1>2. LineTypeOK /\ Kept
  BY DEF IInv, LineInv, DirShapes, Kept
<1>3. m.node \in Nodes /\ m \in REQ /\ m.req_type \in ReqTypes \cup DataTypes
  BY ShapesAreMessages DEF REQ, RequestMsg
<1>4. GrantType(m) \in DataTypes
  BY GrantTypeOK DEF DataTypes
<1>5. CASE DirReqBounce \/ DirReqRAR
  <2>1. UNCHANGED <<lineVars, BufPend, OutboundReqs, inRep>>
    BY <1>5 DEF DirReqBounce, DirReqRAR
  <2>2. CASE Full(outRep)
    BY <1>5, <2>1, <2>2 DEF DirReqBounce, DirReqRAR, DirShapes, Kept, lineVars, outVars
  <2>3. CASE ~Full(outRep)
    <3> PICK r \in ReplyMsg : CommitReq /\ AddReq(r)
      BY <1>3, <1>5, <2>3, AnsweredRequest DEF DirReqBounce, DirReqRAR
    <3> QED BY <2>1, RequestShape, AddReqShape DEF DirShapes, Kept, lineVars
  <2> QED BY <2>2, <2>3
<1>6. CASE DirReqPend
  <2>1. /\ CommitReq /\ BufPend' = [BufPend EXCEPT ![l] = Append(@, m)]
        /\ UNCHANGED <<lineVars, OutboundReqs, inRep, outVars>>
    BY <1>6 DEF DirReqPend
  <2>2. m \in PlainOf(l) /\ BufPend \in [Lines -> Seq(REQ)]
    BY <1>6 DEF DirReqPend, ServeCohe, PlainRequest, PlainOf, IInv, QueueInv, QueueTypeOK
  <2>3. \A k \in Lines : BufPend'[k] \in Seq(PlainOf(k))
    BY <2>1, <2>2, SeqFacts DEF DirShapes, Kept
  <2> QED BY <2>1, <2>3, RequestShape DEF DirShapes, Kept, lineVars, outVars
<1>7. CASE DirReqGrant
  <2> PICK g \in DataTypes : g = GrantType(m)
    BY <1>4
  <2> PICK r : r = [m EXCEPT !.req_type = g]
    OBVIOUS
  <2>1. r \in PlainRequest
    BY <1>7, AnsweredRequest DEF DirReqGrant, Decides, ServeCohe
  <2>2. /\ extra' = [extra EXCEPT ![l] = NULL]
        /\ UNCHANGED <<BufPend, OutboundReqs, inRep>>
    BY <1>7 DEF DirReqGrant
  <2>3. Kept'
    BY <1>2, <2>2, KeptIfNew
  <2>4. CASE Full(outRep)
    <3>1. LeaveReq(r) /\ UNCHANGED outVars
      BY <1>7, <2>4 DEF DirReqGrant
    <3> QED BY <2>1, <2>2, <2>3, <3>1, LeaveShape DEF DirShapes, outVars, Kept
  <2>5. CASE ~Full(outRep)
    <3>1. CommitReq /\ AddReq([r EXCEPT !.type = "REPLY", !.reply = "REPLY"])
      BY <1>7, <2>5 DEF DirReqGrant
    <3>2. [r EXCEPT !.type = "REPLY", !.reply = "REPLY"] \in ReplyMsg
      BY <2>1, AnsweredRequest, ShapesAreMessages
    <3> QED BY <2>2, <2>3, <3>1, <3>2, AddReqShape, RequestShape DEF DirShapes, Kept
  <2> QED BY <2>4, <2>5
<1>8. ASSUME DirReqWaitForWRB \/ DirReqInval \/ DirReqForward
      PROVE  \E e : PendReq(l, e) /\ extra' = [extra EXCEPT ![l] = e]
  <2>1. ~m.preprocessed /\ CoheReqType(m) \in ReqTypes
    BY <1>8, CoheReqTypeOK DEF DirReqWaitForWRB, DirReqInval, DirReqForward, Decides, ServeCohe
  <2>2. CASE DirReqWaitForWRB
    <3> PICK r \in PlainRequest : r = [m EXCEPT !.req_type = CoheReqType(m)]
      BY <2>1, AnsweredRequest
    <3> PICK e : e = [NewExtra(r, 1, {}) EXCEPT !.waiting = TRUE, !.WaitingFor = r.node]
      OBVIOUS
    <3>1. extra' = [extra EXCEPT ![l] = e]
      BY <1>3, <2>2 DEF DirReqWaitForWRB, REQ
    <3>2. e.pend_req = r /\ e.ret_st = "DIR_REPLY" /\ e.nack_st = "NACK_OK" /\ r.tag = l
      BY DEF NewExtra, RequestMsg, REQ
    <3>3. PendReq(l, e)
      <4>1. r \in PlainRequest
        OBVIOUS
      <4> QED BY ONLY <3>2, <4>1 DEF PendReq
    <3> QED BY <3>1, <3>3
  <2>3. CASE DirReqInval
    <3> PICK r \in PlainRequest : r = [m EXCEPT !.req_type = GrantType(m)]
      BY <1>4, <2>1, AnsweredRequest
    <3> PICK e : e = [NewExtra(r, Cardinality(Others(m)), Others(m)) EXCEPT
                        !.ret_st = IF CoheReqType(m) = "UPGRADE"
                                   THEN "DIR_REPLY" ELSE "SPECIAL_REPLY"]
      OBVIOUS
    <3>1. extra' = [extra EXCEPT ![l] = e]
      BY <2>3 DEF DirReqInval
    <3>2. e.pend_req = r /\ e.ret_st # "ACK_REPLY" /\ e.nack_st = "NACK_OK" /\ r.tag = l
      BY DEF NewExtra, RequestMsg, REQ
    <3>3. PendReq(l, e)
      <4>1. r \in PlainRequest
        OBVIOUS
      <4> QED BY ONLY <3>2, <4>1 DEF PendReq
    <3> QED BY <3>1, <3>3
  <2>4. CASE DirReqForward
    <3> PICK o : o = CHOOSE n \in vector[l] : TRUE
      OBVIOUS
    <3>1. o \in Nodes
      <4>1. dirst[l] = "DIR_PRIVATE"
        BY <2>4 DEF DirReqForward, Forwards
      <4> QED BY <4>1 DEF IInv, LineInv, VectorOK
    <3> PICK r : r = [m EXCEPT !.type = "COHE", !.req_type = CopybackType(m),
                               !.nack_st = "NACK_NOK", !.reply = "REPLY", !.node = o,
                               !.forward_to = m.node]
      OBVIOUS
    <3>2. r \in CoheMsg
      BY <1>3, <2>1, <3>1, NullAssumption
      DEF CoheMsg, RequestMsg, REQ, CopybackType, CoheTypes
    <3> PICK e : e = [NewExtra(r, 1, {o}) EXCEPT !.next_req_type = CopybackType(m),
                        !.nack_st = "NACK_NOK", !.ret_st = "ACK_REPLY"]
      OBVIOUS
    <3>3. extra' = [extra EXCEPT ![l] = e]
      BY <2>4 DEF DirReqForward
    <3>4. /\ e.pend_req = r /\ e.ret_st = "ACK_REPLY" /\ ~e.waiting
          /\ e.nack_st = "NACK_NOK" /\ r.tag = l
      BY DEF NewExtra, RequestMsg, REQ
    <3>5. PendReq(l, e)
      BY ONLY <3>2, <3>4 DEF PendReq
    <3> QED BY <3>3, <3>5
  <2> QED BY <1>8, <2>2, <2>3, <2>4
<1>9. CASE DirReqWaitForWRB \/ DirReqInval \/ DirReqForward
  <2>1. CommitReq /\ UNCHANGED <<BufPend, OutboundReqs, inRep, outVars>>
    BY <1>9 DEF DirReqWaitForWRB, DirReqInval, DirReqForward
  <2>2. Kept'
    BY <1>2, <1>8, <1>9, KeptIfNew
  <2> QED BY <2>1, <2>2, RequestShape DEF DirShapes, Kept, outVars
<1> QED BY <1>5, <1>6, <1>7, <1>9 DEF DirReq

(* The COHEs of a transaction leave.                                       *)
LEMMA ShapesSend ==
  ASSUME IInv, DirShapes, DirSend PROVE DirShapes'
<1>1. CASE DirSendCoheNull
  BY <1>1, ShapesError DEF DirSendCoheNull
<1> SUFFICES ASSUME DirSendForward \/ DirSendInval PROVE DirShapes'
  BY <1>1 DEF DirSend
<1> PICK l : l = req_partial
  OBVIOUS
<1>2. l \in Lines /\ extra[l] \in DirEP /\ extra[l] # NULL /\ PendReq(l, extra[l])
  <2>1. Sending
    BY DEF DirSendForward, DirSendInval
  <2>2. l \in Lines
    BY <2>1 DEF Sending, SendCohe, Offer, IInv, CtlInv, CtlTypeOK, PickedThere
  <2> QED BY <2>1, <2>2 DEF Sending, IInv, LineInv, LineTypeOK, DirShapes, Kept
<1>3. LineTypeOK /\ Kept
  BY DEF IInv, LineInv, DirShapes, Kept
<1>4. CASE DirSendForward
  <2>1. UNCHANGED <<lineVars, queueVars, inVars>>
    BY <1>4 DEF DirSendForward
  <2>2. CASE Full(outCohe)
    BY <1>4, <2>1, <2>2 DEF DirSendForward, DirShapes, Kept, lineVars, queueVars, inVars, outVars
  <2>3. CASE ~Full(outCohe)
    <3> PICK c : c = extra[l].pend_req
      OBVIOUS
    <3>1. AddReq(c) /\ c.type = "COHE"
      BY <1>4, <2>3 DEF DirSendForward
    <3>2. c \in CoheMsg
      BY <1>2, <3>1 DEF PendReq, PlainRequest, RequestMsg
    <3> QED BY <2>1, <3>1, <3>2, AddReqShape DEF DirShapes, Kept, lineVars, queueVars, inVars
  <2> QED BY <2>2, <2>3
<1>5. CASE DirSendInval
  <2>1. UNCHANGED <<queueVars, inVars>>
    BY <1>5 DEF DirSendInval
  <2>2. CASE Full(outCohe)
    BY <1>5, <2>1, <2>2 DEF DirSendInval, DirShapes, Kept, queueVars, inVars, outVars
  <2>3. CASE ~Full(outCohe)
    <3> PICK n \in extra[l].left : /\ AddReq(Invalidation(l, n))
                                   /\ extra' = [extra EXCEPT ![l].left = @ \ {n}]
      BY <1>5, <2>3 DEF DirSendInval
    <3>1. n \in Nodes
      BY <1>2 DEF DirEP
    <3>2. Invalidation(l, n) \in CoheMsg
      <4>1. extra[l].pend_req.type # "COHE"
        BY <1>5 DEF DirSendInval
      <4>2. extra[l].nack_st = "NACK_OK"
        BY <1>2, <4>1 DEF PendReq, CoheMsg, DirEP
      <4> QED BY <1>2, <3>1, <4>2, InvalidationShape
    <3> PICK e : e = [extra[l] EXCEPT !.left = @ \ {n}]
      OBVIOUS
    <3>3. PendReq(l, e) /\ extra' = [extra EXCEPT ![l] = e]
      BY <1>2 DEF PendReq, DirEP
    <3>4. Kept'
      BY <1>2, <1>3, <3>3, KeptIfNew
    <3> QED BY <2>1, <3>2, <3>4, AddReqShape DEF DirShapes, Kept, queueVars, inVars
  <2> QED BY <2>2, <2>3
<1> QED BY <1>4, <1>5

(* What an answer that raises no error says.                               *)
LEMMA AnswerSays ==
  ASSUME NEW m \in AnswerMsg, AnswerError(m) = "none"
  PROVE  /\ AnswerClass(m) = "RACE" => m.reply = "NACK" /\ m.isreq
         /\ AnswerClass(m) = "RETRY" => m.reply \in {"NACK", "NACK_PEND"} /\ m.forward_to # NULL
         /\ AnswerClass(m) = "RESEND" => m.reply = "NACK_PEND"
         /\ AnswerClass(m) = "ACK" => extra[m.tag] # NULL
  BY DEF AnswerError, AnswerClass

(* DIRCOHEREP.                                                             *)
LEMMA ShapesCoheRep ==
  ASSUME IInv, DirShapes, DirCoheRep PROVE DirShapes'
<1>1. CASE DirCoheRepError
  BY <1>1, ShapesError DEF DirCoheRepError
<1> SUFFICES ASSUME ~DirCoheRepError PROVE DirShapes'
  BY <1>1
<1>2. ServeRep /\ CommitRep /\ AnswerError(Answer) = "none"
  BY DEF DirCoheRep, DirNackRace, DirNackRetry, DirNackPendResend, DirAck, DirAckReply,
     DirAckForward, Answers
<1> PICK m \in AnswerMsg : m = Answer
  BY <1>2, AnswerShape
<1> PICK l \in Lines : l = m.tag
  BY <1>2, AnswerShape
<1>3. LineTypeOK /\ Kept /\ extra[l] \in DirEP \cup {NULL}
  BY DEF IInv, LineInv, LineTypeOK, DirShapes, Kept
<1>4. inRep' \in Seq(AnswerMsg) /\ inReq' = inReq
  BY <1>2, AnswerShape
<1>5. ASSUME Settle(l) PROVE Kept'
  BY <1>3, <1>5, KeptIfNew DEF Settle
<1>6. CASE DirNackRace
  <2>1. m.reply = "NACK" /\ m.isreq
    BY <1>2, <1>6, AnswerSays DEF DirNackRace, Answers
  <2>2. m.forward_to # NULL
    BY <2>1 DEF AnswerMsg
  <2> PICK r \in ReplyMsg :
        r = [m EXCEPT !.type = "REPLY", !.reply = "RAR",
                      !.req_type = FixForwardRARs(m.req_type), !.nack_st = "NACK_OK",
                      !.node = m.forward_to, !.forward_to = NULL]
    BY <2>1, RefusedCohe
  <2>3. Settle(l) /\ DirCheckBuf(l, <<>>) /\ SendOrQueue(r)
    BY <1>6, <2>2 DEF DirNackRace
  <2>4. <<>> \in Seq(PlainRequest)
    OBVIOUS
  <2> QED BY <1>4, <1>5, <2>3, <2>4, CheckBufShape, SendOrQueueShape DEF DirShapes, Kept
<1>7. CASE DirNackRetry
  <2>1. m.reply # "REPLY" /\ m.forward_to # NULL
    BY <1>2, <1>7, AnswerSays DEF DirNackRetry, Answers
  <2> PICK r \in PlainRequest :
        r = [m EXCEPT !.type = "REQUEST", !.reply = "REPLY",
                      !.req_type = FixForwardRARs(m.req_type), !.nack_st = "NACK_OK",
                      !.node = m.forward_to, !.forward_to = NULL]
    BY <2>1, RefusedCohe
  <2>2. Settle(l) /\ DirCheckBuf(l, <<r>>) /\ UNCHANGED <<OutboundReqs, outVars>>
    BY <1>7 DEF DirNackRetry
  <2>3. <<r>> \in Seq(PlainRequest)
    OBVIOUS
  <2> QED BY <1>4, <1>5, <2>2, <2>3, CheckBufShape DEF DirShapes, Kept, outVars
<1>8. CASE DirNackPendResend
  <2>1. m.reply = "NACK_PEND"
    BY <1>2, <1>8, AnswerSays DEF DirNackPendResend, Answers
  <2>2. [m EXCEPT !.type = "COHE"] \in CoheMsg
    BY <2>1, RefusedCohe
  <2>3. /\ SendOrQueue([m EXCEPT !.type = "COHE"])
        /\ UNCHANGED <<lineVars, BufPend, ReadyReqs>>
    BY <1>8 DEF DirNackPendResend
  <2> QED BY <1>4, <2>2, <2>3, SendOrQueueShape DEF DirShapes, Kept, lineVars
<1>9. CASE DirAck \/ DirAckReply \/ DirAckForward
  <2>1. extra[l] # NULL /\ extra[l] \in DirEP /\ PendReq(l, extra[l])
    BY <1>2, <1>3, <1>9, AnswerSays DEF DirAck, DirAckReply, DirAckForward, Answers, Kept
  <2>2. CASE DirAck
    <3> PICK e : e = [extra[l] EXCEPT !.counter = @ - 1]
      OBVIOUS
    <3>1. PendReq(l, e)
      BY <2>1 DEF PendReq, DirEP
    <3>2. extra' = [extra EXCEPT ![l] = e] /\ UNCHANGED <<queueVars, outVars>>
      BY <2>2 DEF DirAck
    <3>3. Kept'
      BY <1>3, <3>1, <3>2, KeptIfNew
    <3> QED BY <1>4, <3>2, <3>3 DEF DirShapes, Kept, queueVars, outVars
  <2>3. CASE DirAckReply
    <3> PICK p : p = extra[l].pend_req
      OBVIOUS
    <3>1. /\ extra[l].ret_st # "ACK_REPLY" /\ Settle(l) /\ DirCheckBuf(l, <<>>)
          /\ SendOrQueue([p EXCEPT !.type = "REPLY", !.reply = "REPLY"])
      BY <2>3 DEF DirAckReply
    <3>2. p \in PlainRequest /\ p.req_type \in ReqTypes \cup DataTypes
      BY <2>1, <3>1 DEF PendReq, PlainRequest, RequestMsg
    <3>3. [p EXCEPT !.type = "REPLY", !.reply = "REPLY"] \in ReplyMsg
      BY <3>2, AnsweredRequest, ShapesAreMessages
    <3>4. <<>> \in Seq(PlainRequest)
      OBVIOUS
    <3> QED BY <1>4, <1>5, <3>1, <3>3, <3>4, CheckBufShape, SendOrQueueShape
            DEF DirShapes, Kept
  <2>4. CASE DirAckForward
    <3>1. Settle(l) /\ DirCheckBuf(l, <<>>) /\ UNCHANGED <<OutboundReqs, outVars>>
      BY <2>4 DEF DirAckForward
    <3>2. <<>> \in Seq(PlainRequest)
      OBVIOUS
    <3> QED BY <1>4, <1>5, <3>1, <3>2, CheckBufShape DEF DirShapes, Kept, outVars
  <2> QED BY <1>9, <2>2, <2>3, <2>4
<1> QED BY <1>6, <1>7, <1>8, <1>9 DEF DirCoheRep

(* DIRWRB.                                                                 *)
LEMMA ShapesWrb ==
  ASSUME IInv, DirShapes, DirWrb PROVE DirShapes'
<1>1. CASE DirWrbError
  BY <1>1, ShapesError DEF DirWrbError
<1> SUFFICES ASSUME ~DirWrbError PROVE DirShapes'
  BY <1>1
<1>2. /\ ServeRep /\ CommitRep /\ UNCHANGED <<OutboundReqs, outVars>>
  BY DEF DirWrb, DirWrbRevive, DirWrbWasHere, DirWrbPlain, WriteBack
<1> PICK m \in AnswerMsg : m = Answer
  BY <1>2, AnswerShape
<1> PICK l \in Lines : l = m.tag
  BY <1>2, AnswerShape
<1>3. LineTypeOK /\ Kept /\ extra[l] \in DirEP \cup {NULL}
  BY DEF IInv, LineInv, LineTypeOK, DirShapes, Kept
<1>4. inRep' \in Seq(AnswerMsg) /\ inReq' = inReq
  BY <1>2, AnswerShape
<1>5. CASE DirWrbRevive
  <2> PICK p : p = extra[l].pend_req
    OBVIOUS
  <2>1. /\ extra[l] # NULL /\ extra[l].waiting /\ Settle(l)
        /\ DirCheckBuf(l, <<p>>)
    BY <1>5 DEF DirWrbRevive, Expected
  <2>2. p \in PlainRequest
    BY <1>3, <2>1 DEF Kept, PendReq
  <2>3. <<p>> \in Seq(PlainRequest)
    BY <2>2
  <2>4. Kept'
    BY <1>3, <2>1, KeptIfNew DEF Settle
  <2> QED BY <1>2, <1>4, <2>1, <2>3, <2>4, CheckBufShape DEF DirShapes, Kept, outVars
<1>6. CASE DirWrbWasHere
  <2> PICK e : e = [extra[l] EXCEPT !.WasHere = m.node]
    OBVIOUS
  <2>1. /\ extra[l] # NULL /\ extra' = [extra EXCEPT ![l] = e]
        /\ UNCHANGED <<BufPend, ReadyReqs>>
    BY <1>6 DEF DirWrbWasHere
  <2>2. PendReq(l, e)
    BY <1>3, <2>1 DEF Kept, PendReq, DirEP
  <2>3. Kept'
    BY <1>3, <2>1, <2>2, KeptIfNew
  <2> QED BY <1>2, <1>4, <2>1, <2>3 DEF DirShapes, Kept, outVars
<1>7. CASE DirWrbPlain
  <2>1. DirCheckBuf(l, <<>>) /\ UNCHANGED extra
    BY <1>7 DEF DirWrbPlain
  <2>2. <<>> \in Seq(PlainRequest)
    OBVIOUS
  <2> QED BY <1>2, <1>4, <2>1, <2>2, CheckBufShape DEF DirShapes, Kept, outVars
<1> QED BY <1>5, <1>6, <1>7 DEF DirWrb
-----------------------------------------------------------------------------
(***************************************************************************)
(* Every step of a cache keeps the shapes.                                 *)
(***************************************************************************)
(* An access sends the first request of a miss, if any message.            *)
LEMMA ShapesAccess ==
  ASSUME CacheShapes, NEW n \in Nodes, Access(n) PROVE CacheShapes'
<1>1. ASSUME NEW l \in Lines, NEW t \in PrcrTypes, L2Miss(n, l, t)
      PROVE  CacheShapes'
  <2> PICK r : r = NxtModReq(t, st[n][l])
    OBVIOUS
  <2>1. /\ r # "NONE" /\ requests' = requests \cup {Request0(n, l, r)}
        /\ UNCHANGED <<atL1, coheIn, replies, coheReps>>
    BY <1>1 DEF L2Miss
  <2>2. r \in ReqTypes
    BY <2>1 DEF NxtModReq, ReqTypes
  <2>3. Request0(n, l, r) \in RequestMsg
    BY <2>2 DEF Request0, RequestMsg, REQ
  <2> QED BY <2>1, <2>3 DEF CacheShapes
<1>2. ASSUME NEW l \in Lines, L2WriteHit(n, l) \/ L2WriteCoalesce(n, l)
      PROVE  CacheShapes'
  BY <1>2 DEF L2WriteHit, L2WriteCoalesce, CacheShapes, portVars
<1> QED BY <1>1, <1>2 DEF Access

(* A reply ends, or comes back as a request.                               *)
LEMMA ShapesReply ==
  ASSUME CacheShapes, NEW n \in Nodes, HandleReply(n) \/ HoldReply(n) PROVE CacheShapes'
<1>1. ASSUME NEW c, L2Errmsg(c) PROVE CacheShapes'
  BY <1>1 DEF L2Errmsg, cacheVars, portVars, CacheShapes
<1>2. ASSUME NEW m \in replies, L2Retry(m) \/ L2Bounce(m) PROVE CacheShapes'
  <2>1. m \in ReplyMsg
    BY DEF CacheShapes
  <2>2. CASE L2Retry(m) /\ mshrs[m.node][m.tag] # NULL
    BY <2>1, <2>2, ReturnedReply DEF L2Retry, CacheShapes, cacheVars
  <2>3. CASE L2Bounce(m)
    BY <2>1, <2>3, ReturnedReply DEF L2Bounce, CacheShapes, cacheVars
  <2> QED BY <1>1, <1>2, <2>2, <2>3 DEF L2Retry
<1>3. ASSUME NEW m \in replies, NEW h, L2Install(m, h) PROVE CacheShapes'
  <2>1. CASE ReplyError(m) # "none"
    BY <1>1, <1>3, <2>1 DEF L2Install
  <2>2. CASE ReplyError(m) = "none"
    BY <1>3, <2>2 DEF L2Install, CacheShapes
  <2> QED BY <2>1, <2>2
<1> QED BY <1>2, <1>3 DEF HandleReply, HoldReply, ReplyAt

(* A COHE goes up or is refused; the answer from above goes back, and with *)
(* it the forwarded request to who asked.                                  *)
LEMMA ShapesCohe ==
  ASSUME CacheShapes, NEW n \in Nodes, L2Cohe(n) \/ HandleCoheRep(n) PROVE CacheShapes'
<1>1. coheIn \in [Nodes -> Seq(CoheMsg)] /\ atL1 \in [Nodes -> Seq(CoheMsg)]
  BY DEF CacheShapes
<1>2. CASE L2Cohe(n)
  <2>1. coheIn[n] \in Seq(CoheMsg) /\ coheIn[n] # <<>> /\ atL1[n] \in Seq(CoheMsg)
    BY <1>1, <1>2 DEF L2Cohe
  <2> PICK m \in CoheMsg : m = Head(coheIn[n])
    BY <2>1, SeqFacts
  <2>2. Tail(coheIn[n]) \in Seq(CoheMsg) /\ Append(atL1[n], m) \in Seq(CoheMsg)
    BY <2>1, SeqFacts
  <2>3. Nack(m) \in AnswerMsg
    BY AnsweredCohe DEF Nack
  <2>4. coheIn' \in [Nodes -> Seq(CoheMsg)] /\ UNCHANGED <<replies, requests>>
    BY <1>1, <1>2, <2>2 DEF L2Cohe
  <2>5. CASE atL1' = [atL1 EXCEPT ![n] = Append(@, m)] /\ UNCHANGED coheReps
    BY <1>1, <2>2, <2>4, <2>5 DEF CacheShapes
  <2>6. CASE SendCoheRep(Nack(m)) /\ UNCHANGED atL1
    BY <2>3, <2>4, <2>6 DEF CacheShapes, SendCoheRep
  <2> QED BY <1>2, <2>5, <2>6 DEF L2Cohe
<1>3. CASE L2CoheError(n)
  BY <1>3 DEF L2CoheError, L2Errmsg, cacheVars, portVars, CacheShapes
<1>4. ASSUME NEW c, L1Answer(n, c)
      PROVE  /\ Head(atL1[n]) \in CoheMsg /\ CoheClass(n, Head(atL1[n])) = c
             /\ atL1' \in [Nodes -> Seq(CoheMsg)] /\ UNCHANGED <<coheIn, requests>>
  <2>1. atL1[n] \in Seq(CoheMsg) /\ atL1[n] # <<>>
    BY <1>1, <1>4 DEF L1Answer
  <2> QED BY <1>1, <1>4, <2>1, SeqFacts DEF L1Answer
<1> PICK m : m = Head(atL1[n])
  OBVIOUS
<1>5. CASE L2Forward(n)
  <2>1. m \in CoheMsg /\ m.forward_to # NULL
    BY <1>4, <1>5 DEF L2Forward, CoheClass
  <2> QED BY <1>4, <1>5, <2>1, ForwardedRequest DEF L2Forward, SendCoheRep, CacheShapes
<1>6. CASE L2NackPend(n) \/ L2Merge(n) \/ L2NackInvl(n) \/ L2NackMiss(n) \/ L2Ack(n)
  <2>1. m \in CoheMsg /\ UNCHANGED replies
    BY <1>4, <1>6 DEF L2NackPend, L2Merge, L2NackInvl, L2NackMiss, L2Ack
  <2>3. \E r \in {"REPLY", "NACK", "NACK_PEND"} :
          /\ SendCoheRep([m EXCEPT !.type = "COHE_REPLY", !.reply = r])
          /\ (r = "REPLY" => ~m.isreq) /\ (r = "NACK_PEND" => m.isreq)
    <3>1. CASE L2NackPend(n)
      <4>1. m.isreq
        BY <1>4, <2>1, <3>1 DEF L2NackPend, CoheClass, CoheMsg
      <4> QED BY <3>1, <4>1 DEF L2NackPend
    <3>2. CASE L2Merge(n) \/ L2Ack(n)
      <4>1. ~m.isreq
        BY <1>4, <2>1, <3>2 DEF L2Merge, L2Ack, CoheClass, CoheMsg
      <4> QED BY <3>2, <4>1 DEF L2Merge, L2Ack
    <3>3. CASE L2NackInvl(n) \/ L2NackMiss(n)
      BY <3>3 DEF L2NackInvl, L2NackMiss, Nack
    <3> QED BY <1>6, <3>1, <3>2, <3>3
  <2>2. atL1' \in [Nodes -> Seq(CoheMsg)] /\ UNCHANGED <<coheIn, requests>>
    BY <1>4, <1>6 DEF L2NackPend, L2Merge, L2NackInvl, L2NackMiss, L2Ack
  <2> QED BY <2>1, <2>2, <2>3, AnsweredCohe DEF SendCoheRep, CacheShapes
<1> QED BY <1>2, <1>3, <1>5, <1>6 DEF HandleCoheRep

(* Replacement sends write-backs.                                          *)
LEMMA ShapesCache ==
  ASSUME CacheShapes, L2Consistent, NEW n \in Nodes, L2Step(n) PROVE CacheShapes'
<1>1. ASSUME NEW l \in Lines, L2SendWRB(n, l) PROVE CacheShapes'
  <2>1. wrb_buf[n][l] \in {"INVL", "WRB", "REPL"}
    BY <1>1 DEF L2SendWRB, L2Consistent, L2TypeOK
  <2>2. coheReps' \subseteq AnswerMsg
    BY <1>1, <2>1, WriteBackShape DEF L2SendWRB, SendCoheRep, WrbTypes, CacheShapes
  <2> QED BY <1>1, <2>2 DEF L2SendWRB, CacheShapes
<1>2. ASSUME NEW l \in Lines, L2Evict(n, l) \/ L2RemoveMSHR(n, l) PROVE CacheShapes'
  BY <1>2 DEF L2Evict, L2RemoveMSHR, portVars, CacheShapes
<1> QED BY <1>1, <1>2, ShapesAccess, ShapesReply, ShapesCohe DEF L2Step
-----------------------------------------------------------------------------
(***************************************************************************)
(* The composition.  Each of its steps is one of the directory, one of a   *)
(* cache, or a delivery, which is a step of the environment of both.       *)
(***************************************************************************)
(* A request reaches the directory.                                        *)
LEMMA RequestDelivered ==
  ASSUME Shapes, NEW n \in Nodes, DeliverRequest(n)
  PROVE  Environment /\ L2Environment /\ UNCHANGED <<cacheVars, l2fatal>> /\ Shapes'
<1> PICK m \in requests : /\ ArriveReq(m) /\ requests' = requests \ {m}
                          /\ UNCHANGED <<cacheVars, coheIn, replies, coheReps, l2fatal>>
  BY DEF DeliverRequest
<1>1. m \in RequestMsg /\ inReq \in Seq(RequestMsg)
  BY DEF Shapes, CacheShapes, DirShapes, Kept
<1>2. inReq' \in Seq(RequestMsg) /\ UNCHANGED <<inRep, lineVars, queueVars, outVars>>
  BY <1>1, SeqFacts DEF ArriveReq, Arrival
<1>3. DirShapes'
  BY <1>2 DEF Shapes, DirShapes, Kept, lineVars, queueVars, outVars
<1>4. CacheShapes'
  BY DEF Shapes, CacheShapes, cacheVars
<1> QED BY <1>1, <1>3, <1>4 DEF Environment, L2Environment, Shapes

(* An answer or a write-back reaches the directory.                        *)
LEMMA CoheRepDelivered ==
  ASSUME Shapes, NEW n \in Nodes, DeliverCoheReply(n)
  PROVE  Environment /\ L2Environment /\ UNCHANGED <<cacheVars, l2fatal>> /\ Shapes'
<1> PICK m \in coheReps : /\ ArriveRep(m) /\ coheReps' = coheReps \ {m}
                          /\ UNCHANGED <<cacheVars, coheIn, replies, requests, l2fatal>>
  BY DEF DeliverCoheReply, DeliverCoheRep
<1>1. m \in AnswerMsg /\ inRep \in Seq(AnswerMsg)
  BY DEF Shapes, CacheShapes, DirShapes, Kept
<1>2. inRep' \in Seq(AnswerMsg) /\ UNCHANGED <<inReq, lineVars, queueVars, outVars>>
  BY <1>1, SeqFacts DEF ArriveRep, Arrival
<1>3. DirShapes'
  BY <1>2 DEF Shapes, DirShapes, Kept, lineVars, queueVars, outVars
<1>4. CacheShapes'
  BY DEF Shapes, CacheShapes, cacheVars
<1> QED BY <1>1, <1>3, <1>4, ShapesAreMessages DEF Environment, L2Environment, Shapes

(* A COHE or a REPLY reaches its cache.                                    *)
LEMMA SentDelivered ==
  ASSUME Shapes, DeliverCohe \/ DeliverReply
  PROVE  Environment /\ L2Environment /\ UNCHANGED <<cacheVars, l2fatal>> /\ Shapes'
<1>1. outCohe \in Seq(CoheMsg) /\ outRep \in Seq(ReplyMsg)
      /\ coheIn \in [Nodes -> Seq(CoheMsg)] /\ replies \subseteq ReplyMsg
  BY DEF Shapes, DirShapes, Kept, CacheShapes
<1>2. CASE DeliverCohe
  <2>1. outCohe # <<>> /\ outCohe' = Tail(outCohe) /\ outRep' = outRep
        /\ UNCHANGED <<lineVars, queueVars, inVars>>
    BY <1>2 DEF DeliverCohe, TakeCohe, Removal
  <2> PICK m \in CoheMsg : m = Head(outCohe)
    BY <1>1, <2>1, SeqFacts
  <2>2. CoheArrives(m) /\ UNCHANGED <<cacheVars, l2fatal>>
    BY <1>2 DEF DeliverCohe
  <2>3. m \in REQ /\ m.node \in Nodes
    BY ShapesAreMessages DEF REQ
  <2>4. coheIn' \in [Nodes -> Seq(CoheMsg)]
    BY <1>1, <2>2, <2>3, SeqFacts DEF CoheArrives
  <2>5. DirShapes'
    BY <1>1, <2>1, SeqFacts DEF Shapes, DirShapes, Kept, lineVars, queueVars, inVars
  <2>6. CacheShapes'
    BY <2>2, <2>4 DEF Shapes, CacheShapes, CoheArrives, cacheVars
  <2> QED BY <1>2, <2>2, <2>3, <2>5, <2>6 DEF Environment, DeliverCohe, L2Environment, Shapes
<1>3. CASE DeliverReply
  <2>1. outRep # <<>> /\ outRep' = Tail(outRep) /\ outCohe' = outCohe
        /\ UNCHANGED <<lineVars, queueVars, inVars>>
    BY <1>3 DEF DeliverReply, TakeRep, Removal
  <2> PICK m \in ReplyMsg : m = Head(outRep)
    BY <1>1, <2>1, SeqFacts
  <2>2. ReplyArrives(m) /\ UNCHANGED <<cacheVars, l2fatal>>
    BY <1>3 DEF DeliverReply
  <2>3. m \in REQ
    BY ShapesAreMessages
  <2>4. DirShapes'
    BY <1>1, <2>1, SeqFacts DEF Shapes, DirShapes, Kept, lineVars, queueVars, inVars
  <2>5. CacheShapes'
    BY <2>2 DEF Shapes, CacheShapes, ReplyArrives, cacheVars
  <2> QED BY <1>3, <2>2, <2>3, <2>4, <2>5 DEF Environment, DeliverReply, L2Environment, Shapes
<1> QED BY <1>2, <1>3

(* The invariant of the composition.                                       *)
ProtocolInv == IInv /\ L2Consistent /\ Shapes

(* A step of the composition, seen by the directory and by the caches.     *)
LEMMA StepOfBoth ==
  ASSUME ProtocolInv, [Next]_vars
  PROVE  [DirNext]_dirVars /\ [L2Next]_l2Vars /\ Shapes'
<1>1. IInv /\ L2Consistent /\ DirShapes /\ CacheShapes /\ Shapes
  BY DEF ProtocolInv, Shapes
<1>2. ASSUME UNCHANGED dirVars PROVE DirShapes'
  BY <1>1, <1>2 DEF dirVars, lineVars, queueVars, inVars, outVars, DirShapes, Kept
<1>3. ASSUME UNCHANGED l2Vars PROVE CacheShapes'
  BY <1>1, <1>3 DEF l2Vars, cacheVars, portVars, CacheShapes
<1>4. CASE UNCHANGED vars
  BY <1>2, <1>3, <1>4 DEF vars, Shapes
<1>5. CASE DirectoryStep
  <2>1. DirShapes'
    BY <1>1, <1>5, ShapesStart, ShapesReq, ShapesSend, ShapesCoheRep, ShapesWrb
    DEF DirectoryStep, DirStep
  <2> QED BY <1>3, <1>5, <2>1 DEF DirectoryStep, DirNext, Shapes
<1>6. CASE Network
  BY <1>1, <1>6, RequestDelivered, CoheRepDelivered, SentDelivered
  DEF Network, DirNext, L2Next
<1>7. ASSUME NEW n \in Nodes, ByCache(L2Step(n))
      PROVE  [DirNext]_dirVars /\ [L2Next]_l2Vars /\ Shapes'
  BY <1>1, <1>2, <1>7, ShapesCache DEF ByCache, L2Next, Shapes
<1> QED BY <1>4, <1>5, <1>6, <1>7 DEF Next

(* The invariant of directory and caches at the start and in each step.    *)
LEMMA ProtocolInit == ASSUME Init PROVE ProtocolInv
<1>1. IInv /\ L2Consistent
  BY InitInv, L2InitConsistent DEF Init
<1>2. <<>> \in Seq(RequestMsg) /\ <<>> \in Seq(AnswerMsg) /\ <<>> \in Seq(CoheMsg)
      /\ <<>> \in Seq(ReplyMsg) /\ <<>> \in Seq(PlainRequest)
      /\ <<>> \in Seq(CoheMsg \cup ReplyMsg)
  OBVIOUS
<1>3. DirShapes
  BY <1>2 DEF Init, DirInit, FreshLines, DirShapes, Kept
<1>4. CacheShapes
  BY <1>2 DEF Init, L2Init, CacheShapes
<1> QED BY <1>1, <1>3, <1>4 DEF ProtocolInv, Shapes

LEMMA ProtocolStep == ASSUME ProtocolInv, [Next]_vars PROVE ProtocolInv'
<1>1. IInv /\ L2Consistent
  BY DEF ProtocolInv
<1>2. [DirNext]_dirVars /\ [L2Next]_l2Vars /\ Shapes'
  BY StepOfBoth
<1>3. IInv'
  BY <1>1, <1>2, InvariantStep
<1>4. L2Consistent'
  BY <1>1, <1>2, ConsistentStep
<1> QED BY <1>2, <1>3, <1>4 DEF ProtocolInv

(* Whatever is sent has a shape its receiver knows.                        *)
THEOREM ShapesKept == Spec => []ProtocolInv
<1>1. Init => ProtocolInv
  BY ProtocolInit
<1>2. ProtocolInv /\ [Next]_vars => ProtocolInv'
  BY ProtocolStep
<1> QED BY <1>1, <1>2, PTL DEF Spec

(* The directory in the protocol is the directory of module Directory: the *)
(* caches and the networks send it nothing that Environment excludes.      *)
THEOREM DirectoryInProtocol == Spec => DirSpec
<1>1. ProtocolInv /\ [Next]_vars => [DirNext]_dirVars
  BY StepOfBoth
<1>2. Init => DirInit
  BY DEF Init
<1> QED BY ShapesKept, <1>1, <1>2, PTL DEF Spec, DirSpec

(* The caches in the protocol are those of module L2Cache.                 *)
THEOREM CachesInProtocol == Spec => L2Spec
<1>1. ProtocolInv /\ [Next]_vars => [L2Next]_l2Vars
  BY StepOfBoth
<1>2. Init => L2Init
  BY DEF Init
<1> QED BY ShapesKept, <1>1, <1>2, PTL DEF Spec, L2Spec

(* So what each promises holds in the protocol: the directory's books      *)
(* balance, and each cache's tags, MSHRs, write-back buffer and COHEs fit  *)
(* together.                                                               *)
THEOREM PartsInProtocol == Spec => [](Accounts /\ VectorOK /\ NoStranded /\ L2Consistent)
  BY DirectoryInProtocol, CachesInProtocol, BooksBalance, SharersKnown, NobodyStranded,
     CachesConsistent, PTL
=============================================================================
