-------------------------- MODULE DirectoryProofs --------------------------
(***************************************************************************)
(* What the home directory guarantees for any number of nodes, lines and   *)
(* buffers, whatever requests, answers and write-backs reach it and        *)
(* however slowly its output ports are emptied.  The inductive invariant   *)
(* IInv is the properties themselves and the types of the variables; it    *)
(* is shown part by part, each part with one step per case of DirSim.      *)
(***************************************************************************)
EXTENDS Directory, FiniteSetTheorems, TLAPS

(* IInv, in parts that different variables make up.  The parts need each   *)
(* other: that a forwarded COHE has an owner to go to rests on VectorOK,   *)
(* that a counter stays a natural number on CounterOK, and that a request  *)
(* is there when it is served on PickedThere.                              *)
LineInv  == LineTypeOK /\ PendIffExtra /\ VectorOK /\ CounterOK
QueueInv == QueueTypeOK /\ NoStranded
CountInv == CountTypeOK /\ BufBound
CtlInv   == CtlTypeOK /\ PickedThere
IInv     == LineInv /\ QueueInv /\ CountInv /\ CtlInv /\ PortTypeOK

(* Heads, tails and extensions of a sequence over S are over S.            *)
LEMMA SeqFacts ==
  ASSUME NEW S, NEW q \in Seq(S), NEW x \in S
  PROVE  /\ Append(q, x) \in Seq(S) /\ <<x>> \in Seq(S)
         /\ q # <<>> => Head(q) \in S /\ Tail(q) \in Seq(S)
                        /\ <<x>> \o Tail(q) \in Seq(S)
         /\ \A r \in Seq(S) : q \o r \in Seq(S)
  OBVIOUS

(* The empty queue is a queue of messages.                                 *)
LEMMA EmptySeq == <<>> \in Seq(REQ)
  OBVIOUS

(* NewDir establishes the invariant.                                       *)
LEMMA InitInv == DirInit => IInv
<1> SUFFICES ASSUME DirInit PROVE IInv OBVIOUS
<1>1. LineInv
  BY DEF DirInit, FreshLines, LineInv, LineTypeOK, PendIffExtra, VectorOK, CounterOK
<1>2. QueueInv
  BY EmptySeq DEF DirInit, FreshLines, QueueInv, QueueTypeOK, NoStranded
<1>3. CountInv
  BY SizeAssumption DEF DirInit, CountInv, CountTypeOK, BufBound
<1>4. CtlInv
  BY DEF DirInit, CtlInv, CtlTypeOK, PickedThere, FatalCodes
<1>5. PortTypeOK
  BY EmptySeq DEF DirInit, PortTypeOK
<1> QED BY <1>1, <1>2, <1>3, <1>4, <1>5 DEF IInv

(* The request that DIRREQ serves is a message.                            *)
LEMMA RequestType == IInv /\ ServeReq => Request \in REQ
  BY SeqFacts DEF IInv, QueueInv, QueueTypeOK, CtlInv, CtlTypeOK, PickedThere,
                  PortTypeOK, ServeReq, Request, wasPending

(* The answer that DIRCOHEREP or DIRWRB serves is a message.               *)
LEMMA AnswerType == IInv /\ ServeRep => Answer \in REQ
  BY SeqFacts DEF IInv, CtlInv, CtlTypeOK, PickedThere, PortTypeOK, ServeRep, Answer

(* The types of a granted reply.                                           *)
LEMMA GrantTypeOK == ASSUME NEW m PROVE GrantType(m) \in {"REPLY_EXCL", "REPLY_SH", "REPLY_UPGRADE"}
  BY DEF GrantType

(* Dir_Cohe decides only on the three types of request.                    *)
LEMMA CoheReqTypeOK ==
  ASSUME Decides(Request) PROVE CoheReqType(Request) \in ReqTypes
  BY DEF Decides, ReqError, ServeCohe, CoheReqType, ReqTypes

(* The extra of a new transaction has its type.                            *)
LEMMA ExtraType ==
  ASSUME NEW m \in REQ, NEW c \in Nat, NEW t \in SUBSET Nodes
  PROVE  NewExtra(m, c, t) \in DirEP
  BY DEF NewExtra, DirEP, CoheTypes

(* The conjuncts of LineInv for one line.                                  *)
LineOK(l) ==
  /\ pend[l] <=> extra[l] # NULL
  /\ dirst[l] = "UNCACHED" => vector[l] = {}
  /\ dirst[l] = "DIR_SHARED" => vector[l] # {}
  /\ dirst[l] = "DIR_PRIVATE" => \E n \in Nodes : vector[l] = {n}
  /\ extra[l] # NULL => /\ extra[l].counter >= 1
                        /\ extra[l].waiting => extra[l].counter = 1

(* LineInv, line by line.                                                  *)
LEMMA LineInvDef == LineInv <=> LineTypeOK /\ \A l \in Lines : LineOK(l)
  BY DEF LineInv, LineOK, PendIffExtra, VectorOK, CounterOK

(* A step that changes one line only keeps LineInv if it keeps it there.   *)
LEMMA OneLine ==
  ASSUME LineInv, NEW l \in Lines, LineTypeOK', LineOK(l)',
         \A k \in Lines \ {l} : /\ dirst'[k] = dirst[k] /\ vector'[k] = vector[k]
                                /\ pend'[k] = pend[k] /\ extra'[k] = extra[k]
  PROVE  LineInv'
<1>1. ASSUME NEW k \in Lines \ {l} PROVE LineOK(k)'
  BY LineInvDef DEF LineOK
<1> QED BY <1>1 DEF LineInv, LineOK, PendIffExtra, VectorOK, CounterOK

(* VISIT_MEM and DIR_REPLY keep state and sharers of a line in step.       *)
LEMMA LineGrant ==
  ASSUME IInv, DirReqGrant PROVE LineInv'
<1> PICK m \in REQ : m = Request
  BY RequestType DEF DirReqGrant, Decides, ServeCohe
<1> PICK l \in Lines : l = m.tag
  BY DEF REQ
<1>1. m.node \in Nodes /\ ~pend[l] /\ LineOK(l) /\ LineTypeOK
  BY LineInvDef DEF REQ, DirReqGrant, Decides, IInv
<1>2. CoheReqType(m) \in ReqTypes
  BY CoheReqTypeOK DEF DirReqGrant
<1>3. /\ dirst' = [dirst EXCEPT ![l] = IF GrantType(m) = "REPLY_SH"
                                       THEN "DIR_SHARED" ELSE "DIR_PRIVATE"]
      /\ vector' = [vector EXCEPT ![l] = IF CoheReqType(m) = "READ_SH"
                                         THEN @ \cup {m.node} ELSE {m.node}]
      /\ extra' = [extra EXCEPT ![l] = NULL] /\ pend' = pend
  BY <1>1 DEF DirReqGrant, REQ, LineTypeOK, DirAdd_FM, DirRmAllAdd_FM
<1>4. LineTypeOK'
  BY <1>1, <1>3 DEF LineTypeOK
<1>5. CASE CoheReqType(m) = "READ_SH"
  <2>1. GrantType(m) \in {"REPLY_EXCL", "REPLY_SH"}
    BY <1>5 DEF GrantType
  <2>2. GrantType(m) = "REPLY_EXCL" => vector[l] \cup {m.node} = {m.node}
    BY <1>1, <1>5 DEF GrantType, LineOK
  <2>3. LineOK(l)'
    BY <1>1, <1>3, <1>5, <2>1, <2>2 DEF LineOK, LineTypeOK
  <2> QED BY <1>1, <1>3, <1>4, <2>3, OneLine DEF IInv, LineTypeOK
<1>6. CASE CoheReqType(m) # "READ_SH"
  <2>1. GrantType(m) # "REPLY_SH"
    BY <1>6 DEF GrantType
  <2>2. LineOK(l)'
    BY <1>1, <1>3, <1>6, <2>1 DEF LineOK, LineTypeOK
  <2> QED BY <1>1, <1>3, <1>4, <2>2, OneLine DEF IInv, LineTypeOK
<1> QED BY <1>5, <1>6

(* WAITFORWRB books a transaction that waits for one write-back.           *)
LEMMA LineWaitForWRB ==
  ASSUME IInv, DirReqWaitForWRB PROVE LineInv'
<1> PICK m \in REQ : m = Request
  BY RequestType DEF DirReqWaitForWRB, Decides, ServeCohe
<1> PICK l \in Lines : l = m.tag
  BY DEF REQ
<1> DEFINE r == [m EXCEPT !.req_type = CoheReqType(m)]
           e == [NewExtra(r, 1, {}) EXCEPT !.waiting = TRUE, !.WaitingFor = r.node]
<1>1. LineTypeOK
  BY LineInvDef DEF IInv
<1>2. CoheReqType(m) \in ReqTypes /\ r \in REQ
  BY CoheReqTypeOK DEF DirReqWaitForWRB, REQ
<1>3. e \in DirEP /\ e.counter = 1
  BY <1>2 DEF NewExtra, DirEP, CoheTypes, REQ
<1>4. /\ UNCHANGED <<dirst, vector>>
      /\ pend' = [pend EXCEPT ![l] = TRUE] /\ extra' = [extra EXCEPT ![l] = e]
  BY DEF DirReqWaitForWRB, REQ
<1> HIDE DEF e
<1>5. LineTypeOK'
  BY <1>1, <1>3, <1>4 DEF LineTypeOK
<1>6. LineOK(l)'
  BY <1>1, <1>3, <1>4, LineInvDef, ExtraAssumption DEF LineOK, LineTypeOK, IInv
<1> QED BY <1>1, <1>4, <1>5, <1>6, OneLine DEF IInv, LineTypeOK

(* WAIT_CNT books as many answers as there are other sharers, one or more. *)
LEMMA LineInval ==
  ASSUME IInv, DirReqInval PROVE LineInv'
<1> PICK m \in REQ : m = Request
  BY RequestType DEF DirReqInval, Decides, ServeCohe
<1> PICK l \in Lines : l = m.tag
  BY DEF REQ
<1> DEFINE r == [m EXCEPT !.req_type = GrantType(m)]
           e == [NewExtra(r, Cardinality(Others(m)), Others(m)) EXCEPT
                   !.ret_st = IF CoheReqType(m) = "UPGRADE"
                              THEN "DIR_REPLY" ELSE "SPECIAL_REPLY"]
<1>1. LineTypeOK /\ m.node \in Nodes
  BY LineInvDef DEF IInv, REQ
<1>2. r \in REQ
  BY GrantTypeOK DEF REQ, DataTypes
<1>3. Others(m) \in SUBSET Nodes /\ Others(m) # {}
  BY <1>1 DEF Others, LineTypeOK, DirReqInval, Invalidates
<1>4. Cardinality(Others(m)) \in Nat /\ Cardinality(Others(m)) >= 1
  <2>1. IsFiniteSet(Others(m)) /\ Cardinality(Others(m)) \in Nat
    BY <1>3, NodesAssumption, FS_Subset, FS_CardinalityType
  <2>2. Cardinality(Others(m)) # 0
    BY <1>3, <2>1, FS_EmptySet
  <2> QED BY <2>1, <2>2
<1>5. e \in DirEP /\ e.counter >= 1 /\ ~e.waiting
  BY <1>2, <1>3, <1>4 DEF NewExtra, DirEP, CoheTypes
<1>6. /\ dirst' = [dirst EXCEPT ![l] = "DIR_PRIVATE"]
      /\ vector' = [vector EXCEPT ![l] = {m.node}]
      /\ pend' = [pend EXCEPT ![l] = TRUE] /\ extra' = [extra EXCEPT ![l] = e]
  BY DEF DirReqInval, DirRmAllAdd_FM
<1> HIDE DEF e
<1>7. LineTypeOK'
  BY <1>1, <1>5, <1>6 DEF LineTypeOK
<1>8. LineOK(l)'
  BY <1>1, <1>5, <1>6, ExtraAssumption DEF LineOK, LineTypeOK
<1> QED BY <1>1, <1>6, <1>7, <1>8, OneLine DEF IInv, LineTypeOK

(* FORWARD_REQUEST finds the owner and books one answer.                   *)
LEMMA LineForward ==
  ASSUME IInv, DirReqForward PROVE LineInv'
<1> PICK m \in REQ : m = Request
  BY RequestType DEF DirReqForward, Decides, ServeCohe
<1> PICK l \in Lines : l = m.tag
  BY DEF REQ
<1> DEFINE owner == CHOOSE n \in vector[l] : TRUE
           c == CopybackType(m)
           r == [m EXCEPT !.type = "COHE", !.req_type = c, !.nack_st = "NACK_NOK",
                          !.reply = "REPLY", !.node = owner, !.forward_to = m.node]
           e == [NewExtra(r, 1, {owner}) EXCEPT
                   !.next_req_type = c, !.nack_st = "NACK_NOK", !.ret_st = "ACK_REPLY"]
<1>1. LineTypeOK /\ LineOK(l) /\ m.node \in Nodes /\ dirst[l] = "DIR_PRIVATE"
  BY LineInvDef DEF IInv, REQ, DirReqForward, Forwards
<1>2. owner \in Nodes
  BY <1>1 DEF LineOK
<1>3. r \in REQ
  BY <1>1, <1>2 DEF REQ, CoheTypes, CopybackType
<1>4. e \in DirEP /\ e.counter = 1
  BY <1>2, <1>3 DEF NewExtra, DirEP, CoheTypes, CopybackType
<1>5. /\ dirst' = [dirst EXCEPT ![l] = IF c = "COPYBACK"
                                       THEN "DIR_SHARED" ELSE "DIR_PRIVATE"]
      /\ vector' = [vector EXCEPT ![l] = IF c = "COPYBACK"
                                         THEN @ \cup {m.node} ELSE {m.node}]
      /\ pend' = [pend EXCEPT ![l] = TRUE] /\ extra' = [extra EXCEPT ![l] = e]
  BY <1>1 DEF DirReqForward, LineTypeOK, DirAdd_FM, DirRmAllAdd_FM
<1> HIDE DEF e, c, owner
<1>6. LineTypeOK'
  BY <1>1, <1>4, <1>5 DEF LineTypeOK
<1>7. LineOK(l)'
  BY <1>1, <1>4, <1>5, ExtraAssumption DEF LineOK, LineTypeOK
<1> QED BY <1>1, <1>5, <1>6, <1>7, OneLine DEF IInv, LineTypeOK

(* Sending a COHE changes only what is left to be sent.                    *)
LEMMA LineSendInval ==
  ASSUME IInv, DirSendInval PROVE LineInv'
<1>1. CASE UNCHANGED lineVars
  BY <1>1 DEF IInv, LineInv, lineVars, LineTypeOK, PendIffExtra, VectorOK, CounterOK
<1>2. CASE ~UNCHANGED lineVars
  <2> PICK l \in Lines : l = req_partial
    BY DEF DirSendInval, Sending, SendCohe, Offer, IInv, CtlInv, CtlTypeOK, PickedThere
  <2>1. LineTypeOK /\ LineOK(l) /\ extra[l] # NULL
    BY LineInvDef DEF IInv, DirSendInval, Sending
  <2>2. PICK n : extra' = [extra EXCEPT ![l].left = @ \ {n}]
    BY <1>2 DEF DirSendInval, lineVars
  <2>3. PICK e \in DirEP : e = extra[l]
    BY <2>1 DEF LineTypeOK
  <2> DEFINE f == [e EXCEPT !.left = @ \ {n}]
  <2>4. f \in DirEP /\ f.counter = e.counter /\ f.waiting = e.waiting
    BY DEF DirEP
  <2>5. UNCHANGED <<dirst, vector, pend>> /\ extra' = [extra EXCEPT ![l] = f]
    BY <2>2, <2>3 DEF DirSendInval
  <2> HIDE DEF f
  <2>6. LineTypeOK'
    BY <2>1, <2>4, <2>5 DEF LineTypeOK
  <2>7. LineOK(l)'
    BY <2>1, <2>3, <2>4, <2>5, ExtraAssumption DEF LineOK, LineTypeOK
  <2> QED BY <2>1, <2>5, <2>6, <2>7, OneLine DEF IInv, LineTypeOK
<1> QED BY <1>1, <1>2

(* Every answer is for a line with a transaction in flight.                *)
LEMMA AnswerLine ==
  ASSUME IInv, NEW class, Answers(class)
  PROVE  \E m \in REQ, l \in Lines :
           /\ m = Answer /\ l = m.tag /\ m.node \in Nodes
           /\ LineTypeOK /\ LineOK(l) /\ extra[l] # NULL /\ extra[l] \in DirEP
<1> PICK m \in REQ : m = Answer
  BY AnswerType DEF Answers
<1> PICK l \in Lines : l = m.tag
  BY DEF REQ
<1>1. extra[l] # NULL
  BY DEF Answers, AnswerError
<1>2. LineTypeOK /\ LineOK(l) /\ m.node \in Nodes
  BY LineInvDef DEF IInv, REQ
<1> QED BY <1>1, <1>2 DEF LineTypeOK

(* The transaction of a line ends; its state stays.                        *)
LEMMA LineSettle ==
  ASSUME IInv, NEW l \in Lines, Settle(l), UNCHANGED <<dirst, vector>>
  PROVE  LineInv'
<1>1. LineTypeOK /\ LineOK(l)
  BY LineInvDef DEF IInv
<1>2. LineTypeOK' /\ LineOK(l)'
  BY <1>1 DEF LineTypeOK, LineOK, Settle
<1> QED BY <1>1, <1>2, OneLine DEF IInv, LineTypeOK, Settle

(* A class 2 RAR ends the transaction and gives the line back to its       *)
(* owner.                                                                  *)
LEMMA LineRace ==
  ASSUME IInv, DirNackRace PROVE LineInv'
<1> PICK m \in REQ, l \in Lines :
           /\ m = Answer /\ l = m.tag /\ m.node \in Nodes /\ LineTypeOK
  BY AnswerLine DEF DirNackRace
<1>1. /\ dirst' = [dirst EXCEPT ![l] = "DIR_PRIVATE"]
      /\ vector' = [vector EXCEPT ![l] = {m.node}] /\ Settle(l)
  BY DEF DirNackRace, DirRmAllAdd_FM
<1>2. LineTypeOK' /\ LineOK(l)'
  BY <1>1 DEF LineTypeOK, LineOK, Settle
<1> QED BY <1>1, <1>2, OneLine DEF IInv, LineTypeOK, Settle

(* An acknowledgment that is not the last leaves one answer to wait for.   *)
LEMMA LineAck ==
  ASSUME IInv, DirAck PROVE LineInv'
<1> PICK m \in REQ, l \in Lines :
           /\ m = Answer /\ l = m.tag /\ LineTypeOK /\ LineOK(l)
           /\ extra[l] # NULL /\ extra[l] \in DirEP
  BY AnswerLine DEF DirAck
<1> PICK e \in DirEP : e = extra[l]
  OBVIOUS
<1> DEFINE f == [e EXCEPT !.counter = @ - 1]
<1>1. e.counter \in Nat /\ e.counter > 1 /\ ~e.waiting
  BY DEF DirAck, DirEP, LineOK
<1>2. f \in DirEP /\ f.counter = e.counter - 1 /\ ~f.waiting
  BY <1>1 DEF DirEP
<1>3. UNCHANGED <<dirst, vector, pend>> /\ extra' = [extra EXCEPT ![l] = f]
  BY DEF DirAck
<1> HIDE DEF f
<1>4. LineTypeOK'
  BY <1>2, <1>3 DEF LineTypeOK
<1>5. LineOK(l)'
  BY <1>1, <1>2, <1>3, ExtraAssumption DEF LineOK, LineTypeOK
<1> QED BY <1>3, <1>4, <1>5, OneLine DEF IInv, LineTypeOK

(* No answer of a cache breaks the state of a line.                        *)
LEMMA LineAnswers ==
  ASSUME IInv, DirCoheRep PROVE LineInv'
<1>1. CASE DirNackRace
  BY <1>1, LineRace
<1>2. CASE DirAck
  BY <1>2, LineAck
<1>3. CASE DirNackRetry
  BY <1>3, AnswerLine, LineSettle DEF DirNackRetry
<1>4. CASE DirAckReply
  BY <1>4, AnswerLine, LineSettle DEF DirAckReply
<1>5. CASE DirAckForward
  BY <1>5, AnswerLine, LineSettle DEF DirAckForward
<1>6. CASE DirNackPendResend \/ DirCoheRepError
  BY <1>6 DEF DirNackPendResend, DirCoheRepError, YS__errmsg, lineVars, IInv,
              LineInv, LineTypeOK, PendIffExtra, VectorOK, CounterOK
<1> QED BY <1>1, <1>2, <1>3, <1>4, <1>5, <1>6 DEF DirCoheRep

(* No write-back breaks the state of a line.                               *)
LEMMA LineWrb ==
  ASSUME IInv, DirWrb PROVE LineInv'
<1>1. CASE DirWrbError
  BY <1>1 DEF DirWrbError, YS__errmsg, lineVars, IInv,
              LineInv, LineTypeOK, PendIffExtra, VectorOK, CounterOK
<1>2. CASE ~DirWrbError
  <2> PICK m \in REQ : m = Answer
    BY <1>2, AnswerType DEF DirWrb, DirWrbRevive, DirWrbWasHere, DirWrbPlain, WriteBack
  <2> PICK l \in Lines : l = m.tag /\ m.node \in Nodes
    BY DEF REQ
  <2>1. LineTypeOK /\ LineOK(l)
    BY LineInvDef DEF IInv
  <2>2. CASE DirWrbRevive
    <3>1. LineTypeOK' /\ LineOK(l)'
      BY <2>1, <2>2 DEF DirWrbRevive, Uncache, Settle, LineTypeOK, LineOK
    <3> QED
      BY <2>1, <2>2, <3>1, OneLine DEF DirWrbRevive, Uncache, Settle, LineTypeOK, IInv
  <2>3. CASE DirWrbWasHere
    <3> PICK e \in DirEP : e = extra[l]
      BY <2>1, <2>3 DEF DirWrbWasHere, LineTypeOK
    <3> DEFINE f == [e EXCEPT !.WasHere = m.node]
    <3>1. f \in DirEP /\ f.counter = e.counter /\ f.waiting = e.waiting
      BY DEF DirEP
    <3>2. UNCHANGED pend /\ extra' = [extra EXCEPT ![l] = f] /\ Uncache(l)
      BY <2>3 DEF DirWrbWasHere
    <3> HIDE DEF f
    <3>3. LineTypeOK'
      BY <2>1, <3>1, <3>2 DEF LineTypeOK, Uncache
    <3>4. LineOK(l)'
      BY <2>1, <3>1, <3>2, ExtraAssumption DEF LineOK, LineTypeOK, Uncache
    <3> QED BY <2>1, <3>2, <3>3, <3>4, OneLine DEF IInv, LineTypeOK, Uncache
  <2>4. CASE DirWrbPlain
    <3>1. ~pend[l] /\ Uncache(l) /\ UNCHANGED extra /\ pend' = [pend EXCEPT ![l] = FALSE]
      BY <2>1, <2>4 DEF DirWrbPlain, LineOK
    <3>2. LineTypeOK' /\ LineOK(l)'
      BY <2>1, <3>1 DEF Uncache, LineTypeOK, LineOK
    <3> QED BY <2>1, <3>1, <3>2, OneLine DEF Uncache, LineTypeOK, IInv
  <2> QED BY <1>2, <2>2, <2>3, <2>4 DEF DirWrb
<1> QED BY <1>1, <1>2

(* No step breaks the state of a line.                                     *)
LEMMA LineStep ==
  ASSUME IInv, DirNext PROVE LineInv'
<1>1. CASE UNCHANGED lineVars
  BY <1>1 DEF IInv, LineInv, lineVars, LineTypeOK, PendIffExtra, VectorOK, CounterOK
<1>2. CASE DirStart
  BY <1>1, <1>2 DEF DirStart, DirActivate, DirOutbound, DirPick, DirNextPort
<1>3. CASE DirReq
  <2>1. CASE DirReqError \/ DirReqBounce \/ DirReqRAR \/ DirReqPend
    BY <1>1, <2>1 DEF DirReqError, DirReqBounce, DirReqRAR, DirReqPend, YS__errmsg
  <2> QED BY <1>3, <2>1, LineGrant, LineWaitForWRB, LineInval, LineForward DEF DirReq
<1>4. CASE DirSend
  <2>1. CASE DirSendCoheNull \/ DirSendForward
    BY <1>1, <2>1 DEF DirSendCoheNull, DirSendForward, YS__errmsg
  <2> QED BY <1>4, <2>1, LineSendInval DEF DirSend
<1>5. CASE Environment
  BY <1>1, <1>5 DEF Environment, ArriveReq, ArriveRep, Arrival, TakeCohe, TakeRep, Removal
<1> QED BY <1>2, <1>3, <1>4, <1>5, LineAnswers, LineWrb DEF DirNext, DirStep

(* dir_commit_req takes a message off a queue.                             *)
LEMMA CommitType ==
  ASSUME IInv, ServeReq, CommitReq
  PROVE  ReadyReqs' \in Seq(REQ) /\ inReq' \in Seq(REQ)
<1>1. ReadyReqs \in Seq(REQ) /\ inReq \in Seq(REQ)
  BY DEF IInv, QueueInv, QueueTypeOK, PortTypeOK
<1>2. CASE sel = "READY"
  BY <1>1, <1>2, SeqFacts DEF IInv, CtlInv, PickedThere, ServeReq, CommitReq, wasPending
<1>3. CASE sel = "REQ"
  BY <1>1, <1>3, SeqFacts DEF IInv, CtlInv, PickedThere, ServeReq, CommitReq, wasPending
<1> QED BY <1>2, <1>3 DEF ServeReq

(* A request that is not committed stays a message.                        *)
LEMMA LeaveType ==
  ASSUME IInv, ServeReq, NEW m \in REQ, LeaveReq(m)
  PROVE  ReadyReqs' \in Seq(REQ) /\ inReq' \in Seq(REQ)
  BY SeqFacts DEF IInv, QueueInv, QueueTypeOK, PortTypeOK, CtlInv, PickedThere,
                  ServeReq, LeaveReq, wasPending

(* An output port holds messages.                                          *)
LEMMA AddReqType ==
  ASSUME IInv, NEW m \in REQ, AddReq(m)
  PROVE  outCohe' \in Seq(REQ) /\ outRep' \in Seq(REQ)
  BY SeqFacts DEF IInv, PortTypeOK, AddReq

(* DirCheckBuf moves the requests of a line to ReadyReqs.                  *)
LEMMA CheckBufType ==
  ASSUME IInv, NEW l \in Lines, NEW first \in Seq(REQ), DirCheckBuf(l, first)
  PROVE  /\ ReadyReqs' \in Seq(REQ)
         /\ BufPend' \in [Lines -> Seq(REQ)]
         /\ BufPend' = [BufPend EXCEPT ![l] = <<>>]
<1>1. BufPend[l] \in Seq(REQ) /\ ReadyReqs \in Seq(REQ) /\ BufPend \in [Lines -> Seq(REQ)]
  BY DEF IInv, QueueInv, QueueTypeOK
<1>2. ReadyReqs \o first \in Seq(REQ)
  BY <1>1
<1>3. (ReadyReqs \o first) \o BufPend[l] \in Seq(REQ)
  BY <1>1, <1>2
<1> QED BY <1>1, <1>3, EmptySeq DEF DirCheckBuf

(* A message that leaves or waits gives back one buffer at most.           *)
LEMMA SendOrQueueType ==
  ASSUME IInv, NEW m \in REQ, SendOrQueue(m)
  PROVE  /\ OutboundReqs' \in Seq(REQ)
         /\ outCohe' \in Seq(REQ) /\ outRep' \in Seq(REQ)
         /\ buftotsz' \in {buftotsz, buftotsz - 1}
<1>1. CASE PortFull(m)
  BY <1>1, SeqFacts DEF SendOrQueue, IInv, QueueInv, QueueTypeOK, PortTypeOK, outVars
<1>2. CASE ~PortFull(m)
  BY <1>2, AddReqType DEF SendOrQueue, IInv, QueueInv, QueueTypeOK
<1> QED BY <1>1, <1>2

(* A request that is not pending takes a buffer only when there is one.    *)
LEMMA HoldBufferOK ==
  ASSUME IInv, ServeCohe, HoldBuffer
  PROVE  buftotsz' \in Int /\ buftotsz' <= BufMax
  BY SizeAssumption DEF IInv, CountInv, CountTypeOK, BufBound, ServeCohe, HaveBuffer, HoldBuffer

(* Whoever leaves BufPend alone and ends no transaction strands nobody.    *)
LEMMA QueuesUnchanged ==
  ASSUME IInv, BufPend' = BufPend, ReadyReqs' \in Seq(REQ), OutboundReqs' \in Seq(REQ),
         UNCHANGED pend \/ \E l \in Lines : pend' = [pend EXCEPT ![l] = TRUE]
  PROVE  QueueInv'
<1>1. \A l \in Lines : pend[l] => pend'[l]
  BY DEF IInv, LineInv, LineTypeOK
<1> QED BY <1>1 DEF IInv, QueueInv, QueueTypeOK, NoStranded

(* Whoever ends a transaction empties the buffer of its line.              *)
LEMMA QueuesRevived ==
  ASSUME IInv, NEW l \in Lines, NEW first \in Seq(REQ), DirCheckBuf(l, first),
         pend' = [pend EXCEPT ![l] = FALSE], OutboundReqs' \in Seq(REQ)
  PROVE  QueueInv'
<1>1. BufPend'[l] = <<>>
      /\ \A k \in Lines \ {l} : BufPend'[k] = BufPend[k] /\ pend'[k] = pend[k]
  BY CheckBufType DEF IInv, LineInv, LineTypeOK, QueueInv, QueueTypeOK
<1>2. QueueTypeOK'
  BY CheckBufType DEF QueueTypeOK
<1> QED BY <1>1, <1>2 DEF IInv, QueueInv, NoStranded

(* Queues, ports and buffers together: the invariant but for the lines and *)
(* the control state.                                                      *)
RestInv == QueueInv /\ CountInv /\ PortTypeOK

(* DIRSTART and DIROUTBOUND keep queues, buffers and ports.                *)
LEMMA RestStart ==
  ASSUME IInv, DirStart PROVE RestInv'
<1>1. CASE DirActivate \/ DirPick \/ DirNextPort
  BY <1>1 DEF DirActivate, DirPick, DirNextPort, IInv, RestInv, QueueInv, QueueTypeOK,
     NoStranded, CountInv, CountTypeOK, BufBound, PortTypeOK,
     lineVars, countVars, queueVars, inVars, outVars
<1>2. CASE DirOutbound
  <2> DEFINE m == Head(OutboundReqs)
  <2>1. m \in REQ /\ Tail(OutboundReqs) \in Seq(REQ)
    BY <1>2, SeqFacts DEF DirOutbound, OutboundDone, IInv, QueueInv, QueueTypeOK
  <2>2. Append(Tail(OutboundReqs), m) \in Seq(REQ)
    BY <2>1, SeqFacts
  <2> HIDE DEF m
  <2>3. OutboundReqs' \in Seq(REQ)
    BY <1>2, <2>1, <2>2 DEF DirOutbound, m
  <2>4. PortTypeOK'
    <3>1. CASE PortFull(m)
      BY <1>2, <3>1 DEF DirOutbound, m, outVars, inVars, IInv, PortTypeOK
    <3>2. CASE ~PortFull(m)
      BY <1>2, <2>1, <3>2, AddReqType DEF DirOutbound, m, inVars, IInv, PortTypeOK
    <3> QED BY <3>1, <3>2
  <2>5. CountInv'
    BY <1>2, SizeAssumption DEF DirOutbound, IInv, CountInv, CountTypeOK, BufBound
  <2>6. QueueInv'
    BY <1>2, <2>3, QueuesUnchanged DEF DirOutbound, lineVars, IInv, QueueInv, QueueTypeOK
  <2> QED BY <2>4, <2>5, <2>6 DEF RestInv
<1> QED BY <1>1, <1>2 DEF DirStart

(* DIRREQ keeps queues, buffers and ports.                                 *)
LEMMA RestReq ==
  ASSUME IInv, DirReq PROVE RestInv'
<1>1. CASE DirReqError
  BY <1>1 DEF DirReqError, YS__errmsg, IInv, RestInv, QueueInv, QueueTypeOK,
     NoStranded, CountInv, CountTypeOK, BufBound, PortTypeOK,
     lineVars, countVars, queueVars, inVars, outVars
<1>2. CASE ~DirReqError
  <2> PICK m \in REQ : m = Request
    BY <1>2, RequestType DEF DirReq, DirReqBounce, DirReqRAR, DirReqPend, DirReqGrant,
       DirReqWaitForWRB, DirReqInval, DirReqForward, Decides, ServeCohe
  <2> PICK l \in Lines : l = m.tag
    BY DEF REQ
  <2>a. /\ BufPend \in [Lines -> Seq(REQ)] /\ ReadyReqs \in Seq(REQ)
        /\ OutboundReqs \in Seq(REQ) /\ PortTypeOK /\ CountInv
    BY DEF IInv, QueueInv, QueueTypeOK
  <2>1. CASE DirReqBounce \/ DirReqRAR
    <3> DEFINE b == [m EXCEPT !.type = "REPLY", !.reply = "REPLY"]
               r == [m EXCEPT !.type = "REPLY", !.reply = "RAR"]
    <3>1. b \in REQ /\ r \in REQ
      BY DEF REQ
    <3>2. CASE Full(outRep)
      BY <2>1, <2>a, <3>2 DEF DirReqBounce, DirReqRAR, IInv, RestInv, QueueInv, QueueTypeOK,
         NoStranded, CountInv, CountTypeOK, BufBound, PortTypeOK, lineVars, countVars, outVars
    <3>3. CASE ~Full(outRep)
      <4>1. ServeReq /\ CommitReq /\ (AddReq(b) \/ AddReq(r))
        BY <2>1, <3>3 DEF DirReqBounce, DirReqRAR
      <4>2. PortTypeOK'
        BY <2>1, <2>a, <3>1, <4>1, CommitType, AddReqType DEF DirReqBounce, DirReqRAR, PortTypeOK
      <4>3. QueueInv'
        BY <2>1, <2>a, <4>1, CommitType, QueuesUnchanged DEF DirReqBounce, DirReqRAR, lineVars
      <4>4. CountInv'
        BY <2>1, <2>a DEF DirReqBounce, DirReqRAR, CountInv, CountTypeOK, BufBound, countVars
      <4> QED BY <4>2, <4>3, <4>4 DEF RestInv
    <3> QED BY <3>2, <3>3
  <2>2. CASE DirReqPend
    <3>1. ServeReq /\ ServeCohe /\ CommitReq /\ HoldBuffer /\ pend[l]
      BY <2>2 DEF DirReqPend, ServeCohe
    <3>2. Append(BufPend[l], m) \in Seq(REQ)
      BY <2>a
    <3>3. BufPend' = [BufPend EXCEPT ![l] = Append(@, m)] /\ pend' = pend
      BY <2>2 DEF DirReqPend, lineVars
    <3>4. QueueInv'
      <4>1. QueueTypeOK'
        BY <2>2, <2>a, <3>1, <3>2, <3>3, CommitType DEF DirReqPend, QueueTypeOK
      <4> QED BY <2>a, <3>1, <3>3, <4>1 DEF IInv, QueueInv, NoStranded
    <3>5. PortTypeOK'
      BY <2>2, <2>a, <3>1, CommitType DEF DirReqPend, outVars, PortTypeOK
    <3>6. CountInv'
      BY <2>2, <2>a, <3>1, HoldBufferOK DEF DirReqPend, CountInv, CountTypeOK, BufBound
    <3> QED BY <3>4, <3>5, <3>6 DEF RestInv
  <2>3. CASE DirReqGrant
    <3> DEFINE r == [m EXCEPT !.req_type = GrantType(m)]
               g == [r EXCEPT !.type = "REPLY", !.reply = "REPLY"]
    <3>1. r \in REQ /\ g \in REQ
      BY GrantTypeOK DEF REQ, DataTypes
    <3>2. ServeReq /\ UNCHANGED <<pend, wait_cntsz, BufPend, OutboundReqs, inRep>>
      BY <2>3 DEF DirReqGrant, Decides, ServeCohe
    <3> HIDE DEF r, g
    <3>3. \/ LeaveReq(r) /\ UNCHANGED <<buftotsz, outVars>>
          \/ CommitReq /\ AddReq(g) /\ buftotsz' \in {buftotsz, buftotsz - 1}
      BY <2>3 DEF DirReqGrant, r, g
    <3>4. ReadyReqs' \in Seq(REQ) /\ PortTypeOK'
      BY <2>a, <3>1, <3>2, <3>3, LeaveType, CommitType, AddReqType DEF PortTypeOK, outVars
    <3>5. CountInv'
      BY <2>a, <3>2, <3>3, SizeAssumption DEF CountInv, CountTypeOK, BufBound
    <3> QED BY <2>a, <3>2, <3>4, <3>5, QueuesUnchanged DEF RestInv
  <2>4. CASE DirReqWaitForWRB \/ DirReqInval \/ DirReqForward
    <3>1. /\ ServeReq /\ ServeCohe /\ CommitReq /\ HoldBuffer /\ wait_cntsz' = wait_cntsz + 1
          /\ pend' = [pend EXCEPT ![l] = TRUE]
          /\ UNCHANGED <<BufPend, OutboundReqs, inRep, outVars>>
      BY <2>4 DEF DirReqWaitForWRB, DirReqInval, DirReqForward, Decides, ServeCohe, REQ
    <3>2. QueueInv'
      BY <2>a, <3>1, CommitType, QueuesUnchanged
    <3>3. PortTypeOK'
      BY <2>a, <3>1, CommitType DEF PortTypeOK, outVars
    <3>4. CountInv'
      BY <2>a, <3>1, HoldBufferOK DEF CountInv, CountTypeOK, BufBound
    <3> QED BY <3>2, <3>3, <3>4 DEF RestInv
  <2> QED BY <1>2, <2>1, <2>2, <2>3, <2>4 DEF DirReq
<1> QED BY <1>1, <1>2

(* An invalidation is a message.                                           *)
LEMMA InvalidationType ==
  ASSUME NEW l \in Lines, NEW n \in Nodes, extra[l] \in DirEP
  PROVE  Invalidation(l, n) \in REQ
  BY DEF Invalidation, DirEP, REQ, CoheTypes

(* DIRSENDCOHE keeps queues, buffers and ports.                            *)
LEMMA RestSend ==
  ASSUME IInv, DirSend PROVE RestInv'
<1>1. UNCHANGED <<countVars, queueVars, inVars, pend>> => QueueInv' /\ CountInv'
  BY DEF IInv, QueueInv, QueueTypeOK, NoStranded, CountInv, CountTypeOK, BufBound,
         countVars, queueVars
<1>2. UNCHANGED <<inVars, outVars>> => PortTypeOK'
  BY DEF IInv, PortTypeOK, inVars, outVars
<1>3. CASE DirSendCoheNull
  BY <1>1, <1>2, <1>3 DEF DirSendCoheNull, YS__errmsg, RestInv, lineVars
<1>4. CASE DirSendForward \/ DirSendInval
  <2> PICK l \in Lines : l = req_partial
    BY <1>4 DEF DirSendForward, DirSendInval, Sending, SendCohe, Offer, IInv, CtlInv,
                CtlTypeOK, PickedThere
  <2>1. extra[l] \in DirEP
    BY <1>4 DEF DirSendForward, DirSendInval, Sending, IInv, LineInv, LineTypeOK
  <2>2. CASE UNCHANGED outVars
    BY <1>1, <1>2, <1>4, <2>2 DEF DirSendForward, DirSendInval, RestInv, lineVars
  <2>3. CASE ~UNCHANGED outVars
    <3>1. \E r \in REQ : AddReq(r)
      <4>1. CASE DirSendForward
        <5>1. extra[l].pend_req \in REQ /\ AddReq(extra[l].pend_req)
          BY <2>1, <2>3, <4>1 DEF DirSendForward, DirEP
        <5> QED BY <5>1
      <4>2. CASE DirSendInval
        <5>1. PICK n \in extra[l].left : AddReq(Invalidation(l, n))
          BY <2>3, <4>2 DEF DirSendInval
        <5>2. n \in Nodes
          BY <2>1 DEF DirEP
        <5> QED BY <2>1, <5>1, <5>2, InvalidationType
      <4> QED BY <1>4, <4>1, <4>2
    <3>2. PortTypeOK'
      BY <1>4, <3>1, AddReqType DEF DirSendForward, DirSendInval, inVars, PortTypeOK, IInv
    <3> QED BY <1>1, <1>4, <3>2 DEF DirSendForward, DirSendInval, RestInv, lineVars
  <2> QED BY <2>2, <2>3
<1> QED BY <1>3, <1>4 DEF DirSend

(* What a forwarded request is turned back into.                           *)
LEMMA FixForwardRARsOK ==
  ASSUME NEW t PROVE FixForwardRARs(t) \in ReqTypes
  BY DEF FixForwardRARs, ReqTypes

(* A served COHE_REPLY is taken off its port.                              *)
LEMMA CommitRepType ==
  ASSUME IInv, ServeRep, CommitRep
  PROVE  inRep' \in Seq(REQ) /\ inReq' \in Seq(REQ)
<1>1. inRep \in Seq(REQ) /\ inReq \in Seq(REQ) /\ inRep # <<>>
  BY DEF IInv, PortTypeOK, CtlInv, PickedThere, ServeRep
<1> QED BY <1>1, SeqFacts DEF CommitRep

(* A kept request becomes a REPLY.                                         *)
LEMMA ReplyType ==
  ASSUME NEW m \in REQ PROVE [m EXCEPT !.type = "REPLY", !.reply = "REPLY"] \in REQ
  BY DEF REQ

(* So is every answer that is not an error.                                *)
LEMMA AnswersPorts ==
  ASSUME IInv, NEW class, Answers(class)
  PROVE  inRep' \in Seq(REQ) /\ inReq' \in Seq(REQ)
  BY CommitRepType DEF Answers

(* The effect of an answer, whether it ends the transaction or not.        *)
LEMMA RestAfterAnswer ==
  ASSUME IInv, QueueInv', inRep' \in Seq(REQ), inReq' \in Seq(REQ),
         outCohe' \in Seq(REQ), outRep' \in Seq(REQ),
         buftotsz' \in {buftotsz, buftotsz - 1},
         wait_cntsz' \in {wait_cntsz, wait_cntsz - 1}
  PROVE  RestInv'
<1>1. CountInv'
  BY SizeAssumption DEF IInv, CountInv, CountTypeOK, BufBound
<1>2. PortTypeOK'
  BY DEF PortTypeOK
<1> QED BY <1>1, <1>2 DEF RestInv

(* DIRCOHEREP keeps queues, buffers and ports.                             *)
LEMMA RestCoheRep ==
  ASSUME IInv, DirCoheRep PROVE RestInv'
<1>1. CASE DirCoheRepError
  BY <1>1 DEF DirCoheRepError, YS__errmsg, IInv, RestInv, QueueInv, QueueTypeOK,
     NoStranded, CountInv, CountTypeOK, BufBound, PortTypeOK,
     lineVars, countVars, queueVars, inVars, outVars
<1>2. CASE ~DirCoheRepError
  <2>1. PICK class : Answers(class)
    BY <1>2 DEF DirCoheRep, DirNackRace, DirNackRetry, DirNackPendResend, DirAck,
                DirAckReply, DirAckForward
  <2> PICK m \in REQ, l \in Lines :
        /\ m = Answer /\ l = m.tag /\ m.node \in Nodes
        /\ extra[l] # NULL /\ extra[l] \in DirEP
    BY <2>1, AnswerLine
  <2>2. OutboundReqs \in Seq(REQ) /\ outCohe \in Seq(REQ) /\ outRep \in Seq(REQ)
    BY DEF IInv, QueueInv, QueueTypeOK, PortTypeOK
  <2>3. inRep' \in Seq(REQ) /\ inReq' \in Seq(REQ)
    BY <2>1, AnswersPorts
  <2>4. CASE DirNackRace
    <3> DEFINE r == IF m.forward_to = NULL
                    THEN [m EXCEPT !.type = "REPLY", !.reply = "RAR"]
                    ELSE [m EXCEPT !.type = "REPLY", !.reply = "RAR",
                                   !.req_type = FixForwardRARs(m.req_type),
                                   !.nack_st = "NACK_OK",
                                   !.node = m.forward_to, !.forward_to = NULL]
    <3>1. r \in REQ
      BY FixForwardRARsOK DEF REQ
    <3>2. Settle(l) /\ DirCheckBuf(l, <<>>) /\ SendOrQueue(r) /\ UNCHANGED wait_cntsz
      BY <2>4 DEF DirNackRace
    <3> HIDE DEF r
    <3>3. QueueInv'
      BY <3>1, <3>2, EmptySeq, SendOrQueueType, QueuesRevived DEF Settle
    <3> QED BY <2>3, <3>1, <3>2, <3>3, SendOrQueueType, RestAfterAnswer
  <2>5. CASE DirNackRetry
    <3> DEFINE r == [m EXCEPT !.type = "REQUEST", !.reply = "REPLY",
                              !.req_type = FixForwardRARs(m.req_type),
                              !.nack_st = "NACK_OK",
                              !.node = m.forward_to, !.forward_to = NULL]
    <3>1. m.forward_to # NULL
      BY <2>5 DEF DirNackRetry, Answers, AnswerError
    <3>2. r \in REQ /\ <<r>> \in Seq(REQ)
      <4>1. r \in REQ
        BY <3>1, FixForwardRARsOK DEF REQ
      <4> QED BY <4>1
    <3>3. /\ Settle(l) /\ DirCheckBuf(l, <<r>>)
          /\ UNCHANGED <<countVars, OutboundReqs, outVars>>
      BY <2>5 DEF DirNackRetry
    <3> HIDE DEF r
    <3>4. QueueInv'
      BY <2>2, <3>2, <3>3, QueuesRevived DEF Settle
    <3> QED BY <2>2, <2>3, <3>3, <3>4, RestAfterAnswer DEF countVars, outVars
  <2>6. CASE DirNackPendResend
    <3> DEFINE r == [m EXCEPT !.type = "COHE"]
    <3>1. r \in REQ
      BY DEF REQ
    <3>2. SendOrQueue(r) /\ UNCHANGED <<pend, wait_cntsz, BufPend, ReadyReqs>>
      BY <2>6 DEF DirNackPendResend, lineVars
    <3> HIDE DEF r
    <3>3. QueueInv'
      BY <3>1, <3>2, SendOrQueueType, QueuesUnchanged DEF IInv, QueueInv, QueueTypeOK
    <3> QED BY <2>3, <3>1, <3>2, <3>3, SendOrQueueType, RestAfterAnswer
  <2>7. CASE DirAck
    <3>1. UNCHANGED <<pend, countVars, queueVars, outVars>>
      BY <2>7 DEF DirAck
    <3>2. QueueInv'
      BY <2>2, <3>1, QueuesUnchanged DEF IInv, QueueInv, QueueTypeOK, queueVars
    <3> QED BY <2>2, <2>3, <3>1, <3>2, RestAfterAnswer DEF countVars, outVars
  <2>8. CASE DirAckReply
    <3> PICK q \in REQ : q = extra[l].pend_req
      BY DEF DirEP
    <3> PICK r \in REQ : r = [q EXCEPT !.type = "REPLY", !.reply = "REPLY"]
      BY ReplyType
    <3>1. Settle(l) /\ DirCheckBuf(l, <<>>) /\ SendOrQueue(r) /\ wait_cntsz' = wait_cntsz - 1
      BY <2>8 DEF DirAckReply
    <3>2. QueueInv'
      BY <3>1, EmptySeq, SendOrQueueType, QueuesRevived DEF Settle
    <3> QED BY <2>3, <3>1, <3>2, SendOrQueueType, RestAfterAnswer
  <2>9. CASE DirAckForward
    <3>1. /\ Settle(l) /\ DirCheckBuf(l, <<>>)
          /\ wait_cntsz' = wait_cntsz - 1 /\ buftotsz' = buftotsz - 1
          /\ UNCHANGED <<OutboundReqs, outVars>>
      BY <2>9 DEF DirAckForward
    <3>2. QueueInv'
      BY <2>2, <3>1, EmptySeq, QueuesRevived DEF Settle
    <3> QED BY <2>2, <2>3, <3>1, <3>2, RestAfterAnswer DEF outVars
  <2> QED BY <1>2, <2>4, <2>5, <2>6, <2>7, <2>8, <2>9 DEF DirCoheRep
<1> QED BY <1>1, <1>2

(* DIRWRB keeps queues, buffers and ports.                                 *)
LEMMA RestWrb ==
  ASSUME IInv, DirWrb PROVE RestInv'
<1>1. CASE DirWrbError
  BY <1>1 DEF DirWrbError, YS__errmsg, IInv, RestInv, QueueInv, QueueTypeOK,
     NoStranded, CountInv, CountTypeOK, BufBound, PortTypeOK,
     lineVars, countVars, queueVars, inVars, outVars
<1>2. CASE ~DirWrbError
  <2>1. WriteBack
    BY <1>2 DEF DirWrb, DirWrbRevive, DirWrbWasHere, DirWrbPlain
  <2> PICK m \in REQ : m = Answer
    BY <2>1, AnswerType DEF WriteBack
  <2> PICK l \in Lines : l = m.tag
    BY DEF REQ
  <2>2. OutboundReqs \in Seq(REQ) /\ outCohe \in Seq(REQ) /\ outRep \in Seq(REQ)
    BY DEF IInv, QueueInv, QueueTypeOK, PortTypeOK
  <2>3. /\ inRep' \in Seq(REQ) /\ inReq' \in Seq(REQ)
        /\ UNCHANGED <<buftotsz, OutboundReqs, outCohe, outRep>>
    BY <2>1, CommitRepType DEF WriteBack, outVars
  <2>4. CASE DirWrbRevive
    <3>1. /\ Settle(l) /\ DirCheckBuf(l, <<extra[l].pend_req>>)
          /\ wait_cntsz' = wait_cntsz - 1
      BY <2>4 DEF DirWrbRevive
    <3>2. <<extra[l].pend_req>> \in Seq(REQ)
      <4>1. extra[l] \in DirEP
        BY <2>4 DEF DirWrbRevive, Expected, IInv, LineInv, LineTypeOK
      <4> QED BY <4>1 DEF DirEP
    <3>3. QueueInv'
      BY <2>2, <2>3, <3>1, <3>2, QueuesRevived DEF Settle
    <3> QED BY <2>2, <2>3, <3>1, <3>3, RestAfterAnswer
  <2>5. CASE DirWrbWasHere
    <3>1. UNCHANGED <<pend, wait_cntsz, BufPend, ReadyReqs>>
      BY <2>5 DEF DirWrbWasHere
    <3>2. QueueInv'
      BY <2>2, <2>3, <3>1, QueuesUnchanged DEF IInv, QueueInv, QueueTypeOK
    <3> QED BY <2>2, <2>3, <3>1, <3>2, RestAfterAnswer
  <2>6. CASE DirWrbPlain
    <3>1. DirCheckBuf(l, <<>>) /\ pend' = [pend EXCEPT ![l] = FALSE] /\ UNCHANGED wait_cntsz
      BY <2>6 DEF DirWrbPlain
    <3>2. QueueInv'
      BY <2>2, <2>3, <3>1, EmptySeq, QueuesRevived
    <3> QED BY <2>2, <2>3, <3>1, <3>2, RestAfterAnswer
  <2> QED BY <1>2, <2>4, <2>5, <2>6 DEF DirWrb
<1> QED BY <1>1, <1>2

(* The environment moves messages only.                                    *)
LEMMA EnvironmentFrame ==
  ASSUME Environment
  PROVE  UNCHANGED <<lineVars, countVars, queueVars, sel, req_partial, fatal, next_port,
                     loop_count, checkedOutbound>>
<1>1. ASSUME NEW m, ArriveReq(m) \/ ArriveRep(m)
      PROVE  UNCHANGED <<lineVars, countVars, queueVars, sel, req_partial, fatal, next_port,
                         loop_count, checkedOutbound>>
  BY <1>1 DEF ArriveReq, ArriveRep, Arrival
<1>2. CASE TakeCohe \/ TakeRep
  BY <1>2 DEF TakeCohe, TakeRep, Removal
<1> QED BY <1>1, <1>2 DEF Environment

(* Arrivals and departures keep queues, buffers and ports.                 *)
LEMMA RestEnvironment ==
  ASSUME IInv, Environment PROVE RestInv'
<1>1. QueueInv' /\ CountInv'
  BY EnvironmentFrame DEF lineVars, countVars, queueVars, IInv, QueueInv, QueueTypeOK,
     NoStranded, CountInv, CountTypeOK, BufBound
<1>2. inReq \in Seq(REQ) /\ inRep \in Seq(REQ) /\ outCohe \in Seq(REQ) /\ outRep \in Seq(REQ)
  BY DEF IInv, PortTypeOK
<1>3. ASSUME NEW m \in REQ, ArriveReq(m) \/ ArriveRep(m) PROVE PortTypeOK'
  <2>1. Append(inReq, m) \in Seq(REQ) /\ Append(inRep, m) \in Seq(REQ)
    BY <1>2
  <2> QED BY <1>2, <1>3, <2>1 DEF ArriveReq, ArriveRep, Arrival, outVars, PortTypeOK
<1>4. ASSUME TakeCohe PROVE PortTypeOK'
  <2>1. Tail(outCohe) \in Seq(REQ)
    BY <1>2, <1>4, SeqFacts DEF TakeCohe, Removal
  <2> QED BY <1>2, <1>4, <2>1 DEF TakeCohe, Removal, inVars, PortTypeOK
<1>5. ASSUME TakeRep PROVE PortTypeOK'
  <2>1. Tail(outRep) \in Seq(REQ)
    BY <1>2, <1>5, SeqFacts DEF TakeRep, Removal
  <2> QED BY <1>2, <1>5, <2>1 DEF TakeRep, Removal, inVars, PortTypeOK
<1>6. RequestMsg \subseteq REQ /\ CoheRepMsg \subseteq REQ
  BY DEF RequestMsg, CoheRepMsg
<1>7. PortTypeOK'
  BY <1>3, <1>4, <1>5, <1>6 DEF Environment
<1> QED BY <1>1, <1>7 DEF RestInv

(* No step breaks queues, buffers or ports.                                *)
LEMMA RestStep ==
  ASSUME IInv, DirNext PROVE RestInv'
  BY RestStart, RestReq, RestSend, RestCoheRep, RestWrb, RestEnvironment DEF DirNext, DirStep

(* What the event picks is there, and nobody but the event takes it away.  *)
LEMMA CtlStart ==
  ASSUME IInv, DirStart PROVE CtlInv'
<1>1. CtlTypeOK
  BY DEF IInv, CtlInv
<1>2. CASE DirActivate \/ DirOutbound
  BY <1>1, <1>2 DEF DirActivate, DirOutbound, CtlTypeOK, CtlInv, PickedThere
<1>4. CASE DirNextPort
  <2>1. Asleep \in {"SCHED", "WAIT_INQ_EMPTY", "WAIT_QUEUE_EVENT"}
    BY DEF Asleep
  <2>2. pc' \in {"START", "SCHED", "WAIT_INQ_EMPTY", "WAIT_QUEUE_EVENT"}
    BY <1>4, <2>1 DEF DirNextPort
  <2>3. checkedOutbound' \in BOOLEAN /\ loop_count' \in {0, 1}
    BY <1>1, <1>4 DEF DirNextPort, CtlTypeOK
  <2>4. next_port' \in {0, 1} /\ UNCHANGED <<sel, req_partial, fatal>>
    BY <1>1, <1>4 DEF DirNextPort, CtlTypeOK
  <2> QED BY <1>1, <2>2, <2>3, <2>4 DEF CtlInv, CtlTypeOK, PickedThere
<1>3. CASE DirPick
  <2>1. CtlTypeOK'
    BY <1>1, <1>3 DEF DirPick, CtlTypeOK
  <2>2. PickedThere'
    BY <1>3 DEF DirPick, PickedThere, Offer, inVars, queueVars
  <2> QED BY <2>1, <2>2 DEF CtlInv
<1> QED BY <1>2, <1>3, <1>4 DEF DirStart

(* DIRSTARTOVER leaves nothing picked.                                     *)
LEMMA CtlStartOver ==
  ASSUME IInv, StartOver, fatal' = fatal, req_partial' \in Lines \cup {NULL}
  PROVE  CtlInv'
  BY DEF IInv, CtlInv, CtlTypeOK, StartOver, PickedThere

(* YS__errmsg stops the event with a known code.                           *)
LEMMA CtlError ==
  ASSUME IInv, NEW code \in FatalCodes, YS__errmsg(code)
  PROVE  CtlInv'
  BY DEF IInv, CtlInv, CtlTypeOK, YS__errmsg, PickedThere

(* DIRREQ leaves nothing picked, or a transaction with COHEs to send.      *)
LEMMA CtlReq ==
  ASSUME IInv, DirReq PROVE CtlInv'
<1>1. req_partial \in Lines \cup {NULL}
  BY DEF IInv, CtlInv, CtlTypeOK
<1>2. CASE DirReqError
  <2>1. ReqError(Request) \in FatalCodes
    BY DEF ReqError, FatalCodes
  <2> QED BY <1>2, <2>1, CtlError DEF DirReqError
<1>3. CASE DirReqBounce \/ DirReqRAR \/ DirReqPend \/ DirReqGrant \/ DirReqWaitForWRB
  <2>1. StartOver /\ fatal' = fatal /\ req_partial' = req_partial
    BY <1>3 DEF DirReqBounce, DirReqRAR, DirReqPend, DirReqGrant, DirReqWaitForWRB
  <2> QED BY <1>1, <2>1, CtlStartOver
<1>4. CASE DirReqInval \/ DirReqForward
  <2>1. StartCohe(Request.tag) /\ fatal' = fatal /\ ServeReq
    BY <1>4 DEF DirReqInval, DirReqForward, Decides, ServeCohe
  <2>2. Request.tag \in Lines
    BY <2>1, RequestType DEF REQ
  <2> QED
    BY <2>1, <2>2, NullAssumption DEF StartCohe, IInv, CtlInv, CtlTypeOK, PickedThere
<1> QED BY <1>2, <1>3, <1>4 DEF DirReq

(* DIRSENDCOHE goes on only while COHEs are left to send.                  *)
LEMMA CtlSend ==
  ASSUME IInv, DirSend PROVE CtlInv'
<1>1. req_partial \in Lines \cup {NULL} /\ CtlTypeOK
  BY DEF IInv, CtlInv, CtlTypeOK
<1>2. CASE DirSendCoheNull
  BY <1>2, CtlError DEF DirSendCoheNull, FatalCodes
<1>3. CASE DirSendForward
  BY <1>1, <1>3, CtlStartOver DEF DirSendForward
<1>4. CASE DirSendInval
  <2>1. CASE StartOver
    <3>1. fatal' = fatal /\ req_partial' \in {req_partial, NULL}
      BY <1>4, <2>1 DEF DirSendInval
    <3> QED BY <1>1, <2>1, <3>1, CtlStartOver
  <2>2. CASE ~StartOver
    <3>1. /\ pc' = "SENDCOHE" /\ loop_count' = 0 /\ checkedOutbound' = TRUE
          /\ UNCHANGED <<sel, next_port, req_partial, fatal>>
      BY <1>4, <2>2 DEF DirSendInval
    <3>2. req_partial # NULL
      BY <1>4 DEF DirSendInval, Sending, SendCohe, Offer, IInv, CtlInv, PickedThere
    <3> QED BY <1>1, <3>1, <3>2 DEF CtlInv, CtlTypeOK, PickedThere
  <2> QED BY <2>1, <2>2
<1> QED BY <1>2, <1>3, <1>4 DEF DirSend

(* DIRCOHEREP leaves nothing picked.                                       *)
LEMMA CtlCoheRep ==
  ASSUME IInv, DirCoheRep PROVE CtlInv'
<1>1. CASE DirCoheRepError
  <2>1. AnswerError(Answer) \in FatalCodes
    BY DEF AnswerError, AnswerClass, FatalCodes
  <2> QED BY <1>1, <2>1, CtlError DEF DirCoheRepError
<1>2. CASE ~DirCoheRepError
  <2>1. PICK class : Answers(class)
    BY <1>2 DEF DirCoheRep, DirNackRace, DirNackRetry, DirNackPendResend, DirAck,
                DirAckReply, DirAckForward
  <2> QED BY <2>1, CtlStartOver DEF Answers, IInv, CtlInv, CtlTypeOK
<1> QED BY <1>1, <1>2

(* DIRWRB leaves nothing picked.                                           *)
LEMMA CtlWrb ==
  ASSUME IInv, DirWrb PROVE CtlInv'
<1>1. CASE DirWrbError
  <2>1. WrbError(Answer) \in FatalCodes
    BY DEF WrbError, FatalCodes
  <2> QED BY <1>1, <2>1, CtlError DEF DirWrbError
<1>2. CASE ~DirWrbError
  <2>1. WriteBack
    BY <1>2 DEF DirWrb, DirWrbRevive, DirWrbWasHere, DirWrbPlain
  <2> QED BY <2>1, CtlStartOver DEF WriteBack, IInv, CtlInv, CtlTypeOK
<1> QED BY <1>1, <1>2

(* What was picked stays at the head while messages arrive and leave.      *)
LEMMA CtlEnvironment ==
  ASSUME IInv, Environment PROVE CtlInv'
<1>1. UNCHANGED <<sel, req_partial, fatal, next_port, loop_count, checkedOutbound, ReadyReqs>>
  BY EnvironmentFrame DEF queueVars
<1>2. pc' = pc \/ pc' = "SCHED"
  BY DEF Environment, ArriveReq, ArriveRep, Arrival, TakeCohe, TakeRep, Removal
<1>3. (inReq # <<>> => inReq' # <<>>) /\ (inRep # <<>> => inRep' # <<>>)
  <2>1. inReq \in Seq(REQ) /\ inRep \in Seq(REQ)
    BY DEF IInv, PortTypeOK
  <2>2. \A m : Append(inReq, m) # <<>> /\ Append(inRep, m) # <<>>
    BY <2>1
  <2> QED
    BY <2>2 DEF Environment, ArriveReq, ArriveRep, TakeCohe, TakeRep, Removal, inVars
<1> QED BY <1>1, <1>2, <1>3 DEF IInv, CtlInv, CtlTypeOK, PickedThere

(* No step takes away what the event serves.                               *)
LEMMA CtlStep ==
  ASSUME IInv, DirNext PROVE CtlInv'
  BY CtlStart, CtlReq, CtlSend, CtlCoheRep, CtlWrb, CtlEnvironment DEF DirNext, DirStep
-----------------------------------------------------------------------------
(* The invariant is inductive.                                             *)
LEMMA InvariantStep ==
  ASSUME IInv, [DirNext]_dirVars PROVE IInv'
<1>1. CASE UNCHANGED dirVars
  BY <1>1 DEF dirVars, lineVars, countVars, queueVars, ctlVars, inVars, outVars,
     IInv, LineInv, LineTypeOK, PendIffExtra, VectorOK, CounterOK, QueueInv, QueueTypeOK,
     NoStranded, CountInv, CountTypeOK, BufBound, CtlInv, CtlTypeOK, PickedThere, PortTypeOK
<1>2. CASE DirNext
  BY <1>2, LineStep, RestStep, CtlStep DEF IInv, RestInv
<1> QED BY <1>1, <1>2

(* It holds of every behaviour of the directory, whatever its environment  *)
(* sends.                                                                  *)
THEOREM Invariance == DirSpec => []IInv
<1>1. IInv /\ [DirNext]_dirVars => IInv'
  BY InvariantStep
<1> QED BY InitInv, <1>1, PTL DEF DirSpec

(* Every variable of the directory keeps its type.                         *)
THEOREM TypeCorrect == DirSpec => []TypeOK
<1>1. IInv => TypeOK
  BY DEF IInv, LineInv, QueueInv, CountInv, CtlInv, TypeOK
<1> QED BY Invariance, <1>1, PTL

(* pend, extra and counter of a line agree after every case of DirSim: a   *)
(* line is pending exactly while somebody is still to answer for it.       *)
THEOREM Bookkeeping == DirSpec => [](PendIffExtra /\ CounterOK)
<1>1. IInv => PendIffExtra /\ CounterOK
  BY DEF IInv, LineInv
<1> QED BY Invariance, <1>1, PTL

(* The find checks of Dir_Cohe never fail: a line has the sharers its      *)
(* state says, however requests, write-backs and NACKs race.               *)
THEOREM SharersKnown == DirSpec => []VectorOK
<1>1. IInv => VectorOK
  BY DEF IInv, LineInv
<1> QED BY Invariance, <1>1, PTL

(* A request is buffered by DirAddBuf only while a transaction is there to *)
(* revive it, and each path that ends one does.                            *)
THEOREM NobodyStranded == DirSpec => []NoStranded
<1>1. IInv => NoStranded
  BY DEF IInv, QueueInv
<1> QED BY Invariance, <1>1, PTL

(* buftotsz never exceeds bufmaxsz: a new request takes a buffer only      *)
(* below the limit, a revived one never takes another.                     *)
THEOREM BuffersBounded == DirSpec => []BufBound
<1>1. IInv => BufBound
  BY DEF IInv, CountInv
<1> QED BY Invariance, <1>1, PTL

(* After each delay the message that DirSim is about to serve is still     *)
(* there.                                                                  *)
THEOREM ServedIsThere == DirSpec => []PickedThere
<1>1. IInv => PickedThere
  BY DEF IInv, CtlInv
<1> QED BY Invariance, <1>1, PTL
-----------------------------------------------------------------------------
(***************************************************************************)
(* CohesCounted: the lines with a transaction in flight, and their number. *)
(***************************************************************************)
Busy == {l \in Lines : extra[l] # NULL}

(* The lines with a transaction in flight are finitely many.               *)
LEMMA BusyFinite ==
  /\ IsFiniteSet(Busy) /\ InFlight = Cardinality(Busy) /\ InFlight \in Nat
  /\ IsFiniteSet(Busy)' /\ InFlight' = Cardinality(Busy') /\ InFlight' \in Nat
<1>1. Busy \subseteq Lines /\ Busy' \subseteq Lines
  BY DEF Busy
<1>2. InFlight = Cardinality(Busy) /\ InFlight' = Cardinality(Busy')
  BY DEF InFlight, Busy
<1> QED BY <1>1, <1>2, NodesAssumption, FS_Subset, FS_CardinalityType

(* Their number when no transaction starts or ends.                        *)
LEMMA NothingStartsOrEnds ==
  ASSUME \A l \in Lines : extra'[l] # NULL <=> extra[l] # NULL
  PROVE  InFlight' = InFlight
<1>1. Busy' = Busy
  BY DEF Busy
<1> QED BY <1>1, BusyFinite

(* Their number when a transaction starts.                                 *)
LEMMA OneStarts ==
  ASSUME NEW l \in Lines, extra[l] = NULL, extra'[l] # NULL,
         \A k \in Lines \ {l} : extra'[k] = extra[k]
  PROVE  InFlight' = InFlight + 1
<1>1. Busy' = Busy \cup {l} /\ l \notin Busy
  BY DEF Busy
<1> QED BY <1>1, BusyFinite, FS_AddElement

(* Their number when a transaction ends.                                   *)
LEMMA OneEnds ==
  ASSUME NEW l \in Lines, extra[l] # NULL, extra'[l] = NULL,
         \A k \in Lines \ {l} : extra'[k] = extra[k]
  PROVE  InFlight' = InFlight - 1
<1>1. Busy' = Busy \ {l} /\ l \in Busy
  BY DEF Busy
<1> QED BY <1>1, BusyFinite, FS_RemoveElement

(* DIRREQ counts each transaction it starts.                               *)
LEMMA CountedReq ==
  ASSUME IInv, IInv', CohesCounted, DirReq PROVE CohesCounted'
<1>1. CASE UNCHANGED <<extra, wait_cntsz>>
  BY <1>1, NothingStartsOrEnds DEF CohesCounted
<1>2. CASE DirReqError \/ DirReqBounce \/ DirReqRAR \/ DirReqPend
  BY <1>1, <1>2 DEF DirReqError, YS__errmsg, DirReqBounce, DirReqRAR, DirReqPend,
                    lineVars, countVars
<1>3. CASE DirReqGrant
  <2> PICK m \in REQ : m = Request
    BY <1>3, RequestType DEF DirReqGrant, Decides, ServeCohe
  <2> PICK l \in Lines : l = m.tag
    BY DEF REQ
  <2>1. extra[l] = NULL /\ extra \in [Lines -> DirEP \cup {NULL}]
    BY <1>3 DEF DirReqGrant, Decides, IInv, LineInv, LineTypeOK, PendIffExtra
  <2>2. extra' = [extra EXCEPT ![l] = NULL] /\ wait_cntsz' = wait_cntsz
    BY <1>3 DEF DirReqGrant
  <2>3. UNCHANGED <<extra, wait_cntsz>>
    BY <2>1, <2>2
  <2> QED BY <1>1, <2>3
<1>4. CASE DirReqWaitForWRB \/ DirReqInval \/ DirReqForward
  <2> PICK m \in REQ : m = Request
    BY <1>4, RequestType DEF DirReqWaitForWRB, DirReqInval, DirReqForward, Decides, ServeCohe
  <2> PICK l \in Lines : l = m.tag
    BY DEF REQ
  <2>1. /\ ~pend[l] /\ pend' = [pend EXCEPT ![l] = TRUE] /\ wait_cntsz' = wait_cntsz + 1
        /\ \E e : extra' = [extra EXCEPT ![l] = e]
    BY <1>4 DEF DirReqWaitForWRB, DirReqInval, DirReqForward, Decides, REQ
  <2>2. /\ extra[l] = NULL /\ extra'[l] # NULL
        /\ \A k \in Lines \ {l} : extra'[k] = extra[k]
    BY <2>1 DEF IInv, LineInv, LineTypeOK, PendIffExtra
  <2> QED
    BY <2>1, <2>2, OneStarts, BusyFinite DEF CohesCounted, IInv, CountInv, CountTypeOK
<1> QED BY <1>2, <1>3, <1>4 DEF DirReq

(* The end of a transaction takes away one count at most.                  *)
LEMMA CountedSettle ==
  ASSUME IInv, CohesCounted, NEW l \in Lines, extra[l] # NULL, Settle(l),
         wait_cntsz' \in {wait_cntsz, wait_cntsz - 1}
  PROVE  CohesCounted'
<1>1. extra'[l] = NULL /\ \A k \in Lines \ {l} : extra'[k] = extra[k]
  BY DEF Settle, IInv, LineInv, LineTypeOK
<1> QED BY <1>1, OneEnds, BusyFinite DEF CohesCounted, IInv, CountInv, CountTypeOK

(* DIRCOHEREP takes away no more than the transaction it ends.             *)
LEMMA CountedCoheRep ==
  ASSUME IInv, IInv', CohesCounted, DirCoheRep PROVE CohesCounted'
<1>1. CASE DirCoheRepError
  BY <1>1, NothingStartsOrEnds DEF DirCoheRepError, YS__errmsg, lineVars, countVars, CohesCounted
<1>2. CASE ~DirCoheRepError
  <2>1. PICK class : Answers(class)
    BY <1>2 DEF DirCoheRep, DirNackRace, DirNackRetry, DirNackPendResend, DirAck,
                DirAckReply, DirAckForward
  <2> PICK m \in REQ, l \in Lines :
        m = Answer /\ l = m.tag /\ LineOK(l) /\ extra[l] # NULL
    BY <2>1, AnswerLine
  <2>2. CASE DirNackRace \/ DirNackRetry \/ DirAckReply \/ DirAckForward
    <3>1. Settle(l) /\ wait_cntsz' \in {wait_cntsz, wait_cntsz - 1}
      BY <2>2 DEF DirNackRace, DirNackRetry, DirAckReply, DirAckForward, countVars
    <3> QED BY <3>1, CountedSettle
  <2>3. CASE DirNackPendResend
    BY <2>3, NothingStartsOrEnds DEF DirNackPendResend, lineVars, CohesCounted
  <2>4. CASE DirAck
    <3>1. UNCHANGED <<pend, wait_cntsz>>
      BY <2>4 DEF DirAck, countVars
    <3>2. \A k \in Lines : extra'[k] # NULL <=> extra[k] # NULL
      BY <3>1 DEF IInv, LineInv, PendIffExtra
    <3> QED BY <3>1, <3>2, NothingStartsOrEnds DEF CohesCounted
  <2> QED BY <1>2, <2>2, <2>3, <2>4 DEF DirCoheRep
<1> QED BY <1>1, <1>2

(* DIRWRB takes away no more than the transaction it ends.                 *)
LEMMA CountedWrb ==
  ASSUME IInv, IInv', CohesCounted, DirWrb PROVE CohesCounted'
<1>1. CASE DirWrbRevive
  <2> PICK m \in REQ : m = Answer
    BY <1>1, AnswerType DEF DirWrbRevive, WriteBack
  <2> PICK l \in Lines : l = m.tag
    BY DEF REQ
  <2>1. extra[l] # NULL /\ Settle(l) /\ wait_cntsz' = wait_cntsz - 1
    BY <1>1 DEF DirWrbRevive, Expected
  <2> QED BY <2>1, CountedSettle
<1>2. CASE DirWrbError \/ DirWrbWasHere \/ DirWrbPlain
  <2>1. wait_cntsz' = wait_cntsz /\ (UNCHANGED pend \/ UNCHANGED extra)
    BY <1>2 DEF DirWrbError, YS__errmsg, DirWrbWasHere, DirWrbPlain, lineVars, countVars
  <2>2. \A k \in Lines : extra'[k] # NULL <=> extra[k] # NULL
    BY <2>1 DEF IInv, LineInv, PendIffExtra
  <2> QED BY <2>1, <2>2, NothingStartsOrEnds DEF CohesCounted
<1> QED BY <1>1, <1>2 DEF DirWrb

(* No answer takes wait_cntsz below the number of transactions in flight.  *)
THEOREM NoUndercount == DirSpec => []CohesCounted
<1>1. DirInit => CohesCounted
  <2> SUFFICES ASSUME DirInit PROVE CohesCounted
    OBVIOUS
  <2>1. Busy = {}
    BY DEF DirInit, FreshLines, Busy
  <2> QED BY <2>1, BusyFinite, FS_EmptySet DEF DirInit, CohesCounted
<1>2. IInv /\ IInv' /\ CohesCounted /\ [DirNext]_dirVars => CohesCounted'
  <2> SUFFICES ASSUME IInv, IInv', CohesCounted, [DirNext]_dirVars PROVE CohesCounted'
    OBVIOUS
  <2>1. CASE UNCHANGED <<extra, wait_cntsz>>
    BY <2>1, NothingStartsOrEnds DEF CohesCounted
  <2>2. CASE DirStart
    BY <2>1, <2>2 DEF DirStart, DirActivate, DirOutbound, DirPick, DirNextPort,
                      lineVars, countVars
  <2>3. CASE DirSend
    <3>1. wait_cntsz' = wait_cntsz /\ UNCHANGED pend
      BY <2>3 DEF DirSend, DirSendCoheNull, YS__errmsg, DirSendForward, DirSendInval,
                  lineVars, countVars
    <3>2. \A k \in Lines : extra'[k] # NULL <=> extra[k] # NULL
      BY <3>1 DEF IInv, LineInv, PendIffExtra
    <3> QED BY <3>1, <3>2, NothingStartsOrEnds DEF CohesCounted
  <2>4. CASE Environment
    BY <2>1, <2>4, EnvironmentFrame DEF lineVars, countVars
  <2>5. CASE UNCHANGED dirVars
    BY <2>1, <2>5 DEF dirVars, lineVars, countVars
  <2> QED
    BY <2>2, <2>3, <2>4, <2>5, CountedReq, CountedCoheRep, CountedWrb DEF DirNext, DirStep
<1> QED BY Invariance, <1>1, <1>2, PTL DEF DirSpec
-----------------------------------------------------------------------------
(***************************************************************************)
(* The directory's buffers (DIRBUF) are accounted for: each one in use is  *)
(* a request that is ready, one that is parked behind a transaction, one   *)
(* whose transaction is in flight, or a reply that waits for room.  Added  *)
(* to IInv the equation is inductive; each case of DirSim moves a buffer   *)
(* from one kind to another, takes one or gives one back.                  *)
(***************************************************************************)
(* Replies counts finitely many places.                                    *)
LEMMA RepliesFinite ==
  ASSUME NEW q \in Seq(REQ)
  PROVE  IsFiniteSet(Replies(q)) /\ Cardinality(Replies(q)) \in Nat
<1>1. Len(q) \in Nat /\ Replies(q) \in SUBSET (1..Len(q))
  BY DEF Replies
<1>2. IsFiniteSet(1..Len(q))
  BY <1>1, FS_Interval
<1>3. IsFiniteSet(Replies(q))
  BY <1>1, <1>2, FS_Subset
<1> QED BY <1>3, FS_CardinalityType

(* A message put at the end of a queue is counted if it is a reply.        *)
LEMMA RepliesAppend ==
  ASSUME NEW q \in Seq(REQ), NEW m \in REQ
  PROVE  Cardinality(Replies(Append(q, m)))
           = Cardinality(Replies(q)) + (IF m.type = "REPLY" THEN 1 ELSE 0)
<1>1. Replies(Append(q, m)) = IF m.type = "REPLY" THEN Replies(q) \cup {Len(q) + 1}
                                                  ELSE Replies(q)
  BY DEF Replies
<1>2. Len(q) + 1 \notin Replies(q)
  BY DEF Replies
<1>3. IsFiniteSet(Replies(q)) /\ Cardinality(Replies(q)) \in Nat
  BY RepliesFinite
<1>4. Cardinality(Replies(q) \cup {Len(q) + 1}) = Cardinality(Replies(q)) + 1
  BY <1>2, <1>3, FS_AddElement
<1> QED BY <1>1, <1>3, <1>4

(* A message taken from the head of a queue was counted if it is a reply.  *)
LEMMA RepliesTail ==
  ASSUME NEW q \in Seq(REQ), q # <<>>
  PROVE  Cardinality(Replies(Tail(q)))
           = Cardinality(Replies(q)) - (IF Head(q).type = "REPLY" THEN 1 ELSE 0)
<1> DEFINE S == Replies(Tail(q))
           T == Replies(q) \ {1}
           up == [i \in S |-> i + 1]
<1>1. Tail(q) \in Seq(REQ) /\ Len(q) \in Nat \ {0} /\ Len(Tail(q)) = Len(q) - 1
  OBVIOUS
<1>2. \A i \in 1..Len(Tail(q)) : Tail(q)[i] = q[i + 1]
  OBVIOUS
<1>3. \A i \in S : i + 1 \in T
  BY <1>1, <1>2 DEF Replies
<1>4. \A j \in T : j - 1 \in S /\ up[j - 1] = j
  <2> SUFFICES ASSUME NEW j \in T PROVE j - 1 \in S /\ up[j - 1] = j
    OBVIOUS
  <2>1. j - 1 \in 1..Len(Tail(q)) /\ (j - 1) + 1 = j /\ q[j].type = "REPLY"
    BY <1>1 DEF Replies
  <2>2. Tail(q)[j - 1] = q[j]
    BY <2>1, <1>2
  <2> QED BY <2>1, <2>2 DEF Replies
<1>5. up \in Bijection(S, T)
  <2>1. up \in [S -> T]
    BY <1>3
  <2>2. \A i, j \in S : up[i] = up[j] => i = j
    BY DEF Replies
  <2> HIDE DEF up, S, T
  <2>3. \A j \in T : \E i \in S : up[i] = j
    BY <1>4
  <2> QED BY <2>1, <2>2, <2>3 DEF Bijection, Injection, IsInjective, Surjection
<1>6. IsFiniteSet(S) /\ IsFiniteSet(Replies(q)) /\ Cardinality(Replies(q)) \in Nat
  BY <1>1, RepliesFinite
<1>7. Cardinality(T) = Cardinality(S)
  <2> HIDE DEF up, S, T
  <2> QED BY <1>5, <1>6, FS_Bijection DEF ExistsBijection
<1>8. 1 \in Replies(q) <=> Head(q).type = "REPLY"
  BY <1>1 DEF Replies
<1>9. Cardinality(T) = IF 1 \in Replies(q) THEN Cardinality(Replies(q)) - 1
                                           ELSE Cardinality(Replies(q))
  BY <1>6, FS_RemoveElement
<1> QED BY <1>6, <1>7, <1>8, <1>9

(* A request joins the queue of its line.                                  *)
LEMMA OneMoreParked ==
  ASSUME BufPend \in [Lines -> Seq(REQ)], IsFiniteSet(Parked),
         NEW l \in Lines, NEW m \in REQ,
         BufPend' = [BufPend EXCEPT ![l] = Append(@, m)]
  PROVE  IsFiniteSet(Parked)' /\ Cardinality(Parked') = Cardinality(Parked) + 1
<1> DEFINE x == <<l, Len(BufPend[l]) + 1>>
<1>1. \A k \in Lines : Len(BufPend[k]) \in Nat
  OBVIOUS
<1>2. \A k \in Lines : Len(BufPend'[k]) = IF k = l THEN Len(BufPend[k]) + 1 ELSE Len(BufPend[k])
  OBVIOUS
<1>3. \A k \in Lines : 1..Len(BufPend'[k])
                      = IF k = l THEN (1..Len(BufPend[k])) \cup {Len(BufPend[k]) + 1}
                                 ELSE 1..Len(BufPend[k])
  <2>1. \A n \in Nat : 1..(n + 1) = (1..n) \cup {n + 1}
    OBVIOUS
  <2> QED BY <1>1, <1>2, <2>1
<1>4. Parked' = Parked \cup {x}
  BY <1>3 DEF Parked
<1>5. x \notin Parked
  BY <1>1 DEF Parked
<1> QED BY <1>4, <1>5, FS_AddElement, FS_CardinalityType

(* The whole queue of a line becomes ready.                                *)
LEMMA LineReleased ==
  ASSUME BufPend \in [Lines -> Seq(REQ)], IsFiniteSet(Parked), NEW l \in Lines,
         BufPend' = [BufPend EXCEPT ![l] = <<>>]
  PROVE  /\ IsFiniteSet(Parked)'
         /\ Cardinality(Parked) = Cardinality(Parked') + Len(BufPend[l])
<1> DEFINE row == {l} \X (1..Len(BufPend[l]))
<1>1. Len(BufPend[l]) \in Nat
  OBVIOUS
<1>2. \A n \in Nat : IsFiniteSet(1..n) /\ Cardinality(1..n) = n
  BY FS_Interval
<1>3. IsFiniteSet(row) /\ Cardinality(row) = Len(BufPend[l])
  <2> DEFINE places == 1..Len(BufPend[l])
             one == {l}
  <2>1. IsFiniteSet(places) /\ Cardinality(places) = Len(BufPend[l])
    BY <1>1, <1>2
  <2>2. IsFiniteSet(one) /\ Cardinality(one) = 1
    BY FS_Singleton
  <2> HIDE DEF places, one
  <2>3. IsFiniteSet(one \X places) /\ Cardinality(one \X places) = 1 * Len(BufPend[l])
    BY <2>1, <2>2, FS_Product
  <2> QED BY <1>1, <2>3 DEF places, one
<1>4. \A k \in Lines : 1..Len(BufPend'[k]) = IF k = l THEN {} ELSE 1..Len(BufPend[k])
  OBVIOUS
<1>5. Parked = Parked' \cup row /\ Parked' \cap row = {}
  BY <1>4 DEF Parked
<1> HIDE DEF row
<1>6. IsFiniteSet(Parked)' /\ Cardinality(Parked') \in Nat
  <2>1. Parked' \in SUBSET Parked
    BY <1>5
  <2> QED BY <2>1, FS_Subset, FS_CardinalityType
<1>7. Cardinality(Parked) = Cardinality(Parked') + Cardinality(row) - Cardinality(Parked' \cap row)
  BY <1>3, <1>5, <1>6, FS_Union
<1>8. Cardinality(Parked' \cap row) = 0
  BY <1>5, FS_EmptySet
<1> QED BY <1>1, <1>3, <1>6, <1>7, <1>8

-----------------------------------------------------------------------------
(* The equation, with what lets its terms be counted.                      *)
BufInv == IsFiniteSet(Parked) /\ BufAccounting

(* The terms are numbers.                                                  *)
LEMMA Terms ==
  ASSUME IInv, BufInv
  PROVE  /\ Len(ReadyReqs) \in Nat /\ Cardinality(Parked) \in Nat /\ InFlight \in Nat
         /\ Cardinality(Replies(OutboundReqs)) \in Nat
         /\ buftotsz = Len(ReadyReqs) + Cardinality(Parked) + InFlight
                       + Cardinality(Replies(OutboundReqs))
         /\ BufPend \in [Lines -> Seq(REQ)] /\ ReadyReqs \in Seq(REQ)
         /\ OutboundReqs \in Seq(REQ)
<1>1. BufPend \in [Lines -> Seq(REQ)] /\ ReadyReqs \in Seq(REQ) /\ OutboundReqs \in Seq(REQ)
  BY DEF IInv, QueueInv, QueueTypeOK
<1>2. Cardinality(Replies(OutboundReqs)) \in Nat /\ Len(ReadyReqs) \in Nat
  BY <1>1, RepliesFinite
<1>3. Cardinality(Parked) \in Nat
  BY FS_CardinalityType DEF BufInv
<1> QED BY <1>1, <1>2, <1>3, BusyFinite DEF BufInv, BufAccounting

(* No buffer moves.                                                        *)
LEMMA NoBufferMoves ==
  ASSUME BufInv, UNCHANGED <<buftotsz, BufPend, OutboundReqs>>,
         Len(ReadyReqs') = Len(ReadyReqs),
         \A l \in Lines : extra'[l] # NULL <=> extra[l] # NULL
  PROVE  BufInv'
<1>1. Parked' = Parked /\ InFlight' = InFlight
  BY NothingStartsOrEnds DEF Parked
<1> QED BY <1>1 DEF BufInv, BufAccounting

(* A request that is committed leaves ReadyReqs if it was pending there.   *)
LEMMA CommitLength ==
  ASSUME IInv, ServeReq, CommitReq
  PROVE  /\ Len(ReadyReqs') = IF wasPending THEN Len(ReadyReqs) - 1 ELSE Len(ReadyReqs)
         /\ Len(ReadyReqs) \in Nat
<1>1. ReadyReqs \in Seq(REQ) /\ (wasPending => ReadyReqs # <<>>)
  BY DEF IInv, QueueInv, QueueTypeOK, CtlInv, PickedThere, ServeReq, wasPending
<1> QED BY <1>1 DEF CommitReq

(* It then holds the buffer it had, or a new one.                          *)
LEMMA CommitHolds ==
  ASSUME IInv, ServeReq, CommitReq, HoldBuffer
  PROVE  /\ Len(ReadyReqs') \in Int
         /\ buftotsz' = buftotsz + 1 + Len(ReadyReqs') - Len(ReadyReqs)
<1>1. Len(ReadyReqs) \in Nat /\ buftotsz \in Int
  BY CommitLength DEF IInv, CountInv, CountTypeOK
<1>2. CASE wasPending
  BY <1>1, <1>2, CommitLength DEF HoldBuffer
<1>3. CASE ~wasPending
  BY <1>1, <1>3, CommitLength DEF HoldBuffer
<1> QED BY <1>2, <1>3

(* A request that is left stays where it is.                               *)
LEMMA LeaveLength ==
  ASSUME IInv, ServeReq, NEW m \in REQ, LeaveReq(m)
  PROVE  Len(ReadyReqs') = Len(ReadyReqs)
<1>1. ReadyReqs \in Seq(REQ) /\ (wasPending => ReadyReqs # <<>>)
  BY DEF IInv, QueueInv, QueueTypeOK, CtlInv, PickedThere, ServeReq, wasPending
<1> QED BY <1>1 DEF LeaveReq

(* DIROUTBOUND: a reply that leaves gives its buffer back, a message that  *)
(* is put behind the others keeps it.                                      *)
LEMMA BufOutbound ==
  ASSUME IInv, BufInv, DirOutbound PROVE BufInv'
<1> DEFINE q == OutboundReqs
           m == Head(OutboundReqs)
           n == IF m.type = "REPLY" THEN 1 ELSE 0
<1>1. q # <<>>
  BY DEF DirOutbound, OutboundDone
<1>2. m \in REQ /\ Tail(q) \in Seq(REQ) /\ n \in {0, 1}
  BY <1>1, Terms, SeqFacts
<1>3. Cardinality(Replies(Tail(q))) = Cardinality(Replies(q)) - n
  BY <1>1, Terms, RepliesTail
<1>4. Cardinality(Replies(Append(Tail(q), m))) = Cardinality(Replies(Tail(q))) + n
  BY <1>2, RepliesAppend
<1>5. Parked' = Parked /\ InFlight' = InFlight /\ ReadyReqs' = ReadyReqs
  BY NothingStartsOrEnds DEF DirOutbound, lineVars, Parked
<1>6. \/ OutboundReqs' = Append(Tail(q), m) /\ buftotsz' = buftotsz
      \/ OutboundReqs' = Tail(q) /\ buftotsz' = buftotsz - n
  <2>1. buftotsz \in Int
    BY DEF IInv, CountInv, CountTypeOK
  <2> QED BY <2>1 DEF DirOutbound
<1> HIDE DEF n, m, q
<1>7. buftotsz = Len(ReadyReqs) + Cardinality(Parked) + InFlight + Cardinality(Replies(q))
      /\ Len(ReadyReqs) \in Nat /\ Cardinality(Parked) \in Nat /\ InFlight \in Nat
      /\ Cardinality(Replies(q)) \in Nat
  BY Terms DEF q
<1>8. buftotsz' = Len(ReadyReqs') + Cardinality(Parked') + InFlight'
                  + Cardinality(Replies(OutboundReqs'))
  <2>1. CASE OutboundReqs' = Append(Tail(q), m) /\ buftotsz' = buftotsz
    <3>1. Cardinality(Replies(OutboundReqs')) = Cardinality(Replies(q))
      BY <1>2, <1>3, <1>4, <1>7, <2>1
    <3> QED BY <1>5, <1>7, <2>1, <3>1
  <2>2. CASE OutboundReqs' = Tail(q) /\ buftotsz' = buftotsz - n
    BY <1>2, <1>3, <1>5, <1>7, <2>2
  <2> QED BY <1>6, <2>1, <2>2
<1> QED BY <1>5, <1>8 DEF BufInv, BufAccounting

(* DIRREQ: a request that is parked or starts a transaction holds one      *)
(* buffer; one that is granted gives back the buffer it had, if any.       *)
LEMMA BufReq ==
  ASSUME IInv, IInv', BufInv, DirReq PROVE BufInv'
<1>1. CASE DirReqError
  BY <1>1, NoBufferMoves DEF DirReqError, YS__errmsg, lineVars, countVars, queueVars
<1>2. CASE ~DirReqError
  <2> PICK m \in REQ : m = Request
    BY <1>2, RequestType DEF DirReq, DirReqBounce, DirReqRAR, DirReqPend, DirReqGrant,
       DirReqWaitForWRB, DirReqInval, DirReqForward, Decides, ServeCohe
  <2> PICK l \in Lines : l = m.tag
    BY DEF REQ
  <2>1. CASE DirReqBounce \/ DirReqRAR
    <3>1. ~wasPending
      <4>1. CASE DirReqBounce
        BY <4>1 DEF DirReqBounce, ReqError
      <4>2. CASE DirReqRAR
        <5>1. ~HaveBuffer
          BY <4>2 DEF DirReqRAR
        <5>2. buftotsz <= BufMax /\ buftotsz \in Int
          BY DEF IInv, CountInv, CountTypeOK, BufBound
        <5>3. ~wasPending \/ HaveBuffer
          BY <5>2, SizeAssumption DEF HaveBuffer
        <5> QED BY <5>1, <5>3
      <4> QED BY <2>1, <4>1, <4>2
    <3>2. ReadyReqs' = ReadyReqs
      BY <2>1, <3>1 DEF DirReqBounce, DirReqRAR, CommitReq
    <3> QED BY <2>1, <3>2, NoBufferMoves DEF DirReqBounce, DirReqRAR, lineVars, countVars
  <2>2. CASE DirReqPend
    <3>1. /\ ServeReq /\ CommitReq /\ HoldBuffer
          /\ BufPend' = [BufPend EXCEPT ![l] = Append(@, m)]
          /\ UNCHANGED <<OutboundReqs, extra>>
      BY <2>2 DEF DirReqPend, ServeCohe, lineVars
    <3>2. IsFiniteSet(Parked)' /\ Cardinality(Parked') = Cardinality(Parked) + 1
      BY <3>1, OneMoreParked, Terms DEF BufInv
    <3>3. InFlight' = InFlight
      BY <3>1, NothingStartsOrEnds
    <3>4. buftotsz' = Len(ReadyReqs') + Cardinality(Parked') + InFlight'
                      + Cardinality(Replies(OutboundReqs'))
      BY <3>1, <3>2, <3>3, CommitHolds, Terms
    <3> QED BY <3>2, <3>4 DEF BufInv, BufAccounting
  <2>3. CASE DirReqGrant
    <3> DEFINE r == [m EXCEPT !.req_type = GrantType(m)]
    <3>1. r \in REQ
      BY GrantTypeOK DEF REQ, DataTypes
    <3>2. /\ ServeReq /\ UNCHANGED <<BufPend, OutboundReqs>>
          /\ extra[l] = NULL /\ extra' = [extra EXCEPT ![l] = NULL]
      BY <2>3 DEF DirReqGrant, Decides, ServeCohe, IInv, LineInv, PendIffExtra
    <3>3. InFlight' = InFlight
      BY <3>2, NothingStartsOrEnds DEF IInv, LineInv, LineTypeOK
    <3>4. \/ LeaveReq(r) /\ buftotsz' = buftotsz
          \/ CommitReq /\ buftotsz' = IF wasPending THEN buftotsz - 1 ELSE buftotsz
      BY <2>3 DEF DirReqGrant
    <3> HIDE DEF r
    <3>5. Parked' = Parked
      BY <3>2 DEF Parked
    <3>6. buftotsz' = Len(ReadyReqs') + Cardinality(Parked') + InFlight'
                      + Cardinality(Replies(OutboundReqs'))
      BY <3>1, <3>2, <3>3, <3>4, <3>5, CommitLength, LeaveLength, Terms
    <3> QED BY <3>5, <3>6 DEF BufInv, BufAccounting
  <2>4. CASE DirReqWaitForWRB \/ DirReqInval \/ DirReqForward
    <3>1. /\ ServeReq /\ CommitReq /\ HoldBuffer /\ UNCHANGED <<BufPend, OutboundReqs>>
          /\ ~pend[l] /\ pend' = [pend EXCEPT ![l] = TRUE]
          /\ \E e : extra' = [extra EXCEPT ![l] = e]
      BY <2>4 DEF DirReqWaitForWRB, DirReqInval, DirReqForward, Decides, ServeCohe, REQ
    <3>2. /\ extra[l] = NULL /\ extra'[l] # NULL
          /\ \A k \in Lines \ {l} : extra'[k] = extra[k]
      BY <3>1 DEF IInv, LineInv, LineTypeOK, PendIffExtra
    <3>3. InFlight' = InFlight + 1 /\ Parked' = Parked
      BY <3>1, <3>2, OneStarts DEF Parked
    <3>4. buftotsz' = Len(ReadyReqs') + Cardinality(Parked') + InFlight'
                      + Cardinality(Replies(OutboundReqs'))
      BY <3>1, <3>3, CommitHolds, Terms
    <3> QED BY <3>3, <3>4 DEF BufInv, BufAccounting
  <2> QED BY <1>2, <2>1, <2>2, <2>3, <2>4 DEF DirReq
<1> QED BY <1>1, <1>2

(* The end of a transaction: what was parked behind it is ready, with the  *)
(* requests that are revived.                                              *)
LEMMA BufSettle ==
  ASSUME IInv, BufInv, NEW l \in Lines, extra[l] # NULL, Settle(l),
         NEW first \in Seq(REQ), DirCheckBuf(l, first)
  PROVE  /\ IsFiniteSet(Parked)'
         /\ Len(ReadyReqs') + Cardinality(Parked') + InFlight'
              = Len(ReadyReqs) + Cardinality(Parked) + InFlight + Len(first) - 1
         /\ Len(ReadyReqs') \in Nat /\ Cardinality(Parked') \in Nat /\ InFlight' \in Nat
<1> PICK line \in Seq(REQ) : line = BufPend[l]
  BY Terms
<1> PICK ready \in Seq(REQ) : ready = ReadyReqs
  BY Terms
<1>1. extra'[l] = NULL /\ \A k \in Lines \ {l} : extra'[k] = extra[k]
  BY DEF Settle, IInv, LineInv, LineTypeOK
<1>2. InFlight' = InFlight - 1 /\ InFlight' \in Nat /\ InFlight \in Nat
  BY <1>1, OneEnds, BusyFinite
<1>3. IsFiniteSet(Parked)' /\ Cardinality(Parked) = Cardinality(Parked') + Len(line)
  <2>1. /\ BufPend \in [Lines -> Seq(REQ)] /\ IsFiniteSet(Parked)
        /\ BufPend' = [BufPend EXCEPT ![l] = <<>>]
    BY Terms DEF BufInv, DirCheckBuf
  <2> QED BY <2>1, LineReleased, Zenon
<1>4. Cardinality(Parked') \in Nat /\ Cardinality(Parked) \in Nat
  BY <1>3, Terms, FS_CardinalityType
<1>5. \E all \in Seq(REQ) : all = ReadyReqs' /\ Len(all) = Len(ready) + Len(first) + Len(line)
  <2>1. ReadyReqs' = (ready \o first) \o line
    BY DEF DirCheckBuf
  <2>2. /\ (ready \o first) \o line \in Seq(REQ)
        /\ Len((ready \o first) \o line) = Len(ready) + Len(first) + Len(line)
    <3>0. ready \o first \in Seq(REQ) /\ Len(ready \o first) = Len(ready) + Len(first)
      OBVIOUS
    <3>1. PICK both \in Seq(REQ) : both = ready \o first /\ Len(both) = Len(ready) + Len(first)
      BY <3>0, Zenon
    <3>2. both \o line \in Seq(REQ) /\ Len(both \o line) = Len(both) + Len(line)
      OBVIOUS
    <3> QED BY <3>1, <3>2
  <2> QED BY <2>1, <2>2, Zenon
<1>6. PICK all \in Seq(REQ) :
           all = ReadyReqs' /\ Len(all) = Len(ready) + Len(first) + Len(line)
  BY <1>5
<1>7. \A q \in Seq(REQ) : \E n \in Nat : n = Len(q)
  OBVIOUS
<1>8. \A x \in Nat : \E n \in Nat : n = x
  OBVIOUS
<1>9. /\ Len(ReadyReqs') + Cardinality(Parked') + InFlight'
           = Len(ReadyReqs) + Cardinality(Parked) + InFlight + Len(first) - 1
      /\ Len(ReadyReqs') \in Nat
  <2>1. PICK a \in Nat : a = Len(all)      BY <1>7, Zenon
  <2>2. PICK r \in Nat : r = Len(ready)    BY <1>7, Zenon
  <2>3. PICK f \in Nat : f = Len(first)    BY <1>7, Zenon
  <2>4. PICK n \in Nat : n = Len(line)     BY <1>7, Zenon
  <2>5. PICK p0 \in Nat : p0 = Cardinality(Parked)     BY <1>4, <1>8, Zenon
  <2>6. PICK p1 \in Nat : p1 = Cardinality(Parked')    BY <1>4, <1>8, Zenon
  <2>7. PICK i0 \in Nat : i0 = InFlight     BY <1>2, <1>8, Zenon
  <2>8. PICK i1 \in Nat : i1 = InFlight'    BY <1>2, <1>8, Zenon
  <2>9. a = r + f + n /\ p0 = p1 + n /\ i1 = i0 - 1
    BY <1>2, <1>3, <1>6, <2>1, <2>2, <2>3, <2>4, <2>5, <2>6, <2>7, <2>8, Zenon
  <2>10. a + p1 + i1 = r + p0 + i0 + f - 1
    BY <2>9
  <2> QED BY <1>6, <2>1, <2>2, <2>3, <2>5, <2>6, <2>7, <2>8, <2>10, Zenon
<1> QED BY <1>2, <1>3, <1>4, <1>9, Zenon

(* SendOrQueue: a reply gives its buffer back or is counted as waiting.    *)
LEMMA SendBalance ==
  ASSUME IInv, BufInv, NEW m \in REQ, SendOrQueue(m)
  PROVE  /\ buftotsz' - Cardinality(Replies(OutboundReqs'))
              = buftotsz - Cardinality(Replies(OutboundReqs))
                - (IF m.type = "REPLY" THEN 1 ELSE 0)
         /\ buftotsz' \in Int /\ Cardinality(Replies(OutboundReqs')) \in Nat
<1>1. buftotsz \in Int /\ OutboundReqs \in Seq(REQ) /\ Cardinality(Replies(OutboundReqs)) \in Nat
  BY Terms DEF IInv, CountInv, CountTypeOK
<1>2. CASE PortFull(m)
  <2>1. OutboundReqs' = Append(OutboundReqs, m) /\ buftotsz' = buftotsz
    BY <1>2 DEF SendOrQueue
  <2> QED BY <1>1, <2>1, RepliesAppend
<1>3. CASE ~PortFull(m)
  <2>1. /\ OutboundReqs' = OutboundReqs
        /\ buftotsz' = IF m.type = "REPLY" THEN buftotsz - 1 ELSE buftotsz
    BY <1>3 DEF SendOrQueue
  <2> QED BY <1>1, <2>1
<1> QED BY <1>2, <1>3

(* A transaction that ends with nobody to revive.                          *)
LEMMA BufSettleEmpty ==
  ASSUME IInv, BufInv, NEW l \in Lines, extra[l] # NULL, Settle(l), DirCheckBuf(l, <<>>)
  PROVE  /\ IsFiniteSet(Parked)'
         /\ Len(ReadyReqs') + Cardinality(Parked') + InFlight'
              = Len(ReadyReqs) + Cardinality(Parked) + InFlight - 1
         /\ Len(ReadyReqs') \in Nat /\ Cardinality(Parked') \in Nat /\ InFlight' \in Nat
<1> PICK first \in Seq(REQ) : first = <<>> /\ Len(first) = 0
  BY EmptySeq
<1>1. /\ IsFiniteSet(Parked)'
      /\ Len(ReadyReqs') + Cardinality(Parked') + InFlight'
           = Len(ReadyReqs) + Cardinality(Parked) + InFlight + Len(first) - 1
      /\ Len(ReadyReqs') \in Nat /\ Cardinality(Parked') \in Nat /\ InFlight' \in Nat
  BY BufSettle
<1>2. Len(ReadyReqs) \in Nat /\ Cardinality(Parked) \in Nat /\ InFlight \in Nat
  BY Terms
<1> QED BY <1>1, <1>2

(* A transaction that ends with a reply.                                   *)
LEMMA BufSettleReply ==
  ASSUME IInv, BufInv, NEW l \in Lines, extra[l] # NULL, Settle(l), DirCheckBuf(l, <<>>),
         NEW r \in REQ, r.type = "REPLY", SendOrQueue(r)
  PROVE  BufInv'
<1>1. /\ buftotsz' - Cardinality(Replies(OutboundReqs'))
           = buftotsz - Cardinality(Replies(OutboundReqs)) - 1
      /\ buftotsz' \in Int /\ Cardinality(Replies(OutboundReqs')) \in Nat
  BY SendBalance
<1>2. /\ IsFiniteSet(Parked)'
      /\ Len(ReadyReqs') + Cardinality(Parked') + InFlight'
           = Len(ReadyReqs) + Cardinality(Parked) + InFlight - 1
      /\ Len(ReadyReqs') \in Nat /\ Cardinality(Parked') \in Nat /\ InFlight' \in Nat
  BY BufSettleEmpty
<1>3. /\ buftotsz \in Int /\ Cardinality(Replies(OutboundReqs)) \in Nat
      /\ Len(ReadyReqs) \in Nat /\ Cardinality(Parked) \in Nat /\ InFlight \in Nat
      /\ buftotsz = Len(ReadyReqs) + Cardinality(Parked) + InFlight
                    + Cardinality(Replies(OutboundReqs))
  BY Terms DEF IInv, CountInv, CountTypeOK
<1>4. \A x \in Nat : \E n \in Nat : n = x
  OBVIOUS
<1>5. PICK r0 \in Nat : r0 = Len(ReadyReqs)    BY <1>3, <1>4, Zenon
<1>6. PICK r1 \in Nat : r1 = Len(ReadyReqs')   BY <1>2, <1>4, Zenon
<1>7. PICK p0 \in Nat : p0 = Cardinality(Parked)    BY <1>3, <1>4, Zenon
<1>8. PICK p1 \in Nat : p1 = Cardinality(Parked')   BY <1>2, <1>4, Zenon
<1>9. PICK q0 \in Nat : q0 = Cardinality(Replies(OutboundReqs))    BY <1>3, <1>4, Zenon
<1>10. PICK q1 \in Nat : q1 = Cardinality(Replies(OutboundReqs'))   BY <1>1, <1>4, Zenon
<1>11. PICK f0 \in Nat : f0 = InFlight    BY <1>3, <1>4, Zenon
<1>12. PICK f1 \in Nat : f1 = InFlight'   BY <1>2, <1>4, Zenon
<1>13. \A x \in Int : \E n \in Int : n = x
  OBVIOUS
<1>14. PICK b0 \in Int : b0 = buftotsz     BY <1>3, <1>13, Zenon
<1>15. PICK b1 \in Int : b1 = buftotsz'    BY <1>1, <1>13, Zenon
<1>16. b1 - q1 = b0 - q0 - 1 /\ r1 + p1 + f1 = r0 + p0 + f0 - 1 /\ b0 = r0 + p0 + f0 + q0
  BY <1>1, <1>2, <1>3, <1>5, <1>6, <1>7, <1>8, <1>9, <1>10, <1>11, <1>12, <1>14, <1>15, Zenon
<1>17. b1 = r1 + p1 + f1 + q1
  BY <1>16
<1>18. buftotsz' = Len(ReadyReqs') + Cardinality(Parked') + InFlight'
                  + Cardinality(Replies(OutboundReqs'))
  BY <1>17, <1>15, <1>6, <1>8, <1>10, <1>12, Zenon
<1> QED BY <1>2, <1>18 DEF BufInv, BufAccounting

(* A transaction that ends with its request revived.                       *)
LEMMA BufSettleRevive ==
  ASSUME IInv, BufInv, NEW l \in Lines, extra[l] # NULL, Settle(l),
         NEW r \in REQ, DirCheckBuf(l, <<r>>), UNCHANGED <<buftotsz, OutboundReqs>>
  PROVE  BufInv'
<1>a. <<r>> \in Seq(REQ) /\ Len(<<r>>) = 1
  OBVIOUS
<1> PICK first \in Seq(REQ) : first = <<r>> /\ Len(first) = 1
  BY <1>a
<1>1. /\ IsFiniteSet(Parked)'
      /\ Len(ReadyReqs') + Cardinality(Parked') + InFlight'
           = Len(ReadyReqs) + Cardinality(Parked) + InFlight + Len(first) - 1
      /\ Len(ReadyReqs') \in Nat /\ Cardinality(Parked') \in Nat /\ InFlight' \in Nat
  BY BufSettle
<1>2. /\ IsFiniteSet(Parked)'
      /\ Len(ReadyReqs') + Cardinality(Parked') + InFlight'
           = Len(ReadyReqs) + Cardinality(Parked) + InFlight
      /\ Len(ReadyReqs') \in Nat /\ Cardinality(Parked') \in Nat /\ InFlight' \in Nat
  BY <1>1, BufSettle, Terms
<1> QED BY <1>2, Terms DEF BufInv, BufAccounting

(* DIRCOHEREP: the buffer of a transaction that ends goes with the reply,  *)
(* or with the request that is revived, or is given back.                  *)
LEMMA BufCoheRep ==
  ASSUME IInv, IInv', BufInv, DirCoheRep PROVE BufInv'
<1>1. CASE DirCoheRepError
  BY <1>1, NoBufferMoves DEF DirCoheRepError, YS__errmsg, lineVars, countVars, queueVars
<1>2. CASE ~DirCoheRepError
  <2>1. PICK class : Answers(class)
    BY <1>2 DEF DirCoheRep, DirNackRace, DirNackRetry, DirNackPendResend, DirAck,
                DirAckReply, DirAckForward
  <2> PICK m \in REQ, l \in Lines :
        /\ m = Answer /\ l = m.tag /\ m.node \in Nodes
        /\ extra[l] # NULL /\ extra[l] \in DirEP
    BY <2>1, AnswerLine
  <2>2. CASE DirNackRace
    <3> DEFINE r == IF m.forward_to = NULL
                    THEN [m EXCEPT !.type = "REPLY", !.reply = "RAR"]
                    ELSE [m EXCEPT !.type = "REPLY", !.reply = "RAR",
                                   !.req_type = FixForwardRARs(m.req_type),
                                   !.nack_st = "NACK_OK",
                                   !.node = m.forward_to, !.forward_to = NULL]
    <3>1. r \in REQ /\ r.type = "REPLY"
      BY FixForwardRARsOK DEF REQ
    <3>2. Settle(l) /\ DirCheckBuf(l, <<>>) /\ SendOrQueue(r)
      BY <2>2 DEF DirNackRace
    <3> HIDE DEF r
    <3> QED BY <3>1, <3>2, BufSettleReply
  <2>3. CASE DirNackRetry
    <3> DEFINE r == [m EXCEPT !.type = "REQUEST", !.reply = "REPLY",
                              !.req_type = FixForwardRARs(m.req_type),
                              !.nack_st = "NACK_OK",
                              !.node = m.forward_to, !.forward_to = NULL]
    <3>1. m.forward_to # NULL
      BY <2>3 DEF DirNackRetry, Answers, AnswerError
    <3>2. r \in REQ
      BY <3>1, FixForwardRARsOK DEF REQ
    <3>3. Settle(l) /\ DirCheckBuf(l, <<r>>) /\ UNCHANGED <<buftotsz, OutboundReqs>>
      BY <2>3 DEF DirNackRetry, countVars
    <3> HIDE DEF r
    <3> QED BY <3>2, <3>3, BufSettleRevive
  <2>4. CASE DirAckForward
    <3>1. /\ Settle(l) /\ DirCheckBuf(l, <<>>) /\ buftotsz' = buftotsz - 1
          /\ OutboundReqs' = OutboundReqs
      BY <2>4 DEF DirAckForward
    <3>2. /\ IsFiniteSet(Parked)'
          /\ Len(ReadyReqs') + Cardinality(Parked') + InFlight'
               = Len(ReadyReqs) + Cardinality(Parked) + InFlight - 1
          /\ Len(ReadyReqs') \in Nat /\ Cardinality(Parked') \in Nat /\ InFlight' \in Nat
      BY <3>1, BufSettleEmpty
    <3> QED BY <3>1, <3>2, Terms DEF BufInv, BufAccounting
  <2>a. CASE DirAckReply
    <3> PICK q \in REQ : q = extra[l].pend_req
      BY DEF DirEP
    <3> PICK r \in REQ : r = [q EXCEPT !.type = "REPLY", !.reply = "REPLY"]
      BY ReplyType
    <3>1. r.type = "REPLY"
      BY DEF REQ
    <3>2. Settle(l) /\ DirCheckBuf(l, <<>>) /\ SendOrQueue(r)
      BY <2>a DEF DirAckReply
    <3> QED BY <3>1, <3>2, BufSettleReply
  <2>5. CASE DirNackPendResend
    <3> DEFINE r == [m EXCEPT !.type = "COHE"]
    <3>1. r \in REQ /\ r.type = "COHE"
      BY DEF REQ
    <3>2. SendOrQueue(r) /\ UNCHANGED <<extra, BufPend, ReadyReqs>>
      BY <2>5 DEF DirNackPendResend, lineVars
    <3> HIDE DEF r
    <3>3. Parked' = Parked /\ InFlight' = InFlight
      BY <3>2, NothingStartsOrEnds DEF Parked
    <3>4. /\ buftotsz' - Cardinality(Replies(OutboundReqs'))
               = buftotsz - Cardinality(Replies(OutboundReqs))
          /\ buftotsz' \in Int /\ Cardinality(Replies(OutboundReqs')) \in Nat
      <4>1. /\ buftotsz' - Cardinality(Replies(OutboundReqs'))
                 = buftotsz - Cardinality(Replies(OutboundReqs)) - 0
            /\ buftotsz' \in Int /\ Cardinality(Replies(OutboundReqs')) \in Nat
        BY <3>1, <3>2, SendBalance
      <4>2. buftotsz \in Int /\ Cardinality(Replies(OutboundReqs)) \in Nat
        BY Terms DEF IInv, CountInv, CountTypeOK
      <4> QED BY <4>1, <4>2
    <3> QED BY <3>2, <3>3, <3>4, Terms DEF BufInv, BufAccounting
  <2>6. CASE DirAck
    <3>1. UNCHANGED <<pend, countVars, queueVars>>
      BY <2>6 DEF DirAck
    <3>2. \A k \in Lines : extra'[k] # NULL <=> extra[k] # NULL
      BY <3>1 DEF IInv, LineInv, PendIffExtra
    <3> QED BY <3>1, <3>2, NoBufferMoves DEF countVars, queueVars
  <2> QED BY <1>2, <2>2, <2>3, <2>4, <2>5, <2>6, <2>a DEF DirCoheRep
<1> QED BY <1>1, <1>2

(* DIRWRB: a request that waited for the write-back keeps its buffer; a    *)
(* line without a transaction has nothing parked.                          *)
LEMMA BufWrb ==
  ASSUME IInv, IInv', BufInv, DirWrb PROVE BufInv'
<1>1. CASE DirWrbError
  BY <1>1, NoBufferMoves DEF DirWrbError, YS__errmsg, lineVars, countVars, queueVars
<1>2. CASE ~DirWrbError
  <2>1. WriteBack /\ UNCHANGED <<buftotsz, OutboundReqs>>
    BY <1>2 DEF DirWrb, DirWrbRevive, DirWrbWasHere, DirWrbPlain, WriteBack
  <2> PICK m \in REQ : m = Answer
    BY <2>1, AnswerType DEF WriteBack
  <2> PICK l \in Lines : l = m.tag
    BY DEF REQ
  <2>2. CASE DirWrbRevive
    <3>1. extra[l] # NULL /\ Settle(l) /\ DirCheckBuf(l, <<extra[l].pend_req>>)
      BY <2>2 DEF DirWrbRevive, Expected
    <3>2. extra[l].pend_req \in REQ
      <4>1. extra[l] \in DirEP
        BY <3>1 DEF IInv, LineInv, LineTypeOK
      <4> QED BY <4>1 DEF DirEP
    <3> QED BY <2>1, <3>1, <3>2, BufSettleRevive
  <2>3. CASE DirWrbWasHere
    <3>1. UNCHANGED <<pend, BufPend, ReadyReqs>>
      BY <2>3 DEF DirWrbWasHere
    <3>2. \A k \in Lines : extra'[k] # NULL <=> extra[k] # NULL
      BY <3>1 DEF IInv, LineInv, PendIffExtra
    <3> QED BY <2>1, <3>1, <3>2, NoBufferMoves
  <2>4. CASE DirWrbPlain
    <3>1. DirCheckBuf(l, <<>>) /\ extra[l] = NULL /\ UNCHANGED extra
      BY <2>4 DEF DirWrbPlain
    <3>2. BufPend[l] = <<>>
      BY <3>1 DEF IInv, QueueInv, NoStranded, LineInv, PendIffExtra
    <3>3. ReadyReqs' = ReadyReqs /\ BufPend' = BufPend
      BY <3>1, <3>2, Terms DEF DirCheckBuf
    <3> QED BY <2>1, <3>1, <3>3, NoBufferMoves
  <2> QED BY <1>2, <2>2, <2>3, <2>4 DEF DirWrb
<1> QED BY <1>1, <1>2

(* The sending of COHEs moves no buffer.                                   *)
LEMMA BufSend ==
  ASSUME IInv, IInv', BufInv, DirSend PROVE BufInv'
<1>1. UNCHANGED <<pend, countVars, queueVars>>
  BY DEF DirSend, DirSendCoheNull, YS__errmsg, DirSendForward, DirSendInval, lineVars
<1>2. \A k \in Lines : extra'[k] # NULL <=> extra[k] # NULL
  BY <1>1 DEF IInv, LineInv, PendIffExtra
<1> QED BY <1>1, <1>2, NoBufferMoves DEF countVars, queueVars

(* Each buffer in use holds exactly one request, transaction or reply: no  *)
(* path of DirSim loses one, and none gives one back twice.                *)
THEOREM BuffersConserved == DirSpec => []BufAccounting
<1>1. DirInit => BufInv
  <2> SUFFICES ASSUME DirInit PROVE BufInv
    OBVIOUS
  <2>1. Busy = {} /\ Parked = {} /\ Replies(OutboundReqs) = {}
    BY DEF DirInit, FreshLines, Busy, Parked, Replies
  <2>2. buftotsz = 0 /\ Len(ReadyReqs) = 0
    BY DEF DirInit
  <2> QED BY <2>1, <2>2, BusyFinite, FS_EmptySet DEF BufInv, BufAccounting
<1>2. IInv /\ IInv' /\ BufInv /\ [DirNext]_dirVars => BufInv'
  <2> SUFFICES ASSUME IInv, IInv', BufInv, [DirNext]_dirVars PROVE BufInv'
    OBVIOUS
  <2>1. CASE DirStart
    <3>1. CASE DirOutbound
      BY <3>1, BufOutbound
    <3>2. CASE DirActivate \/ DirPick \/ DirNextPort
      BY <3>2, NoBufferMoves DEF DirActivate, DirPick, DirNextPort, lineVars, countVars,
                                 queueVars
    <3> QED BY <2>1, <3>1, <3>2 DEF DirStart
  <2>2. CASE Environment
    BY <2>2, EnvironmentFrame, NoBufferMoves DEF lineVars, countVars, queueVars
  <2>3. CASE UNCHANGED dirVars
    BY <2>3, NoBufferMoves DEF dirVars, lineVars, countVars, queueVars
  <2> QED
    BY <2>1, <2>2, <2>3, BufReq, BufSend, BufCoheRep, BufWrb DEF DirNext, DirStep
<1>3. BufInv => BufAccounting
  BY DEF BufInv
<1> QED BY Invariance, <1>1, <1>2, <1>3, PTL DEF DirSpec

(* The directory's books balance, always and for any machine.              *)
THEOREM BooksBalance == DirSpec => []Accounts
<1>1. IInv /\ BufAccounting => Accounts
  BY DEF IInv, LineInv, QueueInv, CountInv, CtlInv, Accounts, TypeOK
<1> QED BY Invariance, BuffersConserved, <1>1, PTL
=============================================================================
