---------------------------- MODULE OwnerLemmas -----------------------------
(***************************************************************************)
(* What each message permits the cache that it comes from or goes to, and  *)
(* what the directory and the caches do to one line. A cache owns a line   *)
(* when it may write it, when that permission is on its way to the cache,  *)
(* or when what the cache wrote is on its way back. The directory takes at *)
(* most one cache for the owner (OwnerIs), according to what its           *)
(* transaction for the line has done so far. The invariant (OwnerInv) is   *)
(* that this cache is the owner and no other owns the line, and that       *)
(* whoever may read the line is known or about to be invalidated.          *)
(***************************************************************************)
EXTENDS RequestProofs

(* All messages, and those for line l.                                     *)
DirMail ==
  Range(inReq) \cup Range(inRep) \cup Range(outCohe) \cup Range(outRep)
  \cup Range(ReadyReqs) \cup Range(OutboundReqs) \cup (UNION {Range(BufPend[l]) : l \in Lines})
CacheMail ==
  requests \cup replies \cup coheReps
  \cup (UNION {Range(coheIn[n]) : n \in Nodes}) \cup (UNION {Range(atL1[n]) : n \in Nodes})
Mail == DirMail \cup CacheMail
Msgs(l) == {m \in Mail : m.tag = l}

ExclTypes == {"REPLY_EXCL", "REPLY_EXCLDY", "REPLY_UPGRADE"}
IsCohe(m) == m.type \in {"COHE", "COHE_REPLY"} /\ m.req_type \notin WrbTypes

(* What is on its way for line l: the permission to write it or to read it *)
(* to n, what n wrote, an invalidation to n; a transfer has been made when *)
(* the acknowledgment of it is on its way.                                 *)
ExclComes(n, l)  == \E m \in Msgs(l) : m.node = n /\ m.req_type \in ExclTypes
ShareComes(n, l) == \E m \in Msgs(l) : m.node = n /\ m.req_type = "REPLY_SH"
BackComes(n, l)  == \E m \in Msgs(l) : m.node = n /\ m.req_type \in WrbTypes
InvalComes(n, l) ==
  \E m \in Msgs(l) : m.node = n /\ m.type = "COHE" /\ m.forward_to = NULL
Transferred(l) ==
  \E m \in Msgs(l) : m.type = "COHE_REPLY" /\ m.forward_to # NULL /\ ~m.isreq

Owns(n, l) == \/ st[n][l] \in Private \/ wrb_buf[n][l] \in WrbTypes
              \/ ExclComes(n, l) \/ BackComes(n, l)
Shares(n, l) == \/ st[n][l] = "SH_CL"
                \/ ShareComes(n, l) /\ mshrs[n][l].pend_cohe_type # "INVL"

(* The transactions: requests are forwarded, or all sharers invalidated.   *)
(* Before and after, and while the directory waits for a write-back, what  *)
(* it has written down for the line is so.                                 *)
Forwarding(l)   == extra[l] # NULL /\ extra[l].ret_st = "ACK_REPLY"
Invalidating(l) == extra[l] # NULL /\ ~extra[l].waiting /\ extra[l].ret_st # "ACK_REPLY"
Known(l) == extra[l] = NULL \/ extra[l].waiting \/ (Forwarding(l) /\ Transferred(l))

OwnerIs(n, l) ==
  \/ Known(l) /\ dirst[l] = "DIR_PRIVATE" /\ n \in vector[l]
  \/ ~Known(l) /\ Forwarding(l) /\ n = extra[l].pend_req.node /\ extra[l].WasHere = NULL
May(n, l) ==
  \/ ExclComes(n, l)
  \/ Known(l) /\ dirst[l] = "DIR_SHARED" /\ n \in vector[l]
  \/ /\ Invalidating(l)
     /\ n = extra[l].pend_req.node \/ n \in extra[l].left \/ InvalComes(n, l)
-----------------------------------------------------------------------------
(***************************************************************************)
(* The invariant.                                                          *)
(***************************************************************************)
(* What the directory has written down when it started a transaction, and  *)
(* what of it a write-back has changed since.                              *)
BelievesWait(l) ==
  /\ dirst[l] = "DIR_PRIVATE" /\ vector[l] = {extra[l].pend_req.node}
  /\ extra[l].WaitingFor = extra[l].pend_req.node
  /\ extra[l].pend_req.req_type \in {"READ_SH", "READ_OWN"}
BelievesInval(l) ==
  /\ dirst[l] = "DIR_PRIVATE" /\ vector[l] = {extra[l].pend_req.node}
  /\ extra[l].pend_req.req_type \in {"REPLY_EXCL", "REPLY_UPGRADE"}
  /\ extra[l].next_req_type = "INVL" /\ extra[l].pend_req.node \notin extra[l].left
BelievesForward(l) ==
  LET o == extra[l].pend_req.node
      r == extra[l].pend_req.forward_to
      w == extra[l].WasHere
  IN  /\ o # r
      /\ w # NULL => dirst[l] = "UNCACHED" /\ w = IF Transferred(l) THEN r ELSE o
      /\ w = NULL /\ extra[l].pend_req.req_type = "COPYBACK" =>
           dirst[l] = "DIR_SHARED" /\ vector[l] = {o, r}
      /\ w = NULL /\ extra[l].pend_req.req_type # "COPYBACK" =>
           dirst[l] = "DIR_PRIVATE" /\ vector[l] = {r}
Believes(l) ==
  extra[l] # NULL =>
    /\ extra[l].waiting => BelievesWait(l)
    /\ Invalidating(l) => BelievesInval(l)
    /\ Forwarding(l) => BelievesForward(l)

(* A request that is under way, whatever has become of it, fits the MSHR   *)
(* and the state of the line where it comes from.                          *)
ReadTypes  == {"READ_SH", "REPLY_SH", "COPYBACK"}
WriteTypes == {"READ_OWN", "UPGRADE", "REPLY_UPGRADE", "REPLY_EXCLDY", "COPYBACK_INVL"}
Fits(m, n, l) ==
  /\ m.req_type \in ReadTypes => ~mshrs[n][l].excl
  /\ m.req_type \in WriteTypes \/ (MSI /\ m.req_type = "REPLY_EXCL") => mshrs[n][l].excl
  /\ m.req_type = "REPLY_UPGRADE" => st[n][l] = "SH_CL"
  /\ m.req_type \notin {"UPGRADE", "REPLY_UPGRADE"} => st[n][l] = "INVALID"
  /\ m.req_type = "UPGRADE" => /\ st[n][l] = "SH_CL" \/ n \notin vector[l]
                               /\ ~Owns(n, l)

(* A COHE is of the transaction in flight; a reply with data has a type to *)
(* match.                                                                  *)
OfTransaction(m, l) ==
  /\ m.forward_to # NULL => /\ Forwarding(l) /\ m.node = extra[l].pend_req.node
                            /\ m.forward_to = extra[l].pend_req.forward_to
                            /\ m.req_type = extra[l].pend_req.req_type
  /\ m.forward_to = NULL => /\ Invalidating(l) /\ m.node # extra[l].pend_req.node
                            /\ m.req_type = "INVL"
MessageOK(m, l) ==
  /\ m.isreq => Fits(m, Owner(m), l)
  /\ IsCohe(m) => OfTransaction(m, l)
  /\ m.preprocessed \/ (m.type = "REPLY" /\ m.reply = "REPLY") => m.req_type \in DataTypes

(* The transaction holds the request itself until it has forwarded it.     *)
Keeps(l) == extra[l] # NULL /\ (Forwarding(l) => req_partial = l)
PendOK(l) == Keeps(l) => \A p \in {extra[l].pend_req} : Fits(p, Owner(p), l)

(* The owner owns the line in one way, and one write-back is on its way.   *)
WriteBacks(l) == {m \in REQ : m.tag = l /\ m.req_type \in WrbTypes}
Backs(l) == Cnt(inRep, WriteBacks(l)) + Has(coheReps, WriteBacks(l))
OneKind(n, l) ==
  BackComes(n, l) => wrb_buf[n][l] \notin WrbTypes /\ st[n][l] \notin Private /\ ~ExclComes(n, l)

Agree(l) ==
  /\ Believes(l) /\ PendOK(l) /\ Backs(l) <= 1
  /\ \A m \in Msgs(l) : MessageOK(m, l)
  /\ \A n \in Nodes : OneKind(n, l)
  /\ \A n \in Nodes : OwnerIs(n, l) <=> Owns(n, l)
  /\ \A n \in Nodes : Shares(n, l) => May(n, l)

(* No reply has been held up after it set its line.                        *)
NotHeld == \A n \in Nodes, l \in Lines : mshrs[n][l] # NULL => ~mshrs[n][l].installed

(* COHEs reach the cache that they are for.                                *)
AtHome ==
  \A n \in Nodes : \A m \in Range(coheIn[n]) \cup Range(atL1[n]) : m.node = n

OwnerInv == RequestInv /\ NotHeld /\ AtHome /\ \A l \in Lines : Agree(l)
-----------------------------------------------------------------------------
(***************************************************************************)
(* Messages and the numbers of them.                                       *)
(***************************************************************************)
LEMMA Ranges ==
  /\ Range(<<>>) = {}
  /\ \A S : \A q \in Seq(S), x \in S : /\ Range(Append(q, x)) = Range(q) \cup {x}
                                       /\ Range(<<x>>) = {x} /\ Range(q) \subseteq S
                                       /\ q # <<>> =>
                                            /\ Range(Tail(q)) \cup {Head(q)} = Range(q)
                                            /\ Range(<<x>> \o Tail(q)) = Range(Tail(q)) \cup {x}
<1>1. Range(<<>>) = {}
  BY DEF Range
<1>2. ASSUME NEW S, NEW q \in Seq(S), NEW x \in S
      PROVE  Range(Append(q, x)) = Range(q) \cup {x} /\ Range(<<x>>) = {x} /\ Range(q) \subseteq S
  <2>1. Len(q) \in Nat /\ DOMAIN q = 1..Len(q) /\ \A i \in 1..Len(q) : q[i] \in S
    OBVIOUS
  <2>2. /\ DOMAIN Append(q, x) = 1..(Len(q) + 1) /\ Append(q, x)[Len(q) + 1] = x
        /\ \A i \in 1..Len(q) : Append(q, x)[i] = q[i]
    BY <2>1
  <2>3. 1..(Len(q) + 1) = (1..Len(q)) \cup {Len(q) + 1}
    BY <2>1
  <2>4. Range(<<x>>) = {x}
    <3>1. DOMAIN <<x>> = {1} /\ <<x>>[1] = x
      OBVIOUS
    <3> QED BY <3>1 DEF Range
  <2> QED BY <2>1, <2>2, <2>3, <2>4 DEF Range
<1>3. ASSUME NEW S, NEW q \in Seq(S), NEW x \in S, q # <<>>
      PROVE  /\ Range(Tail(q)) \cup {Head(q)} = Range(q)
             /\ Range(<<x>> \o Tail(q)) = Range(Tail(q)) \cup {x}
  <2>1. Len(q) \in Nat /\ Len(q) >= 1 /\ DOMAIN q = 1..Len(q) /\ Head(q) = q[1]
    BY <1>3
  <2>2. /\ DOMAIN Tail(q) = 1..(Len(q) - 1) /\ Len(Tail(q)) = Len(q) - 1 /\ Tail(q) \in Seq(S)
        /\ \A i \in 1..(Len(q) - 1) : Tail(q)[i] = q[i + 1]
    BY <1>3, <2>1
  <2>3. \A j \in 1..Len(q) : j = 1 \/ (j - 1 \in 1..(Len(q) - 1) /\ (j - 1) + 1 = j)
    BY <2>1
  <2>4. \A i \in 1..(Len(q) - 1) : i + 1 \in 1..Len(q)
    BY <2>1
  <2> PICK t \in Seq(S) : t = Tail(q)
    BY <2>2
  <2>5. Range(t) \cup {Head(q)} = Range(q)
    <3>1. DOMAIN t = 1..(Len(q) - 1) /\ \A i \in 1..(Len(q) - 1) : t[i] = q[i + 1]
      BY <2>2
    <3>2. Range(q) \subseteq Range(t) \cup {Head(q)}
      <4> SUFFICES ASSUME NEW j \in 1..Len(q), j # 1 PROVE q[j] \in Range(t)
        BY <2>1 DEF Range
      <4>1. j - 1 \in DOMAIN t /\ t[j - 1] = q[j]
        BY <2>3, <3>1
      <4> QED BY <4>1 DEF Range
    <3>3. \A i \in 1..(Len(q) - 1) : t[i] \in Range(q)
      BY <2>1, <2>4, <3>1 DEF Range
    <3>4. Head(q) \in Range(q)
      BY <2>1 DEF Range
    <3>5. Range(t) \subseteq Range(q)
      BY <3>1, <3>3 DEF Range
    <3> QED BY <3>2, <3>4, <3>5
  <2>8. <<x>> \o Tail(q) \in Seq(S)
    BY <1>3, SeqFacts
  <2> PICK p \in Seq(S) : p = <<x>> \o Tail(q)
    BY <2>8
  <2>6. DOMAIN p = 1..Len(q) /\ p[1] = x /\ \A i \in 1..(Len(q) - 1) : p[i + 1] = t[i]
    BY <2>1, <2>2
  <2>7. Range(p) = Range(t) \cup {x}
    <3>1. DOMAIN t = 1..(Len(q) - 1)
      BY <2>2
    <3>2. Range(p) \subseteq Range(t) \cup {x}
      <4> SUFFICES ASSUME NEW j \in 1..Len(q), j # 1 PROVE p[j] \in Range(t)
        BY <2>6 DEF Range
      <4>1. j - 1 \in DOMAIN t /\ p[j] = t[j - 1]
        BY <2>3, <2>6, <3>1
      <4> QED BY <4>1 DEF Range
    <3>3. \A i \in 1..(Len(q) - 1) : t[i] \in Range(p)
      <4> SUFFICES ASSUME NEW i \in 1..(Len(q) - 1) PROVE t[i] \in Range(p)
        OBVIOUS
      <4>1. i + 1 \in DOMAIN p /\ p[i + 1] = t[i]
        BY <2>4, <2>6
      <4> QED BY <4>1 DEF Range
    <3>4. x \in Range(p)
      <4>1. 1 \in DOMAIN p
        BY <2>1, <2>6
      <4> QED BY <2>6, <4>1 DEF Range
    <3>5. Range(t) \subseteq Range(p)
      BY <3>1, <3>3 DEF Range
    <3> QED BY <3>2, <3>4, <3>5
  <2> QED BY <2>5, <2>7
<1> QED BY <1>1, <1>2, <1>3

LEMMA RangeConcat ==
  ASSUME NEW S, NEW q \in Seq(S), NEW r \in Seq(S)
  PROVE  Range(q \o r) = Range(q) \cup Range(r)
<1>1. /\ Len(q) \in Nat /\ Len(r) \in Nat /\ DOMAIN q = 1..Len(q) /\ DOMAIN r = 1..Len(r)
      /\ DOMAIN (q \o r) = 1..(Len(q) + Len(r))
  OBVIOUS
<1>2. /\ \A i \in 1..Len(q) : (q \o r)[i] = q[i]
      /\ \A i \in 1..Len(r) : (q \o r)[Len(q) + i] = r[i]
  BY <1>1
<1>3. \A j \in 1..(Len(q) + Len(r)) :
        j \in 1..Len(q) \/ (j - Len(q) \in 1..Len(r) /\ Len(q) + (j - Len(q)) = j)
  BY <1>1
<1>4. /\ \A i \in 1..Len(q) : i \in 1..(Len(q) + Len(r))
      /\ \A i \in 1..Len(r) : Len(q) + i \in 1..(Len(q) + Len(r))
  BY <1>1
<1> PICK p : p = q \o r
  OBVIOUS
<1>5. Range(p) \subseteq Range(q) \cup Range(r)
  <2> SUFFICES ASSUME NEW j \in DOMAIN p PROVE p[j] \in Range(q) \cup Range(r)
    BY DEF Range
  <2> QED BY <1>1, <1>2, <1>3 DEF Range
<1>6. Range(q) \subseteq Range(p)
  <2> SUFFICES ASSUME NEW i \in DOMAIN q PROVE q[i] \in Range(p)
    BY DEF Range
  <2> QED BY <1>1, <1>2, <1>4 DEF Range
<1>7. Range(r) \subseteq Range(p)
  <2> SUFFICES ASSUME NEW i \in DOMAIN r PROVE r[i] \in Range(p)
    BY DEF Range
  <2>1. Len(q) + i \in DOMAIN p /\ p[Len(q) + i] = r[i]
    BY <1>1, <1>2, <1>4
  <2> QED BY <2>1 DEF Range
<1> QED BY <1>5, <1>6, <1>7

(* For queues of messages.                                                 *)
LEMMA PutRange ==
  ASSUME NEW q \in Seq(REQ), NEW x \in REQ
  PROVE  Range(Append(q, x)) = Range(q) \cup {x} /\ Range(<<x>>) = {x} /\ Range(q) \subseteq REQ
  BY Ranges

LEMMA TailRange ==
  ASSUME NEW S, NEW q \in Seq(S), q # <<>>
  PROVE  Head(q) \in S /\ Range(Tail(q)) \cup {Head(q)} = Range(q)
<1>1. Head(q) \in S
  BY SeqFacts
<1> QED BY <1>1, Ranges

LEMMA LeaveRange ==
  ASSUME NEW q \in Seq(REQ), q # <<>>, NEW x \in REQ
  PROVE  Range(<<x>> \o Tail(q)) = Range(Tail(q)) \cup {x}
  BY Ranges

(* A message that is there counts, and two count twice.                    *)
LEMMA RangeCnt ==
  ASSUME NEW S, NEW q \in Seq(REQ), NEW x \in S, x \in Range(q)
  PROVE  Cnt(q, S) >= 1 /\ (Cnt(q, S) = 1 => \A y \in Range(q) \cap S : y = x)
<1>1. IsFiniteSet(Where(q, S)) /\ Cardinality(Where(q, S)) \in Nat
  BY WhereFinite DEF Cnt
<1> PICK i \in DOMAIN q : q[i] = x
  BY DEF Range
<1>2. i \in Where(q, S)
  BY DEF Where
<1>3. /\ IsFiniteSet(Where(q, S) \ {i})
      /\ Cardinality(Where(q, S) \ {i}) = Cardinality(Where(q, S)) - 1
      /\ Cardinality(Where(q, S) \ {i}) \in Nat
  BY <1>1, <1>2, FS_RemoveElement, FS_CardinalityType
<1>4. Cardinality(Where(q, S)) = 1 => Where(q, S) \ {i} = {}
  BY <1>1, <1>3, FS_EmptySet
<1>5. ASSUME Cardinality(Where(q, S)) = 1, NEW y \in Range(q) \cap S PROVE y = x
  <2> PICK j \in DOMAIN q : q[j] = y
    BY DEF Range
  <2>1. j \in Where(q, S)
    BY DEF Where
  <2> QED BY <1>4, <1>5, <2>1
<1> QED BY <1>1, <1>3, <1>5 DEF Cnt

LEMMA RangeCells ==
  ASSUME NEW S, NEW f \in [Nodes -> Seq(REQ)], NEW k \in Nodes, NEW x \in S, x \in Range(f[k])
  PROVE  /\ Cells(f, S) >= 1
         /\ Cells(f, S) = 1 => \A j \in Nodes : \A y \in Range(f[j]) \cap S : y = x
<1>1. IsFiniteSet(Rows(f, S)) /\ Cardinality(Rows(f, S)) \in Nat
  BY CellsFinite DEF Cells
<1>2. ASSUME NEW j \in Nodes, NEW y \in Range(f[j]) \cap S
      PROVE  \E i \in DOMAIN f[j] : f[j][i] = y /\ <<j, i>> \in Rows(f, S)
  <2> PICK i \in DOMAIN f[j] : f[j][i] = y
    BY DEF Range
  <2>1. i \in Where(f[j], S)
    BY DEF Where
  <2>2. <<j, i>> \in Row(f, j, S)
    BY <2>1 DEF Row
  <2>3. <<j, i>> \in Rows(f, S)
    BY <2>2 DEF Rows
  <2> QED BY <2>3
<1>3. PICK i \in DOMAIN f[k] : f[k][i] = x /\ <<k, i>> \in Rows(f, S)
  BY <1>2
<1> PICK z \in Rows(f, S) : z = <<k, i>>
  BY <1>3
<1>4. /\ IsFiniteSet(Rows(f, S) \ {z})
      /\ Cardinality(Rows(f, S) \ {z}) = Cardinality(Rows(f, S)) - 1
      /\ Cardinality(Rows(f, S) \ {z}) \in Nat
  BY <1>1, FS_RemoveElement, FS_CardinalityType
<1> PICK R : R = Rows(f, S) \ {z}
  OBVIOUS
<1>5. Cardinality(Rows(f, S)) = 1 => R = {}
  <2>1. Cardinality(R) = Cardinality(Rows(f, S)) - 1 /\ IsFiniteSet(R)
    BY <1>4
  <2>2. Cardinality(R) = 0 => R = {}
    BY <2>1, FS_EmptySet
  <2> QED BY <1>1, <2>1, <2>2
<1>6. ASSUME Cardinality(Rows(f, S)) = 1, NEW j \in Nodes, NEW y \in Range(f[j]) \cap S
      PROVE  y = x
  <2>1. PICK h \in DOMAIN f[j] : f[j][h] = y /\ <<j, h>> \in Rows(f, S)
    BY <1>2
  <2>2. <<j, h>> = <<k, i>>
    BY <1>5, <1>6, <2>1
  <2>3. j = k /\ h = i
    BY <2>2
  <2> QED BY <1>3, <2>1, <2>3
<1> QED BY <1>1, <1>4, <1>6 DEF Cells

LEMMA InHas ==
  ASSUME NEW S, NEW s, IsFiniteSet(s), NEW x \in S, x \in s
  PROVE  Has(s, S) >= 1 /\ (Has(s, S) = 1 => \A y \in s \cap S : y = x)
<1>1. IsFiniteSet(s \cap S) /\ Cardinality(s \cap S) \in Nat
  BY HasFinite DEF Has
<1>2. /\ IsFiniteSet((s \cap S) \ {x})
      /\ Cardinality((s \cap S) \ {x}) = Cardinality(s \cap S) - 1
      /\ Cardinality((s \cap S) \ {x}) \in Nat
  BY <1>1, FS_RemoveElement, FS_CardinalityType
<1>3. Cardinality(s \cap S) = 1 => (s \cap S) \ {x} = {}
  BY <1>1, <1>2, FS_EmptySet
<1> QED BY <1>1, <1>2, <1>3 DEF Has
-----------------------------------------------------------------------------
(***************************************************************************)
(* What there is at most once.                                             *)
(***************************************************************************)
(* What kind of message is on its way, and what its types say.             *)
Kinds == RequestMsg \cup ReplyMsg \cup CoheMsg \cup AnswerMsg

LEMMA KindFacts ==
  ASSUME NEW m \in Kinds
  PROVE  /\ m \in REQ
         /\ m.type \in {"REQUEST", "REPLY"} \/ m.req_type \in DataTypes \cup ReqTypes =>
              /\ m.type \in {"REQUEST", "REPLY"} /\ m.isreq /\ m.forward_to = NULL
              /\ m.req_type \in ReqTypes \cup DataTypes
         /\ m.type \in {"COHE", "COHE_REPLY"} =>
              ~m.preprocessed /\ m.req_type \in CoheTypes \cup WrbTypes
         /\ m.req_type \in WrbTypes =>
              m.type = "COHE_REPLY" /\ ~m.isreq /\ m.forward_to = NULL /\ m \in AnswerMsg
         /\ IsCohe(m) => /\ m.req_type \in CoheTypes
                         /\ m.isreq => m.req_type # "INVL" /\ m.forward_to # NULL
                         /\ m.type = "COHE" => (m.isreq <=> m.forward_to # NULL)
<1>1. m \in RequestMsg \/ m \in ReplyMsg \/ m \in CoheMsg \/ m \in AnswerMsg
  BY DEF Kinds
<1>2. m \in REQ
  BY <1>1, ShapesAreMessages
<1>3. CASE m \in RequestMsg
  BY <1>2, <1>3 DEF RequestMsg, ReqTypes, DataTypes, CoheTypes, WrbTypes, IsCohe
<1>4. CASE m \in ReplyMsg
  BY <1>2, <1>4 DEF ReplyMsg, ReqTypes, DataTypes, CoheTypes, WrbTypes, IsCohe
<1>5. CASE m \in CoheMsg
  BY <1>2, <1>5 DEF CoheMsg, ReqTypes, DataTypes, CoheTypes, WrbTypes, IsCohe
<1>6. CASE m \in AnswerMsg
  BY <1>2, <1>6 DEF AnswerMsg, CoheRepMsg, ReqTypes, DataTypes, CoheTypes, WrbTypes, IsCohe
<1> QED BY <1>1, <1>3, <1>4, <1>5, <1>6

(* Where a message for line l can be.                                      *)
AtPlace(x, l) ==
  \/ x \in Range(outCohe) \/ x \in Range(OutboundReqs) \/ x \in Range(inRep)
  \/ x \in Range(inReq) \/ x \in Range(outRep) \/ x \in Range(ReadyReqs)
  \/ x \in Range(BufPend[l]) \/ x \in requests \/ x \in replies \/ x \in coheReps
  \/ \E k \in Nodes : x \in Range(coheIn[k])
  \/ \E k \in Nodes : x \in Range(atL1[k])

LEMMA Places ==
  ASSUME ProtocolInv, NEW l \in Lines, NEW x \in Msgs(l)
  PROVE  AtPlace(x, l) /\ x \in Kinds /\ x \in REQ /\ x.tag = l
<1>1. DirShapes /\ CacheShapes
  BY DEF ProtocolInv, Shapes
<1>2. /\ Range(inReq) \subseteq Kinds /\ Range(inRep) \subseteq Kinds
      /\ Range(outCohe) \subseteq Kinds /\ Range(outRep) \subseteq Kinds
      /\ Range(ReadyReqs) \subseteq Kinds /\ Range(OutboundReqs) \subseteq Kinds
  <2>1. /\ Range(inReq) \subseteq RequestMsg /\ Range(inRep) \subseteq AnswerMsg
        /\ Range(outCohe) \subseteq CoheMsg /\ Range(outRep) \subseteq ReplyMsg
        /\ Range(ReadyReqs) \subseteq PlainRequest
        /\ Range(OutboundReqs) \subseteq CoheMsg \cup ReplyMsg
    BY <1>1 DEF DirShapes, Range
  <2> QED BY <2>1, ShapesAreMessages DEF Kinds
<1>3. \A k \in Lines : /\ Range(BufPend[k]) \subseteq Kinds
                       /\ \A y \in Range(BufPend[k]) : y.tag = k
  <2> SUFFICES ASSUME NEW k \in Lines
               PROVE  /\ Range(BufPend[k]) \subseteq Kinds
                      /\ \A y \in Range(BufPend[k]) : y.tag = k
    OBVIOUS
  <2>1. BufPend[k] \in Seq(PlainOf(k))
    BY <1>1 DEF DirShapes
  <2>2. Range(BufPend[k]) \subseteq PlainOf(k)
    BY <2>1 DEF Range
  <2> QED BY <2>2, ShapesAreMessages DEF PlainOf, Kinds
<1>4. \A k \in Nodes : Range(coheIn[k]) \subseteq Kinds /\ Range(atL1[k]) \subseteq Kinds
  <2> SUFFICES ASSUME NEW k \in Nodes
               PROVE  Range(coheIn[k]) \subseteq Kinds /\ Range(atL1[k]) \subseteq Kinds
    OBVIOUS
  <2>1. coheIn[k] \in Seq(CoheMsg) /\ atL1[k] \in Seq(CoheMsg)
    BY <1>1 DEF CacheShapes
  <2>2. Range(coheIn[k]) \subseteq CoheMsg /\ Range(atL1[k]) \subseteq CoheMsg
    BY <2>1 DEF Range
  <2> QED BY <2>2 DEF Kinds
<1>5. replies \subseteq Kinds /\ requests \subseteq Kinds /\ coheReps \subseteq Kinds
  BY <1>1 DEF CacheShapes, Kinds
<1>6. x \in Mail /\ x.tag = l
  BY DEF Msgs
<1>7. AtPlace(x, l) /\ x \in Kinds
  <2>1. CASE x \in CacheMail
    <3>1. \/ x \in requests \/ x \in replies \/ x \in coheReps
          \/ \E k \in Nodes : x \in Range(coheIn[k])
          \/ \E k \in Nodes : x \in Range(atL1[k])
      <4>1. /\ x \in UNION {Range(coheIn[n]) : n \in Nodes} =>
                 \E k \in Nodes : x \in Range(coheIn[k])
            /\ x \in UNION {Range(atL1[n]) : n \in Nodes} =>
                 \E k \in Nodes : x \in Range(atL1[k])
        OBVIOUS
      <4>2. \/ x \in requests \/ x \in replies \/ x \in coheReps
            \/ x \in UNION {Range(coheIn[n]) : n \in Nodes}
            \/ x \in UNION {Range(atL1[n]) : n \in Nodes}
        BY <2>1 DEF CacheMail
      <4> QED BY <4>1, <4>2
    <3> QED BY <1>4, <1>5, <3>1 DEF AtPlace
  <2>2. CASE x \in DirMail
    <3>1. CASE \E k \in Lines : x \in Range(BufPend[k])
      BY <1>3, <1>6, <3>1 DEF AtPlace
    <3>2. CASE ~\E k \in Lines : x \in Range(BufPend[k])
      BY <1>2, <2>2, <3>2 DEF DirMail, AtPlace
    <3> QED BY <3>1, <3>2
  <2> QED BY <1>6, <2>1, <2>2 DEF Mail
<1> QED BY <1>6, <1>7, KindFacts

(* Where there is at most one message of S, two of them are the same.      *)
All(S, l) == Flow(S) + DirHeld(S, l) + CacheHeld(S)

LEMMA OnlyOne ==
  ASSUME ProtocolInv, SetsFinite, NEW l \in Lines, NEW S, NEW x \in Msgs(l) \cap S
  PROVE  All(S, l) >= 1 /\ (All(S, l) = 1 => \A y \in Msgs(l) \cap S : y = x)
<1>1. /\ Cnt(outCohe, S) \in Nat /\ Cnt(OutboundReqs, S) \in Nat /\ Cnt(inRep, S) \in Nat
      /\ Cnt(inReq, S) \in Nat /\ Cnt(outRep, S) \in Nat /\ Cnt(ReadyReqs, S) \in Nat
      /\ Cnt(BufPend[l], S) \in Nat
      /\ Cells(coheIn, S) \in Nat /\ Cells(atL1, S) \in Nat
      /\ Has(coheReps, S) \in Nat /\ Has(requests, S) \in Nat /\ Has(replies, S) \in Nat
  BY Counts
<1> PICK c1 \in Nat : c1 = Cnt(outCohe, S)
  BY <1>1
<1> PICK c2 \in Nat : c2 = Cnt(OutboundReqs, S)
  BY <1>1
<1> PICK c3 \in Nat : c3 = Cnt(inRep, S)
  BY <1>1
<1> PICK c4 \in Nat : c4 = Cnt(inReq, S)
  BY <1>1
<1> PICK c5 \in Nat : c5 = Cnt(outRep, S)
  BY <1>1
<1> PICK c6 \in Nat : c6 = Cnt(ReadyReqs, S)
  BY <1>1
<1> PICK c7 \in Nat : c7 = Cnt(BufPend[l], S)
  BY <1>1
<1> PICK c8 \in Nat : c8 = Has(requests, S)
  BY <1>1
<1> PICK c9 \in Nat : c9 = Has(replies, S)
  BY <1>1
<1> PICK c10 \in Nat : c10 = Has(coheReps, S)
  BY <1>1
<1> PICK c11 \in Nat : c11 = Cells(coheIn, S)
  BY <1>1
<1> PICK c12 \in Nat : c12 = Cells(atL1, S)
  BY <1>1
<1>8. /\ c1 \in Nat /\ c2 \in Nat /\ c3 \in Nat /\ c4 \in Nat /\ c5 \in Nat /\ c6 \in Nat
      /\ c7 \in Nat /\ c8 \in Nat /\ c9 \in Nat /\ c10 \in Nat /\ c11 \in Nat /\ c12 \in Nat
  OBVIOUS
<1>2. All(S, l) = (c1 + c2 + c3) + (c11 + c12 + c10) + (c4 + c5 + c6 + c7) + (c8 + c9)
  BY DEF All, Flow, DirFlow, CacheFlow, DirHeld, CacheHeld
<1>3. BufPend[l] \in Seq(REQ)
  BY QueueTypes
<1>4. ASSUME NEW y \in Msgs(l) \cap S
      PROVE  /\ y \in Range(outCohe) => c1 >= 1
             /\ y \in Range(OutboundReqs) => c2 >= 1
             /\ y \in Range(inRep) => c3 >= 1
             /\ y \in Range(inReq) => c4 >= 1
             /\ y \in Range(outRep) => c5 >= 1
             /\ y \in Range(ReadyReqs) => c6 >= 1
             /\ y \in Range(BufPend[l]) => c7 >= 1
             /\ y \in requests => c8 >= 1
             /\ y \in replies => c9 >= 1
             /\ y \in coheReps => c10 >= 1
             /\ (\E k \in Nodes : y \in Range(coheIn[k])) => c11 >= 1
             /\ (\E k \in Nodes : y \in Range(atL1[k])) => c12 >= 1
  <2>1. y \in S
    OBVIOUS
  <2> QED BY <1>3, <2>1, QueueTypes, RangeCnt, RangeCells, InHas DEF SetsFinite
<1>5. x \in S /\ AtPlace(x, l) /\ \A y \in Msgs(l) : AtPlace(y, l)
  BY Places
<1>6. All(S, l) >= 1
  <2>1. c1 >= 1 \/ c2 >= 1 \/ c3 >= 1 \/ c4 >= 1 \/ c5 >= 1 \/ c6 >= 1
        \/ c7 >= 1 \/ c8 >= 1 \/ c9 >= 1 \/ c10 >= 1 \/ c11 >= 1 \/ c12 >= 1
    BY <1>4, <1>5 DEF AtPlace
  <2> QED BY ONLY <1>2, <2>1, <1>8
<1>7. ASSUME NEW y \in Msgs(l) \cap S, All(S, l) = 1 PROVE y = x
  <2>1. y \in S /\ AtPlace(y, l)
    BY <1>5
  <2>2. CASE x \in Range(outCohe)
    <3>1. c1 >= 1
      BY <1>4, <2>2
    <3>2. /\ c1 = 1 /\ c2 = 0 /\ c3 = 0 /\ c4 = 0 /\ c5 = 0 /\ c6 = 0
          /\ c7 = 0 /\ c8 = 0 /\ c9 = 0 /\ c10 = 0 /\ c11 = 0 /\ c12 = 0
      BY ONLY <1>2, <1>7, <3>1, <1>8
    <3>3. y \in Range(outCohe)
      BY <1>4, <2>1, <3>2 DEF AtPlace
    <3> QED BY <1>5, <2>1, <2>2, <3>2, <3>3, QueueTypes, RangeCnt
  <2>3. CASE x \in Range(OutboundReqs)
    <3>1. c2 >= 1
      BY <1>4, <2>3
    <3>2. /\ c2 = 1 /\ c1 = 0 /\ c3 = 0 /\ c4 = 0 /\ c5 = 0 /\ c6 = 0
          /\ c7 = 0 /\ c8 = 0 /\ c9 = 0 /\ c10 = 0 /\ c11 = 0 /\ c12 = 0
      BY ONLY <1>2, <1>7, <3>1, <1>8
    <3>3. y \in Range(OutboundReqs)
      BY <1>4, <2>1, <3>2 DEF AtPlace
    <3> QED BY <1>5, <2>1, <2>3, <3>2, <3>3, QueueTypes, RangeCnt
  <2>4. CASE x \in Range(inRep)
    <3>1. c3 >= 1
      BY <1>4, <2>4
    <3>2. /\ c3 = 1 /\ c1 = 0 /\ c2 = 0 /\ c4 = 0 /\ c5 = 0 /\ c6 = 0
          /\ c7 = 0 /\ c8 = 0 /\ c9 = 0 /\ c10 = 0 /\ c11 = 0 /\ c12 = 0
      BY ONLY <1>2, <1>7, <3>1, <1>8
    <3>3. y \in Range(inRep)
      BY <1>4, <2>1, <3>2 DEF AtPlace
    <3> QED BY <1>5, <2>1, <2>4, <3>2, <3>3, QueueTypes, RangeCnt
  <2>5. CASE x \in Range(inReq)
    <3>1. c4 >= 1
      BY <1>4, <2>5
    <3>2. /\ c4 = 1 /\ c1 = 0 /\ c2 = 0 /\ c3 = 0 /\ c5 = 0 /\ c6 = 0
          /\ c7 = 0 /\ c8 = 0 /\ c9 = 0 /\ c10 = 0 /\ c11 = 0 /\ c12 = 0
      BY ONLY <1>2, <1>7, <3>1, <1>8
    <3>3. y \in Range(inReq)
      BY <1>4, <2>1, <3>2 DEF AtPlace
    <3> QED BY <1>5, <2>1, <2>5, <3>2, <3>3, QueueTypes, RangeCnt
  <2>6. CASE x \in Range(outRep)
    <3>1. c5 >= 1
      BY <1>4, <2>6
    <3>2. /\ c5 = 1 /\ c1 = 0 /\ c2 = 0 /\ c3 = 0 /\ c4 = 0 /\ c6 = 0
          /\ c7 = 0 /\ c8 = 0 /\ c9 = 0 /\ c10 = 0 /\ c11 = 0 /\ c12 = 0
      BY ONLY <1>2, <1>7, <3>1, <1>8
    <3>3. y \in Range(outRep)
      BY <1>4, <2>1, <3>2 DEF AtPlace
    <3> QED BY <1>5, <2>1, <2>6, <3>2, <3>3, QueueTypes, RangeCnt
  <2>7. CASE x \in Range(ReadyReqs)
    <3>1. c6 >= 1
      BY <1>4, <2>7
    <3>2. /\ c6 = 1 /\ c1 = 0 /\ c2 = 0 /\ c3 = 0 /\ c4 = 0 /\ c5 = 0
          /\ c7 = 0 /\ c8 = 0 /\ c9 = 0 /\ c10 = 0 /\ c11 = 0 /\ c12 = 0
      BY ONLY <1>2, <1>7, <3>1, <1>8
    <3>3. y \in Range(ReadyReqs)
      BY <1>4, <2>1, <3>2 DEF AtPlace
    <3> QED BY <1>5, <2>1, <2>7, <3>2, <3>3, QueueTypes, RangeCnt
  <2>8. CASE x \in Range(BufPend[l])
    <3>1. c7 >= 1
      BY <1>4, <2>8
    <3>2. /\ c7 = 1 /\ c1 = 0 /\ c2 = 0 /\ c3 = 0 /\ c4 = 0 /\ c5 = 0
          /\ c6 = 0 /\ c8 = 0 /\ c9 = 0 /\ c10 = 0 /\ c11 = 0 /\ c12 = 0
      BY ONLY <1>2, <1>7, <3>1, <1>8
    <3>3. y \in Range(BufPend[l])
      BY <1>4, <2>1, <3>2 DEF AtPlace
    <3> QED BY <1>3, <1>5, <2>1, <2>8, <3>2, <3>3, QueueTypes, RangeCnt
  <2>9. CASE x \in requests
    <3>1. c8 >= 1
      BY <1>4, <2>9
    <3>2. /\ c8 = 1 /\ c1 = 0 /\ c2 = 0 /\ c3 = 0 /\ c4 = 0 /\ c5 = 0
          /\ c6 = 0 /\ c7 = 0 /\ c9 = 0 /\ c10 = 0 /\ c11 = 0 /\ c12 = 0
      BY ONLY <1>2, <1>7, <3>1, <1>8
    <3>3. y \in requests
      BY <1>4, <2>1, <3>2 DEF AtPlace
    <3>4. IsFiniteSet(requests) /\ Has(requests, S) = 1 /\ x \in S /\ y \in requests \cap S
      BY <1>5, <2>1, <3>2, <3>3 DEF SetsFinite
    <3> QED BY ONLY <2>9, <3>4, InHas
  <2>10. CASE x \in replies
    <3>1. c9 >= 1
      BY <1>4, <2>10
    <3>2. /\ c9 = 1 /\ c1 = 0 /\ c2 = 0 /\ c3 = 0 /\ c4 = 0 /\ c5 = 0
          /\ c6 = 0 /\ c7 = 0 /\ c8 = 0 /\ c10 = 0 /\ c11 = 0 /\ c12 = 0
      BY ONLY <1>2, <1>7, <3>1, <1>8
    <3>3. y \in replies
      BY <1>4, <2>1, <3>2 DEF AtPlace
    <3>4. IsFiniteSet(replies) /\ Has(replies, S) = 1 /\ x \in S /\ y \in replies \cap S
      BY <1>5, <2>1, <3>2, <3>3 DEF SetsFinite
    <3> QED BY ONLY <2>10, <3>4, InHas
  <2>11. CASE x \in coheReps
    <3>1. c10 >= 1
      BY <1>4, <2>11
    <3>2. /\ c10 = 1 /\ c1 = 0 /\ c2 = 0 /\ c3 = 0 /\ c4 = 0 /\ c5 = 0
          /\ c6 = 0 /\ c7 = 0 /\ c8 = 0 /\ c9 = 0 /\ c11 = 0 /\ c12 = 0
      BY ONLY <1>2, <1>7, <3>1, <1>8
    <3>3. y \in coheReps
      BY <1>4, <2>1, <3>2 DEF AtPlace
    <3>4. IsFiniteSet(coheReps) /\ Has(coheReps, S) = 1 /\ x \in S /\ y \in coheReps \cap S
      BY <1>5, <2>1, <3>2, <3>3 DEF SetsFinite
    <3> QED BY ONLY <2>11, <3>4, InHas
  <2>12. CASE \E k \in Nodes : x \in Range(coheIn[k])
    <3>1. c11 >= 1
      BY <1>4, <2>12
    <3>2. /\ c11 = 1 /\ c1 = 0 /\ c2 = 0 /\ c3 = 0 /\ c4 = 0 /\ c5 = 0
          /\ c6 = 0 /\ c7 = 0 /\ c8 = 0 /\ c9 = 0 /\ c10 = 0 /\ c12 = 0
      BY ONLY <1>2, <1>7, <3>1, <1>8
    <3>3. \E k \in Nodes : y \in Range(coheIn[k])
      BY <1>4, <2>1, <3>2 DEF AtPlace
    <3> PICK k \in Nodes : x \in Range(coheIn[k])
      BY <2>12
    <3> PICK j \in Nodes : y \in Range(coheIn[j])
      BY <3>3
    <3>4. Cells(coheIn, S) = 1 /\ coheIn \in [Nodes -> Seq(REQ)]
      BY <3>2, QueueTypes
    <3>5. x \in S /\ y \in Range(coheIn[j]) \cap S
      BY <1>5, <2>1
    <3>6. \A h \in Nodes : \A z \in Range(coheIn[h]) \cap S : z = x
      BY ONLY <3>4, <3>5, RangeCells, x \in Range(coheIn[k]), k \in Nodes
    <3> QED BY <3>5, <3>6
  <2>13. CASE \E k \in Nodes : x \in Range(atL1[k])
    <3>1. c12 >= 1
      BY <1>4, <2>13
    <3>2. /\ c12 = 1 /\ c1 = 0 /\ c2 = 0 /\ c3 = 0 /\ c4 = 0 /\ c5 = 0
          /\ c6 = 0 /\ c7 = 0 /\ c8 = 0 /\ c9 = 0 /\ c10 = 0 /\ c11 = 0
      BY ONLY <1>2, <1>7, <3>1, <1>8
    <3>3. \E k \in Nodes : y \in Range(atL1[k])
      BY <1>4, <2>1, <3>2 DEF AtPlace
    <3> PICK k \in Nodes : x \in Range(atL1[k])
      BY <2>13
    <3> PICK j \in Nodes : y \in Range(atL1[j])
      BY <3>3
    <3>4. Cells(atL1, S) = 1 /\ atL1 \in [Nodes -> Seq(REQ)]
      BY <3>2, QueueTypes
    <3>5. x \in S /\ y \in Range(atL1[j]) \cap S
      BY <1>5, <2>1
    <3>6. \A h \in Nodes : \A z \in Range(atL1[h]) \cap S : z = x
      BY ONLY <3>4, <3>5, RangeCells, x \in Range(atL1[k]), k \in Nodes
    <3> QED BY <3>5, <3>6
  <2> QED BY <1>5, <2>2, <2>3, <2>4, <2>5, <2>6, <2>7, <2>8, <2>9, <2>10, <2>11, <2>12,
          <2>13 DEF AtPlace
<1> QED BY <1>6, <1>7

(* One request of each processor, at most one COHE to each cache and only  *)
(* in a transaction, one forwarded request: what the counts say of the     *)
(* messages for line l.                                                    *)
OneToken(l) ==
  \A x \in Msgs(l) : x.isreq =>
    /\ Owner(x) \in Nodes /\ Waits(Owner(x), l) /\ InExtra(Owner(x), l) = 0
    /\ \A y \in Msgs(l) : y.isreq /\ Owner(y) = Owner(x) => y = x
OneCohe(l) ==
  \A x \in Msgs(l) : IsCohe(x) =>
    /\ extra[l] # NULL /\ x.node \notin Unsent(l) /\ Flight(x.node, l) = 1
    /\ x.forward_to # NULL <=> Forwarding(l)
    /\ \A y \in Msgs(l) : IsCohe(y) /\ (y.node = x.node \/ Forwarding(l)) => y = x
    /\ Forwarding(l) => req_partial # l
OneBack(l) ==
  /\ Backs(l) \in Nat
  /\ Backs(l) # 0 => \E x \in Msgs(l) : x.req_type \in WrbTypes
  /\ \A x \in Msgs(l) : x.req_type \in WrbTypes =>
       /\ Backs(l) >= 1
       /\ Backs(l) = 1 => \A y \in Msgs(l) : y.req_type \in WrbTypes => y = x
Shaped(l) == \A x \in Msgs(l) : x \in Kinds /\ x \in REQ /\ x.tag = l
OneKept(l) ==
  Keeps(l) => LET n == Owner(extra[l].pend_req)
              IN  n \in Nodes /\ Waits(n, l) /\ \A x \in Msgs(l) : x.isreq => Owner(x) # n
Ones(l) == Shaped(l) /\ OneToken(l) /\ OneCohe(l) /\ OneBack(l) /\ OneKept(l)
AllOnes == \A l \in Lines : Ones(l)

LEMMA TokenOnce ==
  ASSUME RequestInv, NEW l \in Lines PROVE OneToken(l)
<1> SUFFICES ASSUME NEW x \in Msgs(l), x.isreq
             PROVE  /\ Owner(x) \in Nodes /\ Waits(Owner(x), l) /\ InExtra(Owner(x), l) = 0
                    /\ \A y \in Msgs(l) : y.isreq /\ Owner(y) = Owner(x) => y = x
  BY DEF OneToken
<1>1. ProtocolInv /\ SetsFinite
  BY DEF RequestInv, FlowInv
<1>2. \A y \in Msgs(l) : y \in REQ /\ y.tag = l
  BY <1>1, Places
<1>3. Owner(x) \in Nodes
  BY <1>2 DEF Owner, REQ
<1> PICK n \in Nodes : n = Owner(x)
  BY <1>3
<1> PICK S : S = Tok(n, l)
  OBVIOUS
<1>4. \A y \in Msgs(l) : y.isreq /\ Owner(y) = n => y \in S
  BY <1>2 DEF Tok, IsToken
<1>5. x \in S
  BY <1>4
<1>6. All(S, l) >= 1 /\ (All(S, l) = 1 => \A y \in Msgs(l) \cap S : y = x)
  BY <1>1, <1>5, OnlyOne
<1>7. /\ Flow(S) \in Nat /\ DirHeld(S, l) \in Nat /\ CacheHeld(S) \in Nat
      /\ DirFlow(S) \in Nat /\ CacheFlow(S) \in Nat
  BY <1>1, Sums
<1>8. InExtra(n, l) \in Nat
  BY DEF InExtra
<1>9. DirTok(n, l) + CacheTok(n, l) = All(S, l) + InExtra(n, l) /\ All(S, l) \in Nat
  <2>1. /\ DirTok(n, l) = DirFlow(S) + DirHeld(S, l) + InExtra(n, l)
        /\ CacheTok(n, l) = CacheFlow(S) + CacheHeld(S)
        /\ All(S, l) = (DirFlow(S) + CacheFlow(S)) + DirHeld(S, l) + CacheHeld(S)
    BY DEF DirTok, CacheTok, All, Flow
  <2> QED BY ONLY <1>7, <1>8, <2>1
<1>10. DirTok(n, l) + CacheTok(n, l) = IF Waits(n, l) THEN 1 ELSE 0
  BY DEF RequestInv, FlowInv, OneEach
<1>11. Waits(n, l) /\ All(S, l) = 1 /\ InExtra(n, l) = 0
  BY <1>6, <1>8, <1>9, <1>10
<1> QED BY <1>3, <1>4, <1>6, <1>11

(* The COHEs that are under way are all on their way there or back.        *)
LEMMA CohesInFlow ==
  ASSUME ProtocolInv, SetsFinite, NEW l \in Lines, NEW S,
         S \cap RequestMsg = {}, S \cap ReplyMsg = {}
  PROVE  All(S, l) = Flow(S)
<1>1. /\ inReq \in Seq(RequestMsg) /\ outRep \in Seq(ReplyMsg) /\ ReadyReqs \in Seq(PlainRequest)
      /\ BufPend[l] \in Seq(PlainOf(l))
      /\ requests \subseteq RequestMsg /\ replies \subseteq ReplyMsg
  BY DEF ProtocolInv, Shapes, DirShapes, CacheShapes
<1>2. PlainRequest \cap S = {} /\ PlainOf(l) \cap S = {}
  BY DEF PlainRequest, PlainOf
<1>3. Cnt(inReq, S) = 0 /\ Cnt(outRep, S) = 0 /\ Cnt(ReadyReqs, S) = 0 /\ Cnt(BufPend[l], S) = 0
  <2>1. Cnt(inReq, S) = 0
    BY <1>1, CntNone
  <2>2. Cnt(outRep, S) = 0
    BY <1>1, CntNone
  <2>3. Cnt(ReadyReqs, S) = 0
    BY <1>1, <1>2, CntNone
  <2>4. Cnt(BufPend[l], S) = 0
    BY <1>1, <1>2, CntNone
  <2> QED BY <2>1, <2>2, <2>3, <2>4
<1>4. Has(requests, S) = 0 /\ Has(replies, S) = 0
  <2>1. requests \cap S = {} /\ replies \cap S = {}
    BY <1>1
  <2> QED BY <2>1, FS_EmptySet DEF Has
<1>5. Flow(S) \in Nat
  BY Sums
<1>6. DirHeld(S, l) = 0 /\ CacheHeld(S) = 0
  BY <1>3, <1>4 DEF DirHeld, CacheHeld
<1> QED BY <1>5, <1>6 DEF All

LEMMA CoheOnce ==
  ASSUME RequestInv, NEW l \in Lines PROVE OneCohe(l)
<1>1. ProtocolInv /\ SetsFinite /\ TransOK(l)
  BY DEF RequestInv, FlowInv, TransInv
<1>2. \A y \in Msgs(l) : y \in REQ /\ y.tag = l /\ y \in Kinds
  BY <1>1, Places
<1>3. ASSUME NEW n \in Nodes
      PROVE  /\ Own(n, l) \cap RequestMsg = {} /\ Own(n, l) \cap ReplyMsg = {}
             /\ Fwd(n, l) \cap RequestMsg = {} /\ Fwd(n, l) \cap ReplyMsg = {}
  BY DEF Own, Fwd, CoheAt, RequestMsg, ReplyMsg
<1>4. ASSUME NEW n \in Nodes, NEW x \in Msgs(l)
      PROVE  /\ x \in Own(n, l) => /\ Flow(Own(n, l)) >= 1
                                   /\ Flow(Own(n, l)) = 1 => \A y \in Msgs(l) \cap Own(n, l) : y = x
             /\ x \in Fwd(n, l) => /\ Flow(Fwd(n, l)) >= 1
                                   /\ Flow(Fwd(n, l)) = 1 => \A y \in Msgs(l) \cap Fwd(n, l) : y = x
  <2>1. All(Own(n, l), l) = Flow(Own(n, l)) /\ All(Fwd(n, l), l) = Flow(Fwd(n, l))
    BY <1>1, <1>3, CohesInFlow
  <2> PICK A, B : A = Own(n, l) /\ B = Fwd(n, l)
    OBVIOUS
  <2>2. x \in A => All(A, l) >= 1 /\ (All(A, l) = 1 => \A y \in Msgs(l) \cap A : y = x)
    BY <1>1, OnlyOne
  <2>3. x \in B => All(B, l) >= 1 /\ (All(B, l) = 1 => \A y \in Msgs(l) \cap B : y = x)
    BY <1>1, OnlyOne
  <2> QED BY <2>1, <2>2, <2>3
<1>5. ASSUME NEW x \in Msgs(l), IsCohe(x)
      PROVE  x.node \in Nodes /\ (x \in Own(x.node, l) \/ x \in Fwd(x.node, l))
             /\ (x \in Fwd(x.node, l) <=> x.forward_to # NULL)
  BY <1>2, <1>5 DEF IsCohe, Own, Fwd, CoheAt, REQ
<1>6. ASSUME NEW n \in Nodes
      PROVE  Flow(Own(n, l)) \in Nat /\ Flow(Fwd(n, l)) \in Nat
  BY <1>1, Sums
<1>7. CASE Quiet(l)
  <2>1. \A x \in Msgs(l) : ~IsCohe(x)
    BY <1>4, <1>5, <1>7 DEF Quiet
  <2> QED BY <2>1 DEF OneCohe
<1>8. CASE extra[l] # NULL /\ InTransit(l)
  <2>1. \A n \in Nodes : Flight(n, l) \in Nat /\ Flight(n, l) = Flow(Own(n, l)) + Flow(Fwd(n, l))
    BY <1>6 DEF Flight
  <2>2. \A n \in Nodes : Flight(n, l) <= IF n \in Unsent(l) THEN 0 ELSE 1
    BY <1>8 DEF InTransit
  <2>3. ASSUME NEW x \in Msgs(l), IsCohe(x)
        PROVE  /\ x.node \in Nodes /\ Flight(x.node, l) = 1 /\ x.node \notin Unsent(l)
               /\ x.forward_to # NULL <=> Forwarding(l)
               /\ \A y \in Msgs(l) : IsCohe(y) /\ y.node = x.node => y = x
    <3> PICK n : n = x.node
      OBVIOUS
    <3>1. n \in Nodes /\ (x \in Own(n, l) \/ x \in Fwd(n, l))
          /\ (x \in Fwd(n, l) <=> x.forward_to # NULL)
      BY <1>5, <2>3
    <3>2. Flow(Own(n, l)) >= 1 \/ Flow(Fwd(n, l)) >= 1
      BY <1>4, <3>1
    <3>3. Flight(n, l) = 1 /\ n \notin Unsent(l)
      BY <1>6, <2>1, <2>2, <3>1, <3>2
    <3>4. /\ Forwarding(l) => Flow(Own(n, l)) = 0
          /\ ~Forwarding(l) => Flow(Fwd(n, l)) = 0
      BY <1>8, <3>1 DEF Forwarding, InTransit
    <3>5. x.forward_to # NULL <=> Forwarding(l)
      BY <1>4, <1>6, <3>1, <3>4
    <3>6. ASSUME NEW y \in Msgs(l), IsCohe(y), y.node = n PROVE y = x
      <4>1. (y \in Own(n, l) \/ y \in Fwd(n, l)) /\ (y \in Fwd(n, l) <=> y.forward_to # NULL)
        BY <1>5, <3>6
      <4>2. CASE Forwarding(l)
        <5>1. x \in Fwd(n, l) /\ Flow(Fwd(n, l)) = 1
          BY <1>6, <2>1, <3>1, <3>3, <3>4, <3>5, <4>2
        <5>2. y \in Fwd(n, l)
          BY <1>4, <1>6, <3>1, <3>4, <4>1, <4>2
        <5> QED BY <1>4, <3>1, <5>1, <5>2
      <4>3. CASE ~Forwarding(l)
        <5>1. x \in Own(n, l) /\ Flow(Own(n, l)) = 1
          BY <1>6, <2>1, <3>1, <3>3, <3>4, <3>5, <4>3
        <5>2. y \in Own(n, l)
          BY <1>4, <1>6, <3>1, <3>4, <4>1, <4>3
        <5> QED BY <1>4, <3>1, <5>1, <5>2
      <4> QED BY <4>2, <4>3
    <3> QED BY <3>1, <3>3, <3>5, <3>6
  <2>4. ASSUME NEW x \in Msgs(l), IsCohe(x), Forwarding(l)
        PROVE  req_partial # l /\ \A y \in Msgs(l) : IsCohe(y) => y = x
    <3>1. extra[l].counter = 1 /\ ~extra[l].waiting
      BY <1>1, <1>8, <2>4 DEF InTransit, Forwarding, ProtocolInv, Shapes, DirShapes, Kept, PendReq
    <3>2. IsFiniteSet(Asked(l)) /\ Cardinality(Asked(l)) = 1
      <4>1. extra[l].counter = Cardinality(Asked(l)) + (IF extra[l].waiting THEN 1 ELSE 0)
        BY <1>8 DEF InTransit
      <4>2. IsFiniteSet(Asked(l)) /\ Cardinality(Asked(l)) \in Nat
        BY <1>1, <1>8, AskedFinite
      <4> QED BY <3>1, <4>1, <4>2
    <3>3. x.node \in Asked(l)
      BY <2>3, <2>4 DEF Asked
    <3>4. \A n \in Asked(l) : n = x.node
      <4>1. /\ IsFiniteSet(Asked(l) \ {x.node})
            /\ Cardinality(Asked(l) \ {x.node}) = Cardinality(Asked(l)) - 1
        BY <3>2, <3>3, FS_RemoveElement
      <4>2. Asked(l) \ {x.node} = {}
        BY <3>2, <4>1, FS_EmptySet
      <4> QED BY <4>2
    <3>5. req_partial # l
      <4>1. Unsent(l) = {}
        BY <2>3, <2>4, <3>4 DEF Asked
      <4> QED BY <1>8, <4>1 DEF InTransit
    <3>6. ASSUME NEW y \in Msgs(l), IsCohe(y) PROVE y = x
      <4>1. y.node \in Asked(l)
        BY <2>3, <3>6 DEF Asked
      <4>2. y.node = x.node
        BY <3>4, <4>1
      <4> QED BY <2>3, <2>4, <3>6, <4>2
    <3> QED BY <3>5, <3>6
  <2> QED BY <1>8, <2>3, <2>4 DEF OneCohe
<1> QED BY <1>1, <1>7, <1>8 DEF TransOK

LEMMA BackOnce ==
  ASSUME RequestInv, NEW l \in Lines PROVE OneBack(l)
<1>1. ProtocolInv /\ SetsFinite
  BY DEF RequestInv, FlowInv
<1> PICK S : S = WriteBacks(l)
  OBVIOUS
<1>2. S \cap RequestMsg = {} /\ S \cap ReplyMsg = {} /\ S \cap CoheMsg = {}
  BY DEF WriteBacks, RequestMsg, ReplyMsg, CoheMsg, WrbTypes, ReqTypes, DataTypes, CoheTypes
<1>3. All(S, l) = Flow(S)
  BY <1>1, <1>2, CohesInFlow
<1>4. Cnt(outCohe, S) = 0 /\ Cnt(OutboundReqs, S) = 0 /\ Cells(coheIn, S) = 0 /\ Cells(atL1, S) = 0
  <2>1. /\ outCohe \in Seq(CoheMsg) /\ OutboundReqs \in Seq(CoheMsg \cup ReplyMsg)
        /\ coheIn \in [Nodes -> Seq(CoheMsg)] /\ atL1 \in [Nodes -> Seq(CoheMsg)]
    BY <1>1 DEF ProtocolInv, Shapes, DirShapes, CacheShapes
  <2>2. (CoheMsg \cup ReplyMsg) \cap S = {}
    BY <1>2
  <2>3. ASSUME NEW f \in [Nodes -> Seq(CoheMsg)] PROVE Cells(f, S) = 0
    <3>1. \A k \in Nodes : Row(f, k, S) = {}
      <4> TAKE k \in Nodes
      <4>1. \A i \in DOMAIN f[k] : f[k][i] \in CoheMsg
        OBVIOUS
      <4>2. Where(f[k], S) = {}
        BY <1>2, <4>1 DEF Where
      <4> QED BY <4>2 DEF Row
    <3>2. Rows(f, S) = {}
      BY <3>1 DEF Rows
    <3> QED BY <3>2, FS_EmptySet DEF Cells
  <2>4. Cnt(outCohe, S) = 0
    BY <1>2, <2>1, CntNone
  <2>5. Cnt(OutboundReqs, S) = 0
    BY <2>1, <2>2, CntNone
  <2> QED BY <2>1, <2>3, <2>4, <2>5
<1>5. /\ Backs(l) = Cnt(inRep, S) + Has(coheReps, S)
      /\ Cnt(inRep, S) \in Nat /\ Has(coheReps, S) \in Nat
  BY <1>1, Counts DEF Backs
<1>6. All(S, l) = Backs(l) /\ Backs(l) \in Nat
  BY <1>3, <1>4, <1>5 DEF Flow, DirFlow, CacheFlow
<1>7. \A x \in Msgs(l) : x \in S <=> x.req_type \in WrbTypes
  BY <1>1, Places DEF WriteBacks
<1>8. ASSUME NEW x \in Msgs(l), x.req_type \in WrbTypes
      PROVE  Backs(l) >= 1 /\ (Backs(l) = 1 => \A y \in Msgs(l) \cap S : y = x)
  <2>1. x \in Msgs(l) \cap S
    BY <1>7, <1>8
  <2> QED BY <1>1, <1>6, <2>1, OnlyOne
<1>9. ASSUME Backs(l) # 0 PROVE \E x \in Msgs(l) : x.req_type \in WrbTypes
  <2>1. Cnt(inRep, S) # 0 \/ Has(coheReps, S) # 0
    BY <1>5, <1>9
  <2>2. ASSUME NEW x \in S, x \in Range(inRep) \/ x \in coheReps
        PROVE  \E y \in Msgs(l) : y.req_type \in WrbTypes
    <3>1. x \in Mail
      BY <2>2 DEF Mail, DirMail, CacheMail
    <3> QED BY <3>1 DEF Msgs, WriteBacks
  <2>3. CASE Cnt(inRep, S) # 0
    <3>1. Where(inRep, S) # {}
      BY <2>3, FS_EmptySet DEF Cnt
    <3> PICK i \in DOMAIN inRep : inRep[i] \in S
      BY <3>1 DEF Where
    <3>2. inRep[i] \in Range(inRep)
      BY DEF Range
    <3> QED BY <2>2, <3>2
  <2>4. CASE Has(coheReps, S) # 0
    <3>1. coheReps \cap S # {}
      BY <2>4, FS_EmptySet DEF Has
    <3> QED BY <2>2, <3>1
  <2> QED BY <2>1, <2>3, <2>4
<1> QED BY <1>6, <1>7, <1>8, <1>9 DEF OneBack

(* The request that a transaction keeps is nowhere else.                   *)
LEMMA KeptOnce ==
  ASSUME RequestInv, NEW l \in Lines PROVE OneKept(l)
<1> SUFFICES ASSUME Keeps(l)
             PROVE  LET n == Owner(extra[l].pend_req)
                    IN  n \in Nodes /\ Waits(n, l) /\ \A x \in Msgs(l) : x.isreq => Owner(x) # n
  BY DEF OneKept
<1>1. ProtocolInv /\ SetsFinite /\ TransOK(l)
  BY DEF RequestInv, FlowInv, TransInv
<1>2. extra[l] # NULL /\ PendReq(l, extra[l]) /\ InTransit(l)
  BY <1>1 DEF Keeps, ProtocolInv, Shapes, DirShapes, Kept, TransOK
<1> PICK p : p = extra[l].pend_req
  OBVIOUS
<1>3. p \in REQ /\ p.isreq /\ p.tag = l /\ (p.type = "COHE" => req_partial = l)
  <2>1. CASE Forwarding(l)
    <3>1. p \in CoheMsg /\ p.forward_to # NULL /\ p.tag = l /\ req_partial = l
      BY <1>2, <2>1 DEF Forwarding, PendReq, InTransit, Keeps
    <3> QED BY <3>1, ShapesAreMessages DEF CoheMsg
  <2>2. CASE ~Forwarding(l)
    <3>1. p \in PlainRequest /\ p.tag = l
      BY <1>2, <2>2 DEF Forwarding, PendReq
    <3> QED BY <3>1, ShapesAreMessages DEF PlainRequest, RequestMsg
  <2> QED BY <2>1, <2>2
<1>4. Owner(p) \in Nodes
  BY <1>3 DEF Owner, REQ
<1> PICK n \in Nodes : n = Owner(p)
  BY <1>4
<1>5. InExtra(n, l) = 1
  BY <1>2, <1>3 DEF InExtra, IsToken
<1>6. DirTok(n, l) + CacheTok(n, l) = IF Waits(n, l) THEN 1 ELSE 0
  BY DEF RequestInv, FlowInv, OneEach
<1>7. /\ DirFlow(Tok(n, l)) \in Nat /\ DirHeld(Tok(n, l), l) \in Nat
      /\ CacheFlow(Tok(n, l)) \in Nat /\ CacheHeld(Tok(n, l)) \in Nat
  BY <1>1, Sums
<1>8. Waits(n, l)
  BY <1>5, <1>6, <1>7 DEF DirTok, CacheTok
<1>9. \A x \in Msgs(l) : x.isreq => Owner(x) # n
  BY <1>5, TokenOnce DEF OneToken
<1> QED BY <1>8, <1>9

LEMMA EachOnce == ASSUME RequestInv PROVE AllOnes
<1> SUFFICES ASSUME NEW l \in Lines PROVE Ones(l)
  BY DEF AllOnes
<1>1. ProtocolInv
  BY DEF RequestInv
<1> QED BY <1>1, TokenOnce, CoheOnce, BackOnce, KeptOnce, Places DEF Ones, Shaped
-----------------------------------------------------------------------------
(***************************************************************************)
(* What a step does to the messages: old ones are taken, new ones put.     *)
(***************************************************************************)
Posts(old, new) == Mail' \cup old = Mail \cup new /\ new \subseteq Mail'

LEMMA LineTurns ==
  ASSUME NEW old, NEW new, Posts(old, new), NEW l \in Lines
  PROVE  /\ (\A x \in old \cup new : x.tag # l) => Msgs(l)' = Msgs(l)
         /\ (\A x \in old \cup new : x.tag = l) /\ old \cap Msgs(l)' \subseteq new =>
              Msgs(l)' = (Msgs(l) \ old) \cup new
<1>1. Msgs(l)' = {m \in Mail' : m.tag = l}
  BY DEF Msgs
<1>2. ASSUME \A x \in old \cup new : x.tag # l PROVE Msgs(l)' = Msgs(l)
  BY <1>1, <1>2 DEF Posts, Msgs
<1>3. ASSUME \A x \in old \cup new : x.tag = l, old \cap Msgs(l)' \subseteq new
      PROVE  Msgs(l)' = (Msgs(l) \ old) \cup new
  BY <1>1, <1>3 DEF Posts, Msgs
<1> QED BY <1>2, <1>3

(* Of a message that is rewritten and is still the only one of its kind    *)
(* nothing is left.                                                        *)
SameKind(m, r) == \/ m.isreq /\ r.isreq /\ Owner(m) = Owner(r)
                  \/ IsCohe(m) /\ IsCohe(r) /\ m.node = r.node

LEMMA Rewritten ==
  ASSUME AllOnes', NEW l \in Lines, NEW m, NEW r, Posts({m}, {r}),
         m.tag = l, r.tag = l, SameKind(m, r)
  PROVE  /\ Msgs(l)' = (Msgs(l) \ {m}) \cup {r}
         /\ \A k \in Lines : k # l => Msgs(k)' = Msgs(k)
<1>1. r \in Msgs(l)'
  <2>1. r \in Mail'
    BY DEF Posts
  <2> QED BY <2>1 DEF Msgs
<1>2. m \in Msgs(l)' => m = r
  BY <1>1 DEF AllOnes, Ones, OneToken, OneCohe, SameKind, IsCohe, Owner
<1>3. {m} \cap Msgs(l)' \subseteq {r} /\ \A x \in {m} \cup {r} : x.tag = l
  BY <1>2
<1>4. Msgs(l)' = (Msgs(l) \ {m}) \cup {r}
  BY <1>3, LineTurns
<1>5. ASSUME NEW k \in Lines, k # l PROVE Msgs(k)' = Msgs(k)
  <2>1. \A x \in {m} \cup {r} : x.tag # k
    BY <1>5
  <2> QED BY <2>1, LineTurns
<1> QED BY <1>4, <1>5

LEMMA Taken ==
  ASSUME NEW l \in Lines, NEW m, Posts({m}, {}), m.tag = l, m \notin Msgs(l)'
  PROVE  /\ Msgs(l)' = Msgs(l) \ {m}
         /\ \A k \in Lines : k # l => Msgs(k)' = Msgs(k)
<1>1. {m} \cap Msgs(l)' \subseteq {} /\ \A x \in {m} \cup {} : x.tag = l
  OBVIOUS
<1>2. Msgs(l)' = (Msgs(l) \ {m}) \cup {}
  BY <1>1, LineTurns
<1>3. ASSUME NEW k \in Lines, k # l PROVE Msgs(k)' = Msgs(k)
  <2>1. \A x \in {m} \cup {} : x.tag # k
    BY <1>3
  <2> QED BY <2>1, LineTurns
<1> QED BY <1>2, <1>3

LEMMA Put ==
  ASSUME NEW l \in Lines, NEW r, Posts({}, {r}), r.tag = l
  PROVE  /\ Msgs(l)' = Msgs(l) \cup {r}
         /\ \A k \in Lines : k # l => Msgs(k)' = Msgs(k)
<1>1. {} \cap Msgs(l)' \subseteq {r} /\ \A x \in {} \cup {r} : x.tag = l
  OBVIOUS
<1>2. Msgs(l)' = (Msgs(l) \ {}) \cup {r}
  BY <1>1, LineTurns
<1>3. ASSUME NEW k \in Lines, k # l PROVE Msgs(k)' = Msgs(k)
  <2>1. \A x \in {} \cup {r} : x.tag # k
    BY <1>3
  <2> QED BY <2>1, LineTurns
<1> QED BY <1>2, <1>3

LEMMA Untouched ==
  ASSUME Posts({}, {}) PROVE \A k \in Lines : Msgs(k)' = Msgs(k)
  BY DEF Posts, Msgs

(* The queues of the directory, by what moves together.                    *)
Ins     == Range(inReq) \cup Range(ReadyReqs)
Outs    == Range(outCohe) \cup Range(outRep) \cup Range(OutboundReqs)
Waiting == UNION {Range(BufPend[l]) : l \in Lines}

LEMMA MailParts ==
  /\ Mail = Ins \cup Outs \cup Waiting \cup Range(inRep) \cup CacheMail
  /\ Mail' = Ins' \cup Outs' \cup Waiting' \cup Range(inRep)' \cup CacheMail'
<1>1. DirMail = Ins \cup Outs \cup Waiting \cup Range(inRep)
  BY DEF DirMail, Ins, Outs, Waiting
<1>2. DirMail' = Ins' \cup Outs' \cup Waiting' \cup Range(inRep)'
  BY DEF DirMail, Ins, Outs, Waiting
<1> QED BY <1>1, <1>2 DEF Mail

LEMMA PartsSame ==
  /\ UNCHANGED <<inReq, ReadyReqs>> => Ins' = Ins
  /\ UNCHANGED <<OutboundReqs, outVars>> => Outs' = Outs
  /\ UNCHANGED BufPend => Waiting' = Waiting
  /\ UNCHANGED inRep => Range(inRep)' = Range(inRep)
  /\ UNCHANGED l2Vars => CacheMail' = CacheMail
  /\ UNCHANGED dirVars => DirMail' = DirMail
<1>1. UNCHANGED l2Vars => UNCHANGED <<requests, replies, coheReps, coheIn, atL1>>
  BY DEF l2Vars, cacheVars, portVars
<1>2. UNCHANGED dirVars =>
        UNCHANGED <<inReq, inRep, outCohe, outRep, ReadyReqs, OutboundReqs, BufPend>>
  BY DEF dirVars, inVars, outVars, queueVars
<1>3. UNCHANGED l2Vars => CacheMail' = CacheMail
  BY <1>1 DEF CacheMail
<1>4. UNCHANGED dirVars => DirMail' = DirMail
  BY <1>2 DEF DirMail
<1> QED BY <1>3, <1>4 DEF Ins, Outs, Waiting, outVars

LEMMA CommitPosts ==
  ASSUME ProtocolInv, ServeReq
  PROVE  /\ Request \in Ins
         /\ CommitReq => Ins' \cup {Request} = Ins
         /\ \A r \in REQ : LeaveReq(r) => Ins' \cup {Request} = Ins \cup {r} /\ r \in Ins'
<1>1. ReadyReqs \in Seq(REQ) /\ inReq \in Seq(REQ)
  BY QueueTypes
<1>2. CASE sel = "READY"
  <2>1. ReadyReqs # <<>> /\ wasPending
    BY <1>2 DEF ProtocolInv, IInv, CtlInv, PickedThere, ServeReq, wasPending
  <2>2. Request = Head(ReadyReqs) /\ Request \in REQ
    BY <1>1, <2>1, SeqFacts DEF Request
  <2>3. Range(Tail(ReadyReqs)) \cup {Request} = Range(ReadyReqs)
    BY <1>1, <2>1, <2>2, TailRange
  <2>4. \A r \in REQ : Range(<<r>> \o Tail(ReadyReqs)) = Range(Tail(ReadyReqs)) \cup {r}
    BY <1>1, <2>1, LeaveRange
  <2> QED BY <2>1, <2>3, <2>4 DEF Ins, CommitReq, LeaveReq
<1>3. CASE sel = "REQ"
  <2>1. inReq # <<>> /\ ~wasPending
    BY <1>3 DEF ProtocolInv, IInv, CtlInv, PickedThere, ServeReq, wasPending
  <2>2. Request = Head(inReq) /\ Request \in REQ
    BY <1>1, <2>1, SeqFacts DEF Request
  <2>3. Range(Tail(inReq)) \cup {Request} = Range(inReq)
    BY <1>1, <2>1, <2>2, TailRange
  <2>4. \A r \in REQ : Range(<<r>> \o Tail(inReq)) = Range(Tail(inReq)) \cup {r}
    BY <1>1, <2>1, LeaveRange
  <2> QED BY <2>1, <2>3, <2>4 DEF Ins, CommitReq, LeaveReq
<1> QED BY <1>2, <1>3 DEF ServeReq

LEMMA AddPosts ==
  ASSUME ProtocolInv, NEW m \in REQ
  PROVE  /\ AddReq(m) /\ UNCHANGED OutboundReqs => Outs' = Outs \cup {m}
         /\ SendOrQueue(m) => Outs' = Outs \cup {m}
<1>1. outCohe \in Seq(REQ) /\ outRep \in Seq(REQ) /\ OutboundReqs \in Seq(REQ)
  BY QueueTypes
<1>2. /\ Range(Append(outCohe, m)) = Range(outCohe) \cup {m}
      /\ Range(Append(outRep, m)) = Range(outRep) \cup {m}
      /\ Range(Append(OutboundReqs, m)) = Range(OutboundReqs) \cup {m}
  BY <1>1, PutRange
<1>3. AddReq(m) /\ UNCHANGED OutboundReqs => Outs' = Outs \cup {m}
  BY <1>2 DEF AddReq, Outs
<1>4. PortFull(m) /\ SendOrQueue(m) => Outs' = Outs \cup {m}
  BY <1>2 DEF SendOrQueue, Outs, outVars
<1> QED BY <1>3, <1>4 DEF SendOrQueue

LEMMA RevivePosts ==
  ASSUME ProtocolInv, NEW l \in Lines, NEW first \in Seq(REQ),
         DirCheckBuf(l, first), UNCHANGED inReq
  PROVE  Ins' \cup Waiting' = Ins \cup Waiting \cup Range(first)
<1>1. ReadyReqs \in Seq(REQ) /\ BufPend \in [Lines -> Seq(REQ)] /\ BufPend[l] \in Seq(REQ)
  BY QueueTypes
<1>2. ReadyReqs' = (ReadyReqs \o first) \o BufPend[l] /\ ReadyReqs \o first \in Seq(REQ)
  BY <1>1, SeqFacts DEF DirCheckBuf
<1>3. Range(ReadyReqs') = Range(ReadyReqs) \cup Range(first) \cup Range(BufPend[l])
  <2>1. Range(ReadyReqs \o first) = Range(ReadyReqs) \cup Range(first)
    BY <1>1, RangeConcat
  <2> PICK p \in Seq(REQ) : p = ReadyReqs \o first
    BY <1>2
  <2>2. Range(p \o BufPend[l]) = Range(p) \cup Range(BufPend[l])
    BY ONLY <1>1, p \in Seq(REQ), RangeConcat
  <2> QED BY <1>2, <2>1, <2>2
<1>4. /\ BufPend' = [BufPend EXCEPT ![l] = <<>>] /\ BufPend'[l] = <<>>
      /\ \A k \in Lines : k # l => BufPend'[k] = BufPend[k]
  BY <1>1 DEF DirCheckBuf
<1>5. Range(BufPend'[l]) = {}
  BY <1>4, Ranges
<1>6. Waiting = Waiting' \cup Range(BufPend[l])
  <2>1. ASSUME NEW x \in Waiting' PROVE x \in Waiting
    <3> PICK k \in Lines : x \in Range(BufPend'[k])
      BY DEF Waiting
    <3>1. x \in Range(BufPend[k])
      BY <1>4, <1>5
    <3> QED BY <3>1 DEF Waiting
  <2>2. ASSUME NEW x \in Waiting, x \notin Range(BufPend[l]) PROVE x \in Waiting'
    <3> PICK k \in Lines : x \in Range(BufPend[k])
      BY DEF Waiting
    <3>1. x \in Range(BufPend'[k])
      BY <1>4, <2>2
    <3> QED BY <3>1 DEF Waiting
  <2>3. Range(BufPend[l]) \subseteq Waiting
    BY DEF Waiting
  <2> QED BY <2>1, <2>2, <2>3
<1>7. Ins' = Range(inReq) \cup Range(ReadyReqs')
  BY DEF Ins
<1> QED BY <1>3, <1>6, <1>7 DEF Ins

LEMMA CommitRepPosts ==
  ASSUME ProtocolInv, ServeRep
  PROVE  /\ Answer \in Range(inRep) /\ Answer \in AnswerMsg /\ Answer \in REQ
         /\ CommitRep => Range(inRep)' \cup {Answer} = Range(inRep)
<1>1. inRep \in Seq(AnswerMsg) /\ inRep # <<>>
  BY DEF ServeRep, ProtocolInv, IInv, CtlInv, PickedThere, Shapes, DirShapes
<1>2. Answer = Head(inRep) /\ Answer \in AnswerMsg
  BY <1>1, SeqFacts DEF Answer
<1>3. Range(Tail(inRep)) \cup {Answer} = Range(inRep)
  BY <1>1, <1>2, Ranges
<1> QED BY <1>2, <1>3, ShapesAreMessages DEF CommitRep
-----------------------------------------------------------------------------
(***************************************************************************)
(* What a step leaves as it is for a line.                                 *)
(***************************************************************************)
SameCache(n, l) ==
  /\ st'[n][l] \in Private <=> st[n][l] \in Private
  /\ st'[n][l] = "SH_CL" <=> st[n][l] = "SH_CL"
  /\ st'[n][l] = "INVALID" <=> st[n][l] = "INVALID"
  /\ wrb_buf'[n][l] \in WrbTypes <=> wrb_buf[n][l] \in WrbTypes
  /\ mshrs'[n][l].excl = mshrs[n][l].excl
  /\ mshrs'[n][l].pend_cohe_type = mshrs[n][l].pend_cohe_type
SameCaches(l) == \A n \in Nodes : SameCache(n, l)
SameTrans(l) ==
  LET e == extra[l]
      f == extra'[l]
  IN  /\ e = NULL <=> f = NULL
      /\ f.pend_req = e.pend_req /\ f.left = e.left /\ f.next_req_type = e.next_req_type
      /\ f.ret_st = e.ret_st /\ f.waiting = e.waiting /\ f.WaitingFor = e.WaitingFor
      /\ f.WasHere = e.WasHere
SameBook(l) ==
  /\ dirst'[l] = dirst[l] /\ vector'[l] = vector[l] /\ SameTrans(l)
  /\ req_partial' = l => req_partial = l
SameSignal(n, l) ==
  /\ ExclComes(n, l)' <=> ExclComes(n, l)
  /\ ShareComes(n, l)' <=> ShareComes(n, l)
  /\ BackComes(n, l)' <=> BackComes(n, l)
  /\ InvalComes(n, l)' <=> InvalComes(n, l)
SameSignals(l) == (Transferred(l)' <=> Transferred(l)) /\ \A n \in Nodes : SameSignal(n, l)

(* Then the directory is right about the line as it was, if the messages   *)
(* are.                                                                    *)
LEMMA SamePhase ==
  ASSUME NEW l \in Lines, SameBook(l), SameSignals(l)
  PROVE  /\ Forwarding(l)' <=> Forwarding(l)
         /\ Invalidating(l)' <=> Invalidating(l)
         /\ Known(l)' <=> Known(l)
         /\ \A n \in Nodes : /\ OwnerIs(n, l)' <=> OwnerIs(n, l)
                             /\ May(n, l)' <=> May(n, l)
<1>1. /\ Forwarding(l)' <=> Forwarding(l)
      /\ Invalidating(l)' <=> Invalidating(l)
  BY DEF SameBook, SameTrans, Forwarding, Invalidating
<1>2. Known(l)' <=> Known(l)
  BY <1>1 DEF SameBook, SameTrans, SameSignals, Known
<1>3. ASSUME NEW n \in Nodes PROVE OwnerIs(n, l)' <=> OwnerIs(n, l)
  BY <1>1, <1>2 DEF SameBook, SameTrans, OwnerIs
<1>4. ASSUME NEW n \in Nodes PROVE May(n, l)' <=> May(n, l)
  BY <1>1, <1>2 DEF SameBook, SameTrans, SameSignals, SameSignal, May
<1> QED BY <1>1, <1>2, <1>3, <1>4

LEMMA SameHolders ==
  ASSUME NEW l \in Lines, NEW n \in Nodes, SameCache(n, l), SameSignal(n, l)
  PROVE  /\ Owns(n, l)' <=> Owns(n, l)
         /\ Shares(n, l)' <=> Shares(n, l)
         /\ OneKind(n, l)' <=> OneKind(n, l)
<1>1. Owns(n, l)' <=> Owns(n, l)
  BY DEF SameCache, SameSignal, Owns
<1>2. Shares(n, l)' <=> Shares(n, l)
  BY DEF SameCache, SameSignal, Shares
<1>3. OneKind(n, l)' <=> OneKind(n, l)
  BY DEF SameCache, SameSignal, OneKind
<1> QED BY <1>1, <1>2, <1>3

LEMMA SameFit ==
  ASSUME NEW l \in Lines, NEW n \in Nodes, SameCache(n, l), SameSignal(n, l),
         vector'[l] = vector[l], NEW m
  PROVE  Fits(m, n, l)' <=> Fits(m, n, l)
<1>1. Owns(n, l)' <=> Owns(n, l)
  BY SameHolders
<1> QED BY <1>1 DEF Fits, SameCache

LEMMA Steady ==
  ASSUME NEW l \in Lines, Agree(l), Ones(l), Ones(l)', SameCaches(l), SameBook(l), SameSignals(l),
         Backs(l)' = Backs(l), \A x \in Msgs(l)' : MessageOK(x, l)
  PROVE  Agree(l)'
<1>1. \A n \in Nodes : SameCache(n, l) /\ SameSignal(n, l)
  BY DEF SameCaches, SameSignals
<1>2. \A n \in Nodes : \A m : Fits(m, n, l)' <=> Fits(m, n, l)
  BY <1>1, SameFit DEF SameBook
<1>3. Believes(l)'
  <2>1. Believes(l)
    BY DEF Agree
  <2> QED BY <2>1, SamePhase DEF Believes, BelievesWait, BelievesInval, BelievesForward,
                                 SameBook, SameTrans, SameSignals
<1>4. PendOK(l)'
  <2> SUFFICES ASSUME Keeps(l)', NEW p, p = extra'[l].pend_req PROVE Fits(p, Owner(p), l)'
    BY DEF PendOK, Owner
  <2>1. Keeps(l) /\ p = extra[l].pend_req
    BY SamePhase DEF Keeps, SameBook, SameTrans
  <2> PICK n : n = Owner(p)
    OBVIOUS
  <2>2. n \in Nodes /\ Fits(p, n, l)
    BY <2>1 DEF Ones, OneKept, Agree, PendOK
  <2>3. Fits(p, n, l)'
    BY <1>2, <2>2
  <2> QED BY <2>3 DEF Owner
<1>5. ASSUME NEW x \in Msgs(l)' PROVE MessageOK(x, l)'
  <2>1. MessageOK(x, l)
    OBVIOUS
  <2>2. x.isreq => Owner(x) \in Nodes
    BY DEF Ones, OneToken, Owner
  <2> PICK n : n = Owner(x)
    OBVIOUS
  <2>3. x.isreq => Fits(x, n, l)'
    BY <1>2, <2>1, <2>2 DEF MessageOK
  <2>4. OfTransaction(x, l) => OfTransaction(x, l)'
    BY SamePhase DEF OfTransaction, SameBook, SameTrans
  <2> QED BY <2>1, <2>3, <2>4 DEF MessageOK, IsCohe, Owner
<1>6. Backs(l)' <= 1
  BY DEF Agree
<1>7. \A n \in Nodes : /\ OneKind(n, l)'
                       /\ OwnerIs(n, l)' <=> Owns(n, l)'
                       /\ Shares(n, l)' => May(n, l)'
  BY <1>1, SamePhase, SameHolders DEF Agree
<1> QED BY <1>3, <1>4, <1>5, <1>6, <1>7 DEF Agree
-----------------------------------------------------------------------------
(***************************************************************************)
(* What the messages that are taken and put mean for the signals.          *)
(***************************************************************************)
(* A message that permits nothing and tells nothing.                       *)
Silent(m) ==
  /\ m.req_type \notin ExclTypes \cup {"REPLY_SH"} \cup WrbTypes
  /\ ~(m.type = "COHE" /\ m.forward_to = NULL)
  /\ ~(m.type = "COHE_REPLY" /\ m.forward_to # NULL /\ ~m.isreq)

LEMMA SilentTurns ==
  ASSUME NEW l \in Lines, NEW old, NEW new, Msgs(l)' = (Msgs(l) \ old) \cup new,
         \A x \in old \cup new : Silent(x)
  PROVE  SameSignals(l)
<1>1. \A x : ~Silent(x) => (x \in Msgs(l)' <=> x \in Msgs(l))
  OBVIOUS
<1>2. Transferred(l)' <=> Transferred(l)
  BY <1>1 DEF Transferred, Silent
<1>3. ASSUME NEW n \in Nodes PROVE SameSignal(n, l)
  <2>1. ExclComes(n, l)' <=> ExclComes(n, l)
    BY <1>1 DEF ExclComes, Silent
  <2>2. ShareComes(n, l)' <=> ShareComes(n, l)
    BY <1>1 DEF ShareComes, Silent
  <2>3. BackComes(n, l)' <=> BackComes(n, l)
    BY <1>1 DEF BackComes, Silent
  <2>4. InvalComes(n, l)' <=> InvalComes(n, l)
    BY <1>1 DEF InvalComes, Silent
  <2> QED BY <2>1, <2>2, <2>3, <2>4 DEF SameSignal
<1> QED BY <1>2, <1>3 DEF SameSignals

(* A message that becomes another with the same meaning.                   *)
Means(m, r) ==
  /\ r.node = m.node /\ r.req_type = m.req_type /\ r.isreq = m.isreq
  /\ r.forward_to = m.forward_to /\ r.tag = m.tag
  /\ IsCohe(r) <=> IsCohe(m)
  /\ r.forward_to = NULL => (r.type = "COHE" <=> m.type = "COHE")
  /\ r.forward_to # NULL /\ ~r.isreq => (r.type = "COHE_REPLY" <=> m.type = "COHE_REPLY")
  /\ r.preprocessed \/ (r.type = "REPLY" /\ r.reply = "REPLY") => r.req_type \in DataTypes

LEMMA MeaningKept ==
  ASSUME NEW l \in Lines, NEW m \in Msgs(l), NEW r, Means(m, r),
         Msgs(l)' = (Msgs(l) \ {m}) \cup {r}, \A x \in Msgs(l) : MessageOK(x, l)
  PROVE  SameSignals(l) /\ \A x \in Msgs(l)' : MessageOK(x, l)
<1>1. Transferred(l)' <=> Transferred(l)
  BY DEF Transferred, Means
<1>2. ASSUME NEW n \in Nodes PROVE SameSignal(n, l)
  <2>1. ExclComes(n, l)' <=> ExclComes(n, l)
    BY DEF ExclComes, Means
  <2>2. ShareComes(n, l)' <=> ShareComes(n, l)
    BY DEF ShareComes, Means
  <2>3. BackComes(n, l)' <=> BackComes(n, l)
    BY DEF BackComes, Means
  <2>4. InvalComes(n, l)' <=> InvalComes(n, l)
    BY DEF InvalComes, Means
  <2> QED BY <2>1, <2>2, <2>3, <2>4 DEF SameSignal
<1>3. MessageOK(r, l)
  <2>1. Owner(r) = Owner(m)
    BY DEF Means, Owner
  <2>2. Fits(m, Owner(m), l) => Fits(r, Owner(r), l)
    BY <2>1 DEF Fits, Means
  <2>3. OfTransaction(m, l) => OfTransaction(r, l)
    BY DEF OfTransaction, Means
  <2> QED BY <2>2, <2>3 DEF MessageOK, Means
<1> QED BY <1>1, <1>2, <1>3 DEF SameSignals

(* The request or the reply of one processor that becomes another, new     *)
(* being that one, or is gone.                                             *)
IsPlain(m) == m.type \in {"REQUEST", "REPLY"} /\ m.isreq /\ m.forward_to = NULL
TokenSignal(n, l, m, new) ==
  /\ ExclComes(n, l)' <=> \/ n # m.node /\ ExclComes(n, l)
                          \/ n = m.node /\ \E r \in new : r.req_type \in ExclTypes
  /\ ShareComes(n, l)' <=> \/ n # m.node /\ ShareComes(n, l)
                           \/ n = m.node /\ \E r \in new : r.req_type = "REPLY_SH"
  /\ BackComes(n, l)' <=> BackComes(n, l)
  /\ InvalComes(n, l)' <=> InvalComes(n, l)

LEMMA TokenTurns ==
  ASSUME NEW l \in Lines, Ones(l), NEW m \in Msgs(l), IsPlain(m), NEW new,
         \A r \in new : IsPlain(r) /\ r \in Kinds /\ r.node = m.node,
         Msgs(l)' = (Msgs(l) \ {m}) \cup new
  PROVE  /\ Transferred(l)' <=> Transferred(l)
         /\ \A n \in Nodes : TokenSignal(n, l, m, new)
<1>1. ASSUME NEW x \in Msgs(l), x.req_type \in DataTypes \cup ReqTypes, x # m
      PROVE  x.node # m.node
  <2>1. x.isreq /\ x.forward_to = NULL
    BY <1>1, KindFacts DEF Ones, Shaped
  <2> QED BY <1>1, <2>1 DEF Ones, OneToken, Owner, IsPlain
<1>2. Transferred(l)' <=> Transferred(l)
  BY DEF Transferred, IsPlain
<1>3. m \in Kinds /\ \A x : x \in Kinds /\ IsPlain(x) => x.req_type \notin WrbTypes
  <2>1. m \in Kinds
    BY DEF Ones, Shaped
  <2>2. ASSUME NEW x \in Kinds, IsPlain(x) PROVE x.req_type \notin WrbTypes
    BY <2>2, KindFacts DEF IsPlain
  <2> QED BY <2>1, <2>2
<1>4. ExclTypes \subseteq DataTypes /\ "REPLY_SH" \in DataTypes
  BY DEF ExclTypes, DataTypes
<1>5. ASSUME NEW n \in Nodes PROVE TokenSignal(n, l, m, new)
  <2>1. ExclComes(n, l)' <=> \/ n # m.node /\ ExclComes(n, l)
                             \/ n = m.node /\ \E r \in new : r.req_type \in ExclTypes
    BY <1>1, <1>4 DEF ExclComes
  <2>2. ShareComes(n, l)' <=> \/ n # m.node /\ ShareComes(n, l)
                              \/ n = m.node /\ \E r \in new : r.req_type = "REPLY_SH"
    BY <1>1, <1>4 DEF ShareComes
  <2>3. BackComes(n, l)' <=> BackComes(n, l)
    BY <1>3 DEF BackComes
  <2>4. InvalComes(n, l)' <=> InvalComes(n, l)
    BY DEF InvalComes, IsPlain
  <2> QED BY <2>1, <2>2, <2>3, <2>4 DEF TokenSignal
<1> QED BY <1>2, <1>5

(* A cache that waits for nothing has no request and no reply under way.   *)
LEMMA NoTokenComes ==
  ASSUME NEW l \in Lines, Ones(l), NEW n \in Nodes, ~Waits(n, l)
  PROVE  /\ ~ExclComes(n, l) /\ ~ShareComes(n, l)
         /\ \A x \in Msgs(l) : x.isreq => Owner(x) # n
         /\ Keeps(l) => Owner(extra[l].pend_req) # n
<1>1. \A x \in Msgs(l) : x.isreq => Owner(x) # n
  BY DEF Ones, OneToken
<1>2. ASSUME NEW x \in Msgs(l), x.req_type \in DataTypes PROVE x.node # n
  <2>1. x.isreq /\ x.forward_to = NULL
    BY <1>2, KindFacts DEF Ones, Shaped
  <2> QED BY <1>1, <2>1 DEF Owner
<1>3. ~ExclComes(n, l) /\ ~ShareComes(n, l)
  BY <1>2 DEF ExclComes, ShareComes, ExclTypes, DataTypes
<1> QED BY <1>1, <1>3 DEF Ones, OneKept

(* There is one owner, and it is no sharer unless it is told to be more.   *)
LEMMA OneOwner ==
  ASSUME ProtocolInv, NEW l \in Lines, Agree(l)
  PROVE  /\ \A n, k \in Nodes : Owns(n, l) /\ Owns(k, l) => n = k
         /\ \A n \in Nodes : May(n, l) /\ Owns(n, l) => ExclComes(n, l)
         /\ \A n \in Nodes : Owns(n, l) /\ Known(l) => vector[l] = {n} /\ dirst[l] = "DIR_PRIVATE"
<1>1. dirst[l] = "DIR_PRIVATE" => \E n \in Nodes : vector[l] = {n}
  BY DEF ProtocolInv, IInv, LineInv, VectorOK
<1>2. \A n \in Nodes : OwnerIs(n, l) <=> Owns(n, l)
  BY DEF Agree
<1>3. \A n, k \in Nodes : OwnerIs(n, l) /\ OwnerIs(k, l) => n = k
  BY <1>1 DEF OwnerIs
<1>4. \A n \in Nodes : May(n, l) /\ OwnerIs(n, l) => ExclComes(n, l)
  BY <1>1 DEF OwnerIs, May, Known, Forwarding, Invalidating
<1>5. \A n \in Nodes : OwnerIs(n, l) /\ Known(l) => vector[l] = {n} /\ dirst[l] = "DIR_PRIVATE"
  BY <1>1 DEF OwnerIs
<1> QED BY <1>2, <1>3, <1>4, <1>5
-----------------------------------------------------------------------------
(***************************************************************************)
(* The directory decides on a request.                                     *)
(***************************************************************************)
LEMMA FitsStill ==
  ASSUME NEW l \in Lines, NEW n \in Nodes, NEW x, SameCache(n, l), Fits(x, n, l),
         x.req_type = "UPGRADE" => /\ n \in vector'[l] => n \in vector[l]
                                   /\ ~Owns(n, l)'
  PROVE  Fits(x, n, l)'
  BY DEF Fits, SameCache

(* A request for a line without owner and without transaction: who has it, *)
(* and that what becomes of the request fits.                              *)
Grantable(l, m) ==
  /\ m \in Msgs(l) /\ IsPlain(m) /\ m.req_type \in ReqTypes
  /\ extra[l] = NULL /\ dirst[l] # "DIR_PRIVATE"

LEMMA GrantFacts ==
  ASSUME ProtocolInv, NEW l \in Lines, Agree(l), Ones(l), NEW m, Grantable(l, m)
  PROVE  /\ m.node \in Nodes /\ m.tag = l
         /\ \A k \in Nodes : ~Owns(k, l)
         /\ \A k \in Nodes : Shares(k, l) => k \in vector[l] /\ dirst[l] = "DIR_SHARED"
         /\ \A x \in Msgs(l) : ~IsCohe(x)
         /\ \A x \in Msgs(l) : x # m /\ x.isreq => Owner(x) # m.node
         /\ \A r : r.req_type = GrantType(m) => Fits(r, m.node, l)
         /\ GrantType(m) \in {"REPLY_SH", "REPLY_EXCL", "REPLY_UPGRADE"}
         /\ GrantType(m) = "REPLY_UPGRADE" => CoheReqType(m) = "UPGRADE" /\ m.node \in vector[l]
<1>1. m \in Kinds /\ m.tag = l /\ m \in REQ /\ Owner(m) = m.node /\ Waits(m.node, l)
  BY DEF Ones, Shaped, OneToken, Grantable, IsPlain, Owner
<1>2. m.node \in Nodes
  BY <1>1 DEF REQ
<1> PICK n \in Nodes : n = m.node
  BY <1>2
<1>3. Known(l) /\ \A k \in Nodes : ~OwnerIs(k, l)
  BY DEF Known, OwnerIs, Grantable
<1>4. \A k \in Nodes : ~Owns(k, l)
  BY <1>3 DEF Agree
<1>5. ASSUME NEW k \in Nodes, Shares(k, l) PROVE k \in vector[l] /\ dirst[l] = "DIR_SHARED"
  <2>1. May(k, l) /\ ~ExclComes(k, l)
    BY <1>4, <1>5 DEF Agree, Owns
  <2> QED BY <2>1 DEF May, Invalidating, Grantable
<1>6. \A x \in Msgs(l) : ~IsCohe(x)
  BY DEF Ones, OneCohe, Grantable
<1>7. \A x \in Msgs(l) : x # m /\ x.isreq => Owner(x) # m.node
  BY <1>1 DEF Ones, OneToken, Grantable, IsPlain
<1>8. Fits(m, n, l)
  BY <1>1 DEF Agree, MessageOK, Grantable, IsPlain
<1>9. st[n][l] = "INVALID" \/ (st[n][l] = "SH_CL" /\ n \in vector[l] /\ dirst[l] = "DIR_SHARED")
  <2>1. st[n][l] = "INVALID" \/ st[n][l] = "SH_CL"
    BY <1>1 DEF ProtocolInv, L2Consistent, MSHROK, Waits
  <2> QED BY <1>5, <2>1 DEF Shares
<1>10. ASSUME NEW r, r.req_type = GrantType(m) PROVE Fits(r, n, l)
  <2>1. CASE m.req_type = "READ_SH"
    <3>1. r.req_type = "REPLY_SH" \/ (~MSI /\ r.req_type = "REPLY_EXCL")
      BY <1>10, <2>1 DEF GrantType, CoheReqType
    <3> QED BY <1>8, <2>1, <3>1 DEF Fits, ReadTypes, WriteTypes
  <2>2. CASE m.req_type = "READ_OWN"
    <3>1. r.req_type = "REPLY_EXCL"
      BY <1>10, <2>2 DEF GrantType, CoheReqType
    <3> QED BY <1>8, <2>2, <3>1 DEF Fits, ReadTypes, WriteTypes
  <2>3. CASE m.req_type = "UPGRADE" /\ dirst[l] = "DIR_SHARED" /\ n \in vector[l]
    <3>1. r.req_type = "REPLY_UPGRADE"
      BY <1>1, <1>10, <2>3 DEF GrantType, CoheReqType
    <3> QED BY <1>8, <2>3, <3>1 DEF Fits, ReadTypes, WriteTypes
  <2>4. CASE m.req_type = "UPGRADE" /\ ~(dirst[l] = "DIR_SHARED" /\ n \in vector[l])
    <3>1. r.req_type = "REPLY_EXCL"
      BY <1>1, <1>10, <2>4 DEF GrantType, CoheReqType
    <3>2. st[n][l] = "INVALID"
      BY <1>9, <2>4
    <3> QED BY <1>8, <2>4, <3>1, <3>2 DEF Fits, ReadTypes, WriteTypes
  <2> QED BY <2>1, <2>2, <2>3, <2>4 DEF Grantable, ReqTypes
<1>11. GrantType(m) \in {"REPLY_SH", "REPLY_EXCL", "REPLY_UPGRADE"}
  BY DEF GrantType
<1>12. GrantType(m) = "REPLY_UPGRADE" => CoheReqType(m) = "UPGRADE" /\ m.node \in vector[l]
  BY <1>1 DEF GrantType, CoheReqType, Grantable, ReqTypes
<1> QED BY <1>1, <1>2, <1>4, <1>5, <1>6, <1>7, <1>10, <1>11, <1>12

(* VISIT_MEM and DIR_REPLY.                                                *)
LEMMA GrantAgrees ==
  ASSUME ProtocolInv, NEW l \in Lines, Agree(l), Ones(l), NEW m, Grantable(l, m), Grants(m),
         NEW r \in Kinds, IsPlain(r), r.node = m.node, r.req_type = GrantType(m),
         Msgs(l)' = (Msgs(l) \ {m}) \cup {r}, Backs(l)' = Backs(l), SameCaches(l),
         extra'[l] = NULL,
         dirst'[l] = IF r.req_type = "REPLY_SH" THEN "DIR_SHARED" ELSE "DIR_PRIVATE",
         vector'[l] = IF CoheReqType(m) = "READ_SH" THEN vector[l] \cup {m.node} ELSE {m.node}
  PROVE  Agree(l)'
<1>1. /\ m.node \in Nodes /\ m.tag = l
      /\ \A k \in Nodes : ~Owns(k, l)
      /\ \A k \in Nodes : Shares(k, l) => k \in vector[l] /\ dirst[l] = "DIR_SHARED"
      /\ \A x \in Msgs(l) : ~IsCohe(x)
      /\ \A x \in Msgs(l) : x # m /\ x.isreq => Owner(x) # m.node
      /\ Fits(r, m.node, l)
      /\ r.req_type \in {"REPLY_SH", "REPLY_EXCL", "REPLY_UPGRADE"}
      /\ r.req_type = "REPLY_UPGRADE" => CoheReqType(m) = "UPGRADE" /\ m.node \in vector[l]
  BY GrantFacts
<1> PICK n \in Nodes : n = m.node
  BY <1>1
<1>2. \A k \in Nodes : TokenSignal(k, l, m, {r})
  <2>1. m \in Msgs(l) /\ IsPlain(m) /\ \A x \in {r} : IsPlain(x) /\ x \in Kinds /\ x.node = m.node
    BY DEF Grantable
  <2> QED BY <2>1, TokenTurns
<1>3. \A k \in Nodes :
        /\ ExclComes(k, l)' <=> k = n /\ r.req_type \in ExclTypes
        /\ ShareComes(k, l)' <=> \/ k # n /\ ShareComes(k, l)
                                 \/ k = n /\ r.req_type = "REPLY_SH"
        /\ ~BackComes(k, l)'
  BY <1>1, <1>2 DEF TokenSignal, Owns
<1>4. \A k \in Nodes : SameCache(k, l)
  BY DEF SameCaches
<1>5. \A k \in Nodes : Owns(k, l)' <=> k = n /\ r.req_type \in ExclTypes
  BY <1>1, <1>3, <1>4 DEF Owns, SameCache
<1>6. dirst[l] = "UNCACHED" => vector[l] = {}
  BY DEF ProtocolInv, IInv, LineInv, VectorOK
<1>7. /\ dirst'[l] = "DIR_PRIVATE" <=> r.req_type \in ExclTypes
      /\ dirst'[l] = "DIR_SHARED" <=> r.req_type = "REPLY_SH"
  BY <1>1 DEF ExclTypes
<1>8. r.req_type \in ExclTypes => vector'[l] = {n} /\ vector[l] \subseteq {n}
  <2>1. CASE CoheReqType(m) = "READ_SH" /\ r.req_type \in ExclTypes
    <3>1. dirst[l] = "UNCACHED" \/ vector[l] = {n}
      BY <1>1, <2>1 DEF GrantType, ExclTypes
    <3> QED BY <1>6, <2>1, <3>1
  <2>2. CASE CoheReqType(m) # "READ_SH"
    <3>1. dirst[l] = "DIR_SHARED" => vector[l] \ {n} = {}
      BY <1>1, <2>2 DEF Grants, Invalidates, Others
    <3>2. dirst[l] \in {"UNCACHED", "DIR_SHARED", "DIR_PRIVATE"}
      BY DEF ProtocolInv, IInv, LineInv, LineTypeOK
    <3> QED BY <1>6, <2>2, <3>1, <3>2 DEF Grantable
  <2> QED BY <2>1, <2>2
<1>9. r.req_type = "REPLY_SH" => vector'[l] = vector[l] \cup {n}
  BY DEF GrantType
<1>10. Known(l)' /\ ~Forwarding(l)' /\ ~Invalidating(l)' /\ Believes(l)'
  BY DEF Known, Forwarding, Invalidating, Believes
<1>11. ASSUME NEW k \in Nodes PROVE OwnerIs(k, l)' <=> Owns(k, l)'
  BY <1>5, <1>7, <1>8, <1>10 DEF OwnerIs
<1>12. ASSUME NEW k \in Nodes, Shares(k, l)' PROVE May(k, l)'
  <2>1. CASE r.req_type = "REPLY_SH"
    <3>1. k # n => Shares(k, l)
      BY <1>3, <1>4, <1>12 DEF Shares, SameCache
    <3> QED BY <1>1, <1>7, <1>9, <1>10, <2>1, <3>1 DEF May
  <2>2. CASE r.req_type \in ExclTypes
    <3>1. k # n => Shares(k, l)
      BY <1>3, <1>4, <1>12 DEF Shares, SameCache
    <3>2. k = n
      BY <1>1, <1>8, <2>2, <3>1
    <3> QED BY <1>3, <2>2, <3>2 DEF May
  <2> QED BY <1>1, <2>1, <2>2 DEF ExclTypes
<1>13. \A k \in Nodes : OneKind(k, l)'
  BY <1>3 DEF OneKind
<1>14. PendOK(l)' /\ Backs(l)' <= 1
  BY DEF PendOK, Keeps, Agree
<1>15. ASSUME NEW x \in Msgs(l)' PROVE MessageOK(x, l)'
  <2>1. CASE x = r
    <3>1. Fits(r, n, l)'
      BY <1>1, <1>4, FitsStill
    <3> QED BY <1>1, <2>1, <3>1 DEF MessageOK, IsPlain, Owner, IsCohe, DataTypes
  <2>2. CASE x \in Msgs(l) /\ x # m
    <3>1. MessageOK(x, l) /\ ~IsCohe(x)
      BY <1>1, <2>2 DEF Agree
    <3>2. x.isreq => Owner(x) \in Nodes /\ Owner(x) # n
      BY <1>1, <2>2 DEF Ones, OneToken
    <3> PICK k : k = Owner(x)
      OBVIOUS
    <3>3. ASSUME x.isreq PROVE Fits(x, k, l)'
      <4>1. k \in Nodes /\ k # n /\ Fits(x, k, l)
        BY <3>1, <3>2, <3>3 DEF MessageOK
      <4>2. ~Owns(k, l)'
        BY <1>5, <4>1
      <4>3. k \in vector'[l] => k \in vector[l]
        BY <1>1, <4>1
      <4> QED BY <1>4, <4>1, <4>2, <4>3, FitsStill
    <3> QED BY <3>1, <3>3 DEF MessageOK, Owner, IsCohe
  <2> QED BY <2>1, <2>2
<1> QED BY <1>10, <1>11, <1>12, <1>13, <1>14, <1>15 DEF Agree

(* A request that starts a transaction is taken; it told nothing yet.      *)
LEMMA RequestSilent ==
  ASSUME NEW m, IsPlain(m), m.req_type \in ReqTypes PROVE Silent(m)
  BY DEF Silent, IsPlain, ReqTypes, ExclTypes, WrbTypes

LEMMA RequestTaken ==
  ASSUME NEW l \in Lines, NEW m, IsPlain(m), m.req_type \in ReqTypes, SameCaches(l),
         Msgs(l)' = Msgs(l) \ {m}
  PROVE  /\ SameSignals(l)
         /\ \A k \in Nodes : /\ SameCache(k, l) /\ SameSignal(k, l)
                             /\ Owns(k, l)' <=> Owns(k, l)
                             /\ Shares(k, l)' <=> Shares(k, l)
                             /\ OneKind(k, l)' <=> OneKind(k, l)
<1>1. Msgs(l)' = (Msgs(l) \ {m}) \cup {} /\ \A x \in {m} \cup {} : Silent(x)
  BY RequestSilent
<1>2. SameSignals(l)
  BY <1>1, SilentTurns
<1>3. \A k \in Nodes : SameCache(k, l) /\ SameSignal(k, l)
  BY <1>2 DEF SameCaches, SameSignals
<1> QED BY <1>2, <1>3, SameHolders

(* The messages that stay, where the only COHEs are of the transaction.    *)
LEMMA OldOK ==
  ASSUME NEW l \in Lines, Ones(l), NEW x \in Msgs(l), MessageOK(x, l),
         \A k \in Nodes : SameCache(k, l),
         IsCohe(x) => OfTransaction(x, l)',
         \A k \in Nodes : x.isreq /\ Owner(x) = k /\ x.req_type = "UPGRADE" =>
           /\ k \in vector'[l] => k \in vector[l]
           /\ ~Owns(k, l)'
  PROVE  MessageOK(x, l)'
<1> PICK k : k = Owner(x)
  OBVIOUS
<1>1. ASSUME x.isreq PROVE Fits(x, k, l)'
  <2>1. k \in Nodes /\ Fits(x, k, l)
    BY <1>1 DEF MessageOK, Ones, OneToken
  <2> QED BY <1>1, <2>1, FitsStill
<1> QED BY <1>1 DEF MessageOK, Owner, IsCohe

(* WAITFORWRB.                                                             *)
LEMMA WaitAgrees ==
  ASSUME ProtocolInv, NEW l \in Lines, Agree(l), Ones(l), NEW m \in Msgs(l), IsPlain(m),
         m.req_type \in ReqTypes, dirst[l] = "DIR_PRIVATE", vector[l] = {m.node}, extra[l] = NULL,
         Msgs(l)' = Msgs(l) \ {m}, Backs(l)' = Backs(l), SameCaches(l),
         dirst'[l] = dirst[l], vector'[l] = vector[l], NEW e, e = extra'[l], e # NULL,
         e.waiting, e.ret_st # "ACK_REPLY", e.WaitingFor = m.node,
         e.pend_req = [m EXCEPT !.req_type = CoheReqType(m)]
  PROVE  Agree(l)'
<1>1. m \in REQ /\ m.tag = l /\ Owner(m) = m.node /\ m.node \in Nodes
  BY DEF Ones, Shaped, IsPlain, Owner, REQ
<1> PICK n \in Nodes : n = m.node
  BY <1>1
<1>2. Owns(n, l) /\ Known(l)
  BY DEF Agree, OwnerIs, Known
<1>3. Fits(m, n, l)
  BY <1>1 DEF Agree, MessageOK, IsPlain
<1>4. m.req_type \in {"READ_SH", "READ_OWN"} /\ e.pend_req = m
  <2>1. m.req_type # "UPGRADE"
    BY <1>2, <1>3 DEF Fits
  <2>2. CoheReqType(m) = m.req_type
    BY <2>1 DEF CoheReqType
  <2> QED BY <1>1, <2>1, <2>2 DEF ReqTypes, REQ
<1>5. SameSignals(l) /\ \A k \in Nodes :
        /\ SameCache(k, l) /\ SameSignal(k, l)
        /\ Owns(k, l)' <=> Owns(k, l)
        /\ Shares(k, l)' <=> Shares(k, l)
        /\ OneKind(k, l)' <=> OneKind(k, l)
  BY RequestTaken
<1>6. Known(l)' /\ ~Forwarding(l)' /\ ~Invalidating(l)' /\ ~Invalidating(l)
  BY DEF Known, Forwarding, Invalidating
<1>7. Believes(l)'
  BY <1>4, <1>6 DEF Believes, BelievesWait
<1>8. PendOK(l)'
  <2>1. Fits(m, n, l)'
    BY <1>3, <1>4, <1>5, FitsStill
  <2> QED BY <1>1, <1>4, <2>1 DEF PendOK, Owner
<1>9. ASSUME NEW k \in Nodes PROVE /\ OwnerIs(k, l)' <=> Owns(k, l)'
                                   /\ Shares(k, l)' => May(k, l)'
                                   /\ OneKind(k, l)'
  <2>1. OwnerIs(k, l)' <=> OwnerIs(k, l)
    BY <1>2, <1>6 DEF OwnerIs
  <2>2. May(k, l)' <=> May(k, l)
    BY <1>2, <1>5, <1>6 DEF May, SameSignal
  <2> QED BY <1>5, <2>1, <2>2 DEF Agree
<1>10. ASSUME NEW x \in Msgs(l)' PROVE MessageOK(x, l)'
  <2>1. x \in Msgs(l) /\ MessageOK(x, l) /\ ~IsCohe(x)
    BY DEF Agree, Ones, OneCohe
  <2>2. \A k \in Nodes : x.isreq /\ Owner(x) = k /\ x.req_type = "UPGRADE" => ~Owns(k, l)'
    BY <1>5, <2>1 DEF MessageOK, Fits
  <2> QED BY <1>5, <2>1, <2>2, OldOK
<1> QED BY <1>7, <1>8, <1>9, <1>10 DEF Agree

(* WAIT_CNT.                                                               *)
LEMMA InvalAgrees ==
  ASSUME ProtocolInv, NEW l \in Lines, Agree(l), Ones(l), NEW m, Grantable(l, m), Invalidates(m),
         Msgs(l)' = Msgs(l) \ {m}, Backs(l)' = Backs(l), SameCaches(l),
         dirst'[l] = "DIR_PRIVATE", vector'[l] = {m.node}, NEW e, e = extra'[l], e # NULL,
         ~e.waiting, e.ret_st # "ACK_REPLY", e.left = Others(m), e.next_req_type = "INVL",
         e.pend_req = [m EXCEPT !.req_type = GrantType(m)]
  PROVE  Agree(l)'
<1>1. /\ m.node \in Nodes /\ m.tag = l
      /\ \A k \in Nodes : ~Owns(k, l)
      /\ \A k \in Nodes : Shares(k, l) => k \in vector[l] /\ dirst[l] = "DIR_SHARED"
      /\ \A x \in Msgs(l) : ~IsCohe(x)
      /\ \A x \in Msgs(l) : x # m /\ x.isreq => Owner(x) # m.node
      /\ GrantType(m) \in {"REPLY_SH", "REPLY_EXCL", "REPLY_UPGRADE"}
  BY GrantFacts
<1>2. m \in Msgs(l) /\ m \in REQ /\ IsPlain(m) /\ m.req_type \in ReqTypes
  BY DEF Grantable, Ones, Shaped
<1> PICK n \in Nodes : n = m.node
  BY <1>1
<1> PICK p : p = e.pend_req
  OBVIOUS
<1>3. p.req_type = GrantType(m) /\ p.node = n /\ p.forward_to = NULL /\ Owner(p) = n
  BY <1>2 DEF REQ, IsPlain, Owner
<1>4. Fits(p, n, l)
  <2>1. \A r : r.req_type = GrantType(m) => Fits(r, m.node, l)
    BY GrantFacts
  <2> QED BY ONLY <1>3, <2>1, n = m.node
<1>5. p.req_type \in {"REPLY_EXCL", "REPLY_UPGRADE"}
  <2>1. CoheReqType(m) # "READ_SH"
    BY DEF Invalidates
  <2> QED BY <1>3, <2>1 DEF GrantType
<1>6. \A k \in Nodes :
        /\ SameCache(k, l) /\ SameSignal(k, l)
        /\ Owns(k, l)' <=> Owns(k, l)
        /\ Shares(k, l)' <=> Shares(k, l)
        /\ OneKind(k, l)' <=> OneKind(k, l)
  BY <1>2, RequestTaken
<1>7. Invalidating(l)' /\ ~Forwarding(l)' /\ ~Known(l)'
  BY DEF Known, Forwarding, Invalidating
<1>8. Believes(l)'
  BY <1>1, <1>3, <1>5, <1>7 DEF Believes, BelievesInval, Others
<1>9. PendOK(l)'
  <2>1. Fits(p, n, l)'
    BY <1>4, <1>5, <1>6, FitsStill
  <2> QED BY <1>3, <2>1 DEF PendOK, Owner
<1>10. ASSUME NEW k \in Nodes PROVE /\ OwnerIs(k, l)' <=> Owns(k, l)'
                                    /\ Shares(k, l)' => May(k, l)'
                                    /\ OneKind(k, l)'
  <2>1. ~OwnerIs(k, l)'
    BY <1>7 DEF OwnerIs
  <2>2. Shares(k, l) => k = n \/ k \in e.left
    BY <1>1 DEF Others
  <2>3. Shares(k, l)' => May(k, l)'
    BY <1>3, <1>6, <1>7, <2>2 DEF May
  <2> QED BY <1>1, <1>6, <2>1, <2>3 DEF Agree
<1>11. ASSUME NEW x \in Msgs(l)' PROVE MessageOK(x, l)'
  <2>1. x \in Msgs(l) /\ MessageOK(x, l) /\ ~IsCohe(x) /\ x # m
    BY <1>1 DEF Agree
  <2>2. \A k \in Nodes : x.isreq /\ Owner(x) = k => k \notin vector'[l] /\ ~Owns(k, l)'
    BY <1>1, <1>6, <2>1
  <2> QED BY <1>6, <2>1, <2>2, OldOK
<1>12. Backs(l)' <= 1
  BY DEF Agree
<1> QED BY <1>8, <1>9, <1>10, <1>11, <1>12 DEF Agree

(* FORWARD_REQUEST.                                                        *)
LEMMA ForwardAgrees ==
  ASSUME ProtocolInv, NEW l \in Lines, Agree(l), Ones(l), NEW m \in Msgs(l), IsPlain(m),
         m.req_type \in ReqTypes, dirst[l] = "DIR_PRIVATE", extra[l] = NULL,
         NEW o \in Nodes, vector[l] = {o}, o # m.node,
         Msgs(l)' = Msgs(l) \ {m}, Backs(l)' = Backs(l), SameCaches(l), req_partial' = l,
         NEW c, c = CopybackType(m),
         dirst'[l] = IF c = "COPYBACK" THEN "DIR_SHARED" ELSE "DIR_PRIVATE",
         vector'[l] = IF c = "COPYBACK" THEN vector[l] \cup {m.node} ELSE {m.node},
         NEW e, e = extra'[l], e # NULL, ~e.waiting, e.ret_st = "ACK_REPLY", e.WasHere = NULL,
         NEW p, p = e.pend_req, p.req_type = c, p.node = o, p.forward_to = m.node
  PROVE  Agree(l)'
<1>1. m \in REQ /\ m.tag = l /\ Owner(m) = m.node /\ m.node \in Nodes /\ Waits(m.node, l)
  BY DEF Ones, Shaped, OneToken, IsPlain, Owner, REQ
<1> PICK n \in Nodes : n = m.node
  BY <1>1
<1>2. Owns(o, l) /\ Known(l) /\ \A k \in Nodes : Owns(k, l) => k = o
  <2>1. OwnerIs(o, l) /\ Known(l)
    BY DEF OwnerIs, Known
  <2> QED BY <2>1, OneOwner DEF Agree
<1>3. \A x \in Msgs(l) : ~IsCohe(x)
  BY DEF Ones, OneCohe
<1>4. ~Transferred(l)
  <2> SUFFICES ASSUME NEW x \in Msgs(l), x.type = "COHE_REPLY", x.forward_to # NULL PROVE FALSE
    BY DEF Transferred
  <2>1. x \in Kinds /\ ~IsCohe(x)
    BY <1>3 DEF Ones, Shaped
  <2> QED BY <2>1, KindFacts DEF IsCohe
<1>5. Fits(m, n, l)
  BY <1>1 DEF Agree, MessageOK, IsPlain
<1>6. ASSUME NEW k \in Nodes, Shares(k, l) PROVE ExclComes(k, l)
  <2>1. May(k, l)
    BY <1>6 DEF Agree
  <2> QED BY <2>1 DEF May, Invalidating
<1>7. st[n][l] = "INVALID"
  <2>1. st[n][l] = "INVALID" \/ st[n][l] = "SH_CL"
    BY <1>1 DEF ProtocolInv, L2Consistent, MSHROK, Waits
  <2>2. ~Owns(n, l)
    BY <1>2
  <2> QED BY <1>6, <2>1, <2>2 DEF Shares, Owns
<1>8. c \in {"COPYBACK", "COPYBACK_INVL"} /\ Fits(p, n, l)
  <2>1. CASE m.req_type = "READ_SH"
    BY <1>5, <1>7, <2>1 DEF CopybackType, CoheReqType, Fits, ReadTypes, WriteTypes
  <2>2. CASE m.req_type = "READ_OWN"
    BY <1>5, <1>7, <2>2 DEF CopybackType, CoheReqType, Fits, ReadTypes, WriteTypes
  <2>3. CASE m.req_type = "UPGRADE"
    BY <1>1, <1>5, <1>7, <2>3 DEF CopybackType, CoheReqType, Fits, ReadTypes, WriteTypes
  <2> QED BY <2>1, <2>2, <2>3 DEF ReqTypes
<1>9. SameSignals(l) /\ \A k \in Nodes :
        /\ SameCache(k, l) /\ SameSignal(k, l)
        /\ Owns(k, l)' <=> Owns(k, l)
        /\ Shares(k, l)' <=> Shares(k, l)
        /\ OneKind(k, l)' <=> OneKind(k, l)
  BY RequestTaken
<1>10. Forwarding(l)' /\ ~Invalidating(l)' /\ ~Known(l)' /\ ~Transferred(l)'
  BY <1>4, <1>9 DEF Known, Forwarding, Invalidating, SameSignals
<1>11. Believes(l)'
  BY <1>8, <1>10 DEF Believes, BelievesForward
<1>12. PendOK(l)'
  <2>1. Fits(p, n, l)'
    BY <1>8, <1>9, FitsStill
  <2>2. Owner(p) = n
    BY NullAssumption DEF Owner
  <2> QED BY <2>1, <2>2 DEF PendOK, Owner
<1>13. ASSUME NEW k \in Nodes PROVE /\ OwnerIs(k, l)' <=> Owns(k, l)'
                                    /\ Shares(k, l)' => May(k, l)'
                                    /\ OneKind(k, l)'
  <2>1. OwnerIs(k, l)' <=> k = o
    BY <1>10 DEF OwnerIs
  <2>2. Shares(k, l)' => May(k, l)'
    BY <1>6, <1>9 DEF May, SameSignal
  <2> QED BY <1>2, <1>9, <2>1, <2>2 DEF Agree
<1>14. ASSUME NEW x \in Msgs(l)' PROVE MessageOK(x, l)'
  <2>1. x \in Msgs(l) /\ MessageOK(x, l) /\ ~IsCohe(x) /\ x # m
    BY <1>3 DEF Agree
  <2>2. ASSUME NEW k \in Nodes, x.isreq, Owner(x) = k, x.req_type = "UPGRADE"
        PROVE  (k \in vector'[l] => k \in vector[l]) /\ ~Owns(k, l)'
    <3>1. k # n
      BY <1>1, <2>1, <2>2 DEF Ones, OneToken, IsPlain
    <3>2. ~Owns(k, l)
      BY <2>1, <2>2 DEF MessageOK, Fits
    <3> QED BY <1>9, <3>1, <3>2
  <2> QED BY <1>9, <2>1, <2>2, OldOK
<1>15. Backs(l)' <= 1
  BY DEF Agree
<1> QED BY <1>11, <1>12, <1>13, <1>14, <1>15 DEF Agree
-----------------------------------------------------------------------------
(***************************************************************************)
(* COHEs leave and answers arrive.                                         *)
(***************************************************************************)
(* What a forwarded request, or the acknowledgment of it, shows.           *)
LEMMA ForwardFacts ==
  ASSUME NEW l \in Lines, Agree(l), Ones(l), NEW m \in Msgs(l), IsCohe(m), m.forward_to # NULL
  PROVE  /\ extra[l] # NULL /\ Forwarding(l) /\ ~Keeps(l) /\ ~Invalidating(l)
         /\ m.node = extra[l].pend_req.node /\ m.forward_to = extra[l].pend_req.forward_to
         /\ m.req_type = extra[l].pend_req.req_type /\ BelievesForward(l)
         /\ m.node \in Nodes /\ m.forward_to \in Nodes /\ m.node # m.forward_to
         /\ \A y \in Msgs(l) : IsCohe(y) => y = m
         /\ m.isreq => ~Transferred(l) /\ m.req_type \in {"COPYBACK", "COPYBACK_INVL"}
         /\ ~m.isreq /\ m.type = "COHE_REPLY" => Transferred(l)
<1>1. m \in Kinds /\ m \in REQ
  BY DEF Ones, Shaped
<1>2. extra[l] # NULL /\ Forwarding(l) /\ req_partial # l
  BY DEF Ones, OneCohe
<1>3. \A y \in Msgs(l) : IsCohe(y) => y = m
  BY <1>2 DEF Ones, OneCohe
<1>4. OfTransaction(m, l)
  BY DEF Agree, MessageOK
<1>5. BelievesForward(l)
  BY <1>2 DEF Agree, Believes
<1>6. m.node \in Nodes /\ m.forward_to \in Nodes
  BY <1>1 DEF REQ
<1>7. m.node # m.forward_to
  BY <1>4, <1>5 DEF OfTransaction, BelievesForward
<1>8. m.isreq => m.req_type \in {"COPYBACK", "COPYBACK_INVL"}
  BY <1>1, KindFacts DEF CoheTypes
<1>9. m.isreq => ~Transferred(l)
  <2> SUFFICES ASSUME m.isreq, NEW x \in Msgs(l), x.type = "COHE_REPLY",
                      x.forward_to # NULL, ~x.isreq
               PROVE  FALSE
    BY DEF Transferred
  <2>1. IsCohe(x)
    BY KindFacts DEF Ones, Shaped, IsCohe
  <2> QED BY <1>3, <2>1
<1>10. ~m.isreq /\ m.type = "COHE_REPLY" => Transferred(l)
  BY DEF Transferred
<1> QED BY <1>2, <1>3, <1>4, <1>5, <1>6, <1>7, <1>8, <1>9, <1>10
        DEF OfTransaction, Keeps, Invalidating, Forwarding

(* And what an invalidation, or the answer to it, shows.                   *)
LEMMA InvalFacts ==
  ASSUME NEW l \in Lines, Agree(l), Ones(l), NEW m \in Msgs(l), IsCohe(m), m.forward_to = NULL
  PROVE  /\ extra[l] # NULL /\ Invalidating(l) /\ ~Forwarding(l) /\ ~Known(l) /\ Keeps(l)
         /\ BelievesInval(l) /\ m.req_type = "INVL" /\ m.node # extra[l].pend_req.node
         /\ m.node \in Nodes /\ ~m.isreq
         /\ \A k \in Nodes : ~Owns(k, l)
         /\ \A y \in Msgs(l) : IsCohe(y) /\ y.node = m.node => y = m
<1>1. m \in Kinds /\ m \in REQ
  BY DEF Ones, Shaped
<1>2. /\ Invalidating(l) /\ ~Forwarding(l) /\ m.req_type = "INVL"
      /\ m.node # extra[l].pend_req.node
  BY DEF Agree, MessageOK, OfTransaction, Invalidating, Forwarding
<1>3. extra[l] # NULL /\ ~Known(l) /\ Keeps(l) /\ BelievesInval(l)
  BY <1>2 DEF Invalidating, Known, Forwarding, Keeps, Agree, Believes
<1>4. m.node \in Nodes /\ ~m.isreq
  BY <1>1, KindFacts DEF REQ
<1>5. \A k \in Nodes : ~Owns(k, l)
  BY <1>2, <1>3 DEF Agree, OwnerIs
<1>6. \A y \in Msgs(l) : IsCohe(y) /\ y.node = m.node => y = m
  BY DEF Ones, OneCohe
<1> QED BY <1>2, <1>3, <1>4, <1>5, <1>6

(* The forwarded request leaves.                                           *)
LEMMA SendForwardAgrees ==
  ASSUME ProtocolInv, NEW l \in Lines, Agree(l), Ones(l), Ones(l)', Keeps(l), Forwarding(l),
         NEW c \in CoheMsg, c = extra[l].pend_req, c.forward_to # NULL,
         Msgs(l)' = Msgs(l) \cup {c}, Backs(l)' = Backs(l), SameCaches(l),
         dirst'[l] = dirst[l], vector'[l] = vector[l], extra'[l] = extra[l],
         req_partial' = l => req_partial = l
  PROVE  Agree(l)'
<1>1. c \in Kinds /\ c.type = "COHE" /\ c.req_type \in CoheTypes /\ ~c.preprocessed
  BY DEF Kinds, CoheMsg
<1>2. Silent(c) /\ IsCohe(c)
  BY <1>1 DEF Silent, IsCohe, CoheTypes, WrbTypes, ExclTypes
<1>3. Msgs(l)' = (Msgs(l) \ {}) \cup {c} /\ \A x \in {} \cup {c} : Silent(x)
  BY <1>2
<1>4. SameSignals(l)
  BY <1>3, SilentTurns
<1>5. SameBook(l)
  BY DEF SameBook, SameTrans
<1>6. OfTransaction(c, l)
  BY DEF OfTransaction
<1>7. Fits(c, Owner(c), l)
  BY DEF Agree, PendOK
<1>8. MessageOK(c, l)
  BY <1>1, <1>6, <1>7 DEF MessageOK
<1>9. \A x \in Msgs(l)' : MessageOK(x, l)
  BY <1>8 DEF Agree
<1> QED BY <1>4, <1>5, <1>9, Steady

(* The next invalidation leaves.                                           *)
LEMMA SendInvalAgrees ==
  ASSUME ProtocolInv, NEW l \in Lines, Agree(l), Ones(l), Ones(l)', Invalidating(l),
         NEW c, NEW n \in Nodes, n \in extra[l].left, c.node = n, c.type = "COHE",
         c.req_type = extra[l].next_req_type,
         c.forward_to = NULL, ~c.preprocessed, ~c.isreq,
         Msgs(l)' = Msgs(l) \cup {c}, Backs(l)' = Backs(l), SameCaches(l),
         dirst'[l] = dirst[l], vector'[l] = vector[l],
         NEW e, e = extra[l], NEW f, f = extra'[l], f # NULL, f.left = e.left \ {n},
         f.pend_req = e.pend_req, f.next_req_type = e.next_req_type, f.ret_st = e.ret_st,
         f.waiting = e.waiting, f.WaitingFor = e.WaitingFor, f.WasHere = e.WasHere
  PROVE  Agree(l)'
<1>1. /\ Invalidating(l)' /\ ~Forwarding(l)' /\ ~Known(l)'
      /\ ~Forwarding(l) /\ ~Known(l) /\ Keeps(l)
  BY DEF Invalidating, Forwarding, Known, Keeps
<1>2. BelievesInval(l)
  BY DEF Agree, Believes, Invalidating
<1>3. c.req_type = "INVL"
  BY <1>2 DEF BelievesInval
<1>4. \A x : x # c => (x \in Msgs(l)' <=> x \in Msgs(l))
  OBVIOUS
<1>5. ASSUME NEW k \in Nodes
      PROVE  /\ ExclComes(k, l)' <=> ExclComes(k, l)
             /\ ShareComes(k, l)' <=> ShareComes(k, l)
             /\ BackComes(k, l)' <=> BackComes(k, l)
             /\ InvalComes(k, l)' <=> k = n \/ InvalComes(k, l)
  <2>1. ExclComes(k, l)' <=> ExclComes(k, l)
    BY <1>3, <1>4 DEF ExclComes, ExclTypes
  <2>2. ShareComes(k, l)' <=> ShareComes(k, l)
    BY <1>3, <1>4 DEF ShareComes
  <2>3. BackComes(k, l)' <=> BackComes(k, l)
    BY <1>3, <1>4 DEF BackComes, WrbTypes
  <2>4. InvalComes(k, l)' <=> k = n \/ InvalComes(k, l)
    BY <1>4 DEF InvalComes
  <2> QED BY <2>1, <2>2, <2>3, <2>4
<1>6. \A k \in Nodes : SameCache(k, l)
  BY DEF SameCaches
<1>7. \A k \in Nodes : ~Owns(k, l)
  BY <1>1 DEF Agree, OwnerIs
<1>8. ASSUME NEW k \in Nodes
      PROVE  ~Owns(k, l)' /\ (Shares(k, l)' <=> Shares(k, l)) /\ (OneKind(k, l)' <=> OneKind(k, l))
  <2>1. ~Owns(k, l)'
    BY <1>5, <1>6, <1>7 DEF Owns, SameCache
  <2>2. Shares(k, l)' <=> Shares(k, l)
    BY <1>5, <1>6 DEF Shares, SameCache
  <2>3. OneKind(k, l)' <=> OneKind(k, l)
    BY <1>5, <1>6 DEF OneKind, SameCache
  <2> QED BY <2>1, <2>2, <2>3
<1>9. Believes(l)'
  BY <1>1, <1>2 DEF Believes, BelievesInval, Invalidating
<1>10. PendOK(l)'
  <2> PICK p : p = e.pend_req
    OBVIOUS
  <2> PICK k : k = Owner(p)
    OBVIOUS
  <2>1. k \in Nodes /\ Fits(p, k, l)
    BY <1>1 DEF Agree, PendOK, Ones, OneKept
  <2>2. Fits(p, k, l)'
    BY <1>6, <1>8, <2>1, FitsStill
  <2> QED BY <2>2 DEF PendOK, Owner
<1>11. ASSUME NEW k \in Nodes PROVE /\ OwnerIs(k, l)' <=> Owns(k, l)'
                                    /\ Shares(k, l)' => May(k, l)'
                                    /\ OneKind(k, l)'
  <2>1. ~OwnerIs(k, l)'
    BY <1>1 DEF OwnerIs
  <2>2. May(k, l) => May(k, l)'
    BY <1>1, <1>5 DEF May
  <2> QED BY <1>8, <2>1, <2>2 DEF Agree
<1>12. ASSUME NEW x \in Msgs(l)' PROVE MessageOK(x, l)'
  <2>1. CASE x = c
    <3>1. OfTransaction(c, l)'
      BY <1>1, <1>2, <1>3 DEF OfTransaction, BelievesInval
    <3> QED BY <2>1, <3>1 DEF MessageOK
  <2>2. CASE x \in Msgs(l)
    <3>1. MessageOK(x, l)
      BY <2>2 DEF Agree
    <3>2. OfTransaction(x, l) => OfTransaction(x, l)'
      BY <1>1 DEF OfTransaction
    <3>3. IsCohe(x) => OfTransaction(x, l)'
      BY <3>1, <3>2 DEF MessageOK
    <3> QED BY <1>6, <1>8, <2>2, <3>1, <3>3, OldOK
  <2> QED BY <2>1, <2>2
<1>13. Backs(l)' <= 1
  BY DEF Agree
<1> QED BY <1>9, <1>10, <1>11, <1>12, <1>13 DEF Agree

(* The requester is told to retry: the line goes back to the presumed      *)
(* owner, ...                                                              *)
LEMMA RaceAgrees ==
  ASSUME ProtocolInv, NEW l \in Lines, Agree(l), Ones(l),
         NEW m \in Msgs(l), IsCohe(m), m.type = "COHE_REPLY", m.isreq, m.forward_to # NULL,
         extra[l].WasHere # m.node,
         NEW r, IsPlain(r), r.node = m.forward_to, r.type = "REPLY", r.reply = "RAR",
         ~r.preprocessed, r.req_type = FixForwardRARs(m.req_type),
         Msgs(l)' = (Msgs(l) \ {m}) \cup {r}, Backs(l)' = Backs(l), SameCaches(l),
         extra'[l] = NULL, dirst'[l] = "DIR_PRIVATE", vector'[l] = {m.node}
  PROVE  Agree(l)'
<1> PICK o, k : o = m.node /\ k = m.forward_to
  OBVIOUS
<1>1. /\ extra[l] # NULL /\ Forwarding(l) /\ ~Invalidating(l)
      /\ o = extra[l].pend_req.node /\ BelievesForward(l)
      /\ o \in Nodes /\ k \in Nodes /\ o # k
      /\ \A y \in Msgs(l) : IsCohe(y) => y = m
      /\ ~Transferred(l) /\ m.req_type \in {"COPYBACK", "COPYBACK_INVL"}
  BY ForwardFacts
<1>2. extra[l].WasHere = NULL /\ ~extra[l].waiting
  BY <1>1 DEF BelievesForward, Forwarding, ProtocolInv, Shapes, DirShapes, Kept, PendReq
<1>3. ~Known(l) /\ OwnerIs(o, l) /\ \A n \in Nodes : OwnerIs(n, l) => n = o
  BY <1>1, <1>2 DEF Known, OwnerIs, Forwarding
<1>4. Silent(m) /\ Silent(r)
  BY <1>1 DEF Silent, ExclTypes, WrbTypes, FixForwardRARs, IsPlain
<1>5. SameSignals(l)
  <2>1. \A x \in {m} \cup {r} : Silent(x)
    BY <1>4
  <2> QED BY <2>1, SilentTurns
<1>6. ASSUME NEW n \in Nodes
      PROVE  /\ SameCache(n, l) /\ SameSignal(n, l)
             /\ Owns(n, l)' <=> Owns(n, l)
             /\ Shares(n, l)' <=> Shares(n, l)
             /\ OneKind(n, l)' <=> OneKind(n, l)
  BY <1>5, SameHolders DEF SameCaches, SameSignals
<1>7. Known(l)' /\ ~Forwarding(l)' /\ ~Invalidating(l)' /\ Believes(l)' /\ PendOK(l)'
  BY DEF Known, Forwarding, Invalidating, Believes, PendOK, Keeps
<1>8. \A n \in Nodes : Owns(n, l)' <=> n = o
  BY <1>3, <1>6 DEF Agree
<1>9. ASSUME NEW n \in Nodes PROVE /\ OwnerIs(n, l)' <=> Owns(n, l)'
                                   /\ Shares(n, l)' => May(n, l)'
                                   /\ OneKind(n, l)'
  <2>1. OwnerIs(n, l)' <=> n = o
    BY <1>7 DEF OwnerIs
  <2>2. Shares(n, l) => ExclComes(n, l)
    BY <1>1, <1>3 DEF Agree, May
  <2>3. Shares(n, l)' => May(n, l)'
    BY <1>6, <2>2 DEF May, SameSignal
  <2> QED BY <1>6, <1>8, <2>1, <2>3 DEF Agree
<1>10. ASSUME NEW x \in Msgs(l)' PROVE MessageOK(x, l)'
  <2>1. CASE x = r
    <3>1. Fits(m, k, l)
      BY <1>1 DEF Agree, MessageOK, Owner
    <3>2. Fits(r, k, l)
      BY <1>1, <3>1 DEF Fits, FixForwardRARs, ReadTypes, WriteTypes
    <3>3. Fits(r, k, l)'
      BY <1>1, <1>6, <3>2, FitsStill DEF FixForwardRARs
    <3> QED BY <2>1, <3>3 DEF MessageOK, IsPlain, Owner, IsCohe
  <2>2. CASE x \in Msgs(l) /\ x # m
    <3>1. MessageOK(x, l) /\ ~IsCohe(x)
      BY <1>1, <2>2 DEF Agree
    <3>2. ASSUME NEW n \in Nodes, x.isreq, Owner(x) = n, x.req_type = "UPGRADE"
          PROVE  n \notin vector'[l] /\ ~Owns(n, l)'
      <4>1. ~Owns(n, l)
        BY <3>1, <3>2 DEF MessageOK, Fits
      <4> QED BY <1>6, <1>8, <4>1
    <3> QED BY <1>6, <2>2, <3>1, <3>2, OldOK
  <2> QED BY <2>1, <2>2
<1>11. Backs(l)' <= 1
  BY DEF Agree
<1> QED BY <1>7, <1>9, <1>10, <1>11 DEF Agree

(* ... or the line is free and the request is served again.                *)
LEMMA RetryAgrees ==
  ASSUME ProtocolInv, NEW l \in Lines, Agree(l), Ones(l),
         NEW m \in Msgs(l), IsCohe(m), m.type = "COHE_REPLY", m.isreq, m.forward_to # NULL,
         extra[l].WasHere = m.node,
         NEW r, IsPlain(r), r.node = m.forward_to, r.type = "REQUEST",
         ~r.preprocessed, r.req_type = FixForwardRARs(m.req_type),
         Msgs(l)' = (Msgs(l) \ {m}) \cup {r}, Backs(l)' = Backs(l), SameCaches(l),
         extra'[l] = NULL, dirst'[l] = dirst[l], vector'[l] = vector[l]
  PROVE  Agree(l)'
<1> PICK o, k : o = m.node /\ k = m.forward_to
  OBVIOUS
<1>1. /\ extra[l] # NULL /\ Forwarding(l) /\ ~Invalidating(l)
      /\ o = extra[l].pend_req.node /\ BelievesForward(l)
      /\ o \in Nodes /\ k \in Nodes /\ o # k
      /\ \A y \in Msgs(l) : IsCohe(y) => y = m
      /\ ~Transferred(l) /\ m.req_type \in {"COPYBACK", "COPYBACK_INVL"}
  BY ForwardFacts
<1>2. extra[l].WasHere # NULL
  BY <1>1, NullAssumption
<1>3. dirst[l] = "UNCACHED" /\ vector[l] = {}
  BY <1>1, <1>2 DEF BelievesForward, ProtocolInv, IInv, LineInv, VectorOK
<1>4. \A n \in Nodes : ~Owns(n, l) /\ ~Shares(n, l)
  <2>1. \A n \in Nodes : ~OwnerIs(n, l)
    BY <1>2, <1>3 DEF OwnerIs
  <2>2. \A n \in Nodes : ~Owns(n, l)
    BY <2>1 DEF Agree
  <2>3. \A n \in Nodes : ~May(n, l)
    BY <1>1, <1>3, <2>2 DEF May, Owns
  <2> QED BY <2>2, <2>3 DEF Agree
<1>5. Silent(m) /\ Silent(r)
  BY <1>1 DEF Silent, ExclTypes, WrbTypes, FixForwardRARs, IsPlain
<1>6. SameSignals(l)
  <2>1. \A x \in {m} \cup {r} : Silent(x)
    BY <1>5
  <2> QED BY <2>1, SilentTurns
<1>7. ASSUME NEW n \in Nodes
      PROVE  SameCache(n, l) /\ ~Owns(n, l)' /\ ~Shares(n, l)' /\ OneKind(n, l)'
  <2>1. SameCache(n, l) /\ SameSignal(n, l)
    BY <1>6 DEF SameCaches, SameSignals
  <2> QED BY <1>4, <2>1, SameHolders DEF Agree
<1>8. Believes(l)' /\ PendOK(l)' /\ \A n \in Nodes : ~OwnerIs(n, l)'
  BY <1>3 DEF Forwarding, Believes, PendOK, Keeps, OwnerIs
<1>9. ASSUME NEW x \in Msgs(l)' PROVE MessageOK(x, l)'
  <2>1. CASE x = r
    <3>1. Fits(m, k, l)
      BY <1>1 DEF Agree, MessageOK, Owner
    <3>2. Fits(r, k, l)
      BY <1>1, <3>1 DEF Fits, FixForwardRARs, ReadTypes, WriteTypes
    <3>3. Fits(r, k, l)'
      BY <1>1, <1>7, <3>2, FitsStill DEF FixForwardRARs
    <3> QED BY <2>1, <3>3 DEF MessageOK, IsPlain, Owner, IsCohe
  <2>2. CASE x \in Msgs(l) /\ x # m
    <3>1. MessageOK(x, l) /\ ~IsCohe(x)
      BY <1>1, <2>2 DEF Agree
    <3> QED BY <1>7, <2>2, <3>1, OldOK
  <2> QED BY <2>1, <2>2
<1>10. Backs(l)' <= 1
  BY DEF Agree
<1> QED BY <1>7, <1>8, <1>9, <1>10 DEF Agree

(* An acknowledgment that others are to follow.                            *)
LEMMA AckAgrees ==
  ASSUME ProtocolInv, NEW l \in Lines, Agree(l), Ones(l), Ones(l)', InTransit(l),
         NEW m \in Msgs(l), IsCohe(m), m.type = "COHE_REPLY", extra[l].counter # 1,
         Msgs(l)' = Msgs(l) \ {m}, Backs(l)' = Backs(l), SameCaches(l), SameBook(l)
  PROVE  Agree(l)'
<1>1. m.forward_to = NULL
  <2>1. Forwarding(l) => extra[l].counter = 1
    BY DEF InTransit, Forwarding
  <2> QED BY <2>1 DEF Ones, OneCohe
<1>2. m.req_type = "INVL"
  BY <1>1, InvalFacts
<1>3. Silent(m)
  BY <1>1, <1>2 DEF Silent, ExclTypes, WrbTypes
<1>4. Msgs(l)' = (Msgs(l) \ {m}) \cup {} /\ \A x \in {m} \cup {} : Silent(x)
  BY <1>3
<1>5. SameSignals(l)
  BY <1>4, SilentTurns
<1>6. \A x \in Msgs(l)' : MessageOK(x, l)
  BY DEF Agree
<1> QED BY <1>5, <1>6, Steady

(* The last acknowledgment of an invalidation: the reply leaves.           *)
LEMMA AckReplyAgrees ==
  ASSUME ProtocolInv, NEW l \in Lines, Agree(l), Ones(l),
         NEW m \in Msgs(l), IsCohe(m), m.type = "COHE_REPLY", ~Forwarding(l),
         extra[l].left = {}, \A n \in Nodes : n # m.node => Flight(n, l) = 0,
         NEW p, p = extra[l].pend_req, IsPlain(p), ~p.preprocessed,
         NEW r \in Kinds, IsPlain(r), r.node = p.node, r.req_type = p.req_type, ~r.preprocessed,
         Msgs(l)' = (Msgs(l) \ {m}) \cup {r}, Backs(l)' = Backs(l), SameCaches(l),
         extra'[l] = NULL, dirst'[l] = dirst[l], vector'[l] = vector[l]
  PROVE  Agree(l)'
<1>1. m.forward_to = NULL
  BY DEF Ones, OneCohe
<1>2. /\ extra[l] # NULL /\ Invalidating(l) /\ ~Known(l) /\ Keeps(l) /\ BelievesInval(l)
      /\ m.req_type = "INVL" /\ ~m.isreq
      /\ \A k \in Nodes : ~Owns(k, l)
  BY <1>1, InvalFacts
<1>3. \A x \in Msgs(l) : IsCohe(x) => x = m
  <2> SUFFICES ASSUME NEW x \in Msgs(l), IsCohe(x) PROVE x = m
    OBVIOUS
  <2>1. Flight(x.node, l) = 1 /\ x.node \in Nodes
    BY DEF Ones, OneCohe, Shaped, REQ
  <2> QED BY <2>1 DEF Ones, OneCohe
<1> PICK n : n = p.node
  OBVIOUS
<1>4. n \in Nodes /\ \A x \in Msgs(l) : x.isreq => Owner(x) # n
  BY <1>2 DEF Ones, OneKept, Owner, IsPlain
<1>5. Owner(p) = n /\ Owner(r) = n
  BY DEF Owner, IsPlain
<1>6. \A k \in Nodes : ~InvalComes(k, l)
  <2> SUFFICES ASSUME NEW x \in Msgs(l), x.type = "COHE" PROVE FALSE
    BY DEF InvalComes
  <2>1. IsCohe(x)
    BY KindFacts DEF Ones, Shaped, IsCohe
  <2> QED BY <1>3, <2>1
<1>7. ASSUME NEW k \in Nodes, Shares(k, l) PROVE k = n
  <2>1. May(k, l) /\ ~ExclComes(k, l)
    BY <1>2, <1>7 DEF Agree, Owns
  <2> QED BY <1>2, <1>6, <2>1 DEF May
<1>8. r.req_type \in {"REPLY_EXCL", "REPLY_UPGRADE"} /\ vector[l] = {n} /\ dirst[l] = "DIR_PRIVATE"
  BY <1>2 DEF BelievesInval
<1>9. ASSUME NEW k \in Nodes
      PROVE  /\ ExclComes(k, l)' <=> k = n
             /\ ShareComes(k, l)' => ShareComes(k, l)
             /\ ~BackComes(k, l)'
  <2>1. ~ExclComes(k, l) /\ ~BackComes(k, l)
    BY <1>2 DEF Owns
  <2>2. r.req_type \notin WrbTypes /\ r.req_type # "REPLY_SH" /\ r.req_type \in ExclTypes
    BY <1>8 DEF WrbTypes, ExclTypes
  <2>3. ExclComes(k, l)' <=> k = n
    BY <2>1, <2>2 DEF ExclComes
  <2>4. ShareComes(k, l)' => ShareComes(k, l)
    BY <2>2 DEF ShareComes
  <2>5. ~BackComes(k, l)'
    BY <2>1, <2>2 DEF BackComes
  <2> QED BY <2>3, <2>4, <2>5
<1>10. \A k \in Nodes : SameCache(k, l)
  BY DEF SameCaches
<1>11. ASSUME NEW k \in Nodes
       PROVE  (Owns(k, l)' <=> k = n) /\ (Shares(k, l)' => k = n) /\ OneKind(k, l)'
  <2>1. Owns(k, l)' <=> k = n
    BY <1>2, <1>9, <1>10 DEF Owns, SameCache
  <2>2. Shares(k, l)' => k = n
    BY <1>7, <1>9, <1>10 DEF Shares, SameCache
  <2>3. OneKind(k, l)'
    BY <1>9 DEF OneKind
  <2> QED BY <2>1, <2>2, <2>3
<1>12. Known(l)' /\ Believes(l)' /\ PendOK(l)'
  BY DEF Known, Believes, PendOK, Keeps, Forwarding
<1>13. ASSUME NEW k \in Nodes
       PROVE  (OwnerIs(k, l)' <=> Owns(k, l)') /\ (Shares(k, l)' => May(k, l)')
  <2>1. OwnerIs(k, l)' <=> k = n
    BY <1>8, <1>12 DEF OwnerIs
  <2>2. Shares(k, l)' => May(k, l)'
    BY <1>9, <1>11 DEF May
  <2> QED BY <1>11, <2>1, <2>2
<1>14. ASSUME NEW x \in Msgs(l)' PROVE MessageOK(x, l)'
  <2>1. CASE x = r
    <3>1. Fits(p, n, l)
      BY <1>2, <1>5 DEF Agree, PendOK
    <3>2. Fits(r, n, l)
      BY <3>1 DEF Fits
    <3>3. Fits(r, n, l)'
      BY <1>4, <1>8, <1>10, <3>2, FitsStill
    <3> QED BY <1>5, <1>8, <2>1, <3>3 DEF MessageOK, IsPlain, Owner, IsCohe, DataTypes
  <2>2. CASE x \in Msgs(l) /\ x # m
    <3>1. MessageOK(x, l) /\ ~IsCohe(x)
      BY <1>3, <2>2 DEF Agree
    <3>2. ASSUME NEW k \in Nodes, x.isreq, Owner(x) = k PROVE ~Owns(k, l)'
      BY <1>4, <1>11, <2>2, <3>2
    <3> QED BY <1>10, <2>2, <3>1, <3>2, OldOK
  <2> QED BY <2>1, <2>2
<1>15. Backs(l)' <= 1
  BY DEF Agree
<1> QED BY <1>11, <1>12, <1>13, <1>14, <1>15 DEF Agree

(* The acknowledgment of a transfer: the directory was right already.      *)
LEMMA AckForwardAgrees ==
  ASSUME ProtocolInv, NEW l \in Lines, Agree(l), Ones(l),
         NEW m \in Msgs(l), IsCohe(m), m.type = "COHE_REPLY", ~m.isreq, m.forward_to # NULL,
         Msgs(l)' = Msgs(l) \ {m}, Backs(l)' = Backs(l), SameCaches(l),
         extra'[l] = NULL, dirst'[l] = dirst[l], vector'[l] = vector[l]
  PROVE  Agree(l)'
<1>1. /\ extra[l] # NULL /\ Forwarding(l) /\ ~Invalidating(l) /\ Transferred(l)
      /\ \A y \in Msgs(l) : IsCohe(y) => y = m
  BY ForwardFacts
<1>2. Known(l) /\ m.req_type \in CoheTypes
  BY <1>1, KindFacts DEF Known, Ones, Shaped
<1>3. ASSUME NEW n \in Nodes PROVE SameCache(n, l) /\ SameSignal(n, l)
  <2>1. ExclComes(n, l)' <=> ExclComes(n, l)
    BY <1>2 DEF ExclComes, CoheTypes, ExclTypes
  <2>2. ShareComes(n, l)' <=> ShareComes(n, l)
    BY <1>2 DEF ShareComes, CoheTypes
  <2>3. BackComes(n, l)' <=> BackComes(n, l)
    BY <1>2 DEF BackComes, CoheTypes, WrbTypes
  <2>4. InvalComes(n, l)' <=> InvalComes(n, l)
    BY DEF InvalComes
  <2> QED BY <2>1, <2>2, <2>3, <2>4 DEF SameSignal, SameCaches
<1>4. ASSUME NEW n \in Nodes
      PROVE  /\ Owns(n, l)' <=> Owns(n, l)
             /\ Shares(n, l)' <=> Shares(n, l)
             /\ OneKind(n, l)' <=> OneKind(n, l)
  BY <1>3, SameHolders
<1>5. Known(l)' /\ ~Invalidating(l)' /\ Believes(l)' /\ PendOK(l)'
  BY DEF Known, Invalidating, Believes, PendOK, Keeps, Forwarding
<1>6. ASSUME NEW n \in Nodes PROVE /\ OwnerIs(n, l)' <=> Owns(n, l)'
                                   /\ Shares(n, l)' => May(n, l)'
                                   /\ OneKind(n, l)'
  <2>1. OwnerIs(n, l)' <=> OwnerIs(n, l)
    BY <1>2, <1>5 DEF OwnerIs
  <2>2. May(n, l)' <=> May(n, l)
    BY <1>1, <1>2, <1>3, <1>5 DEF May, SameSignal
  <2> QED BY <1>4, <2>1, <2>2 DEF Agree
<1>7. ASSUME NEW x \in Msgs(l)' PROVE MessageOK(x, l)'
  <2>1. x \in Msgs(l) /\ MessageOK(x, l) /\ ~IsCohe(x)
    BY <1>1 DEF Agree
  <2>2. \A k \in Nodes : x.isreq /\ Owner(x) = k /\ x.req_type = "UPGRADE" => ~Owns(k, l)'
    BY <1>4, <2>1 DEF MessageOK, Fits
  <2> QED BY <1>3, <2>1, <2>2, OldOK
<1>8. Backs(l)' <= 1
  BY DEF Agree
<1> QED BY <1>5, <1>6, <1>7, <1>8 DEF Agree
-----------------------------------------------------------------------------
(***************************************************************************)
(* A write-back arrives.                                                   *)
(***************************************************************************)
(* It comes from the owner, in the eyes of the directory too.              *)
LEMMA BackFrom ==
  ASSUME ProtocolInv, NEW l \in Lines, Agree(l), Ones(l),
         NEW m \in Msgs(l), m.req_type \in WrbTypes
  PROVE  /\ m.node \in Nodes /\ Owns(m.node, l) /\ OwnerIs(m.node, l) /\ ~Invalidating(l)
         /\ Backs(l) = 1 /\ ~ExclComes(m.node, l)
         /\ st[m.node][l] \notin Private /\ wrb_buf[m.node][l] \notin WrbTypes
         /\ m.type = "COHE_REPLY" /\ m.forward_to = NULL /\ ~m.isreq
         /\ \A k \in Nodes : Owns(k, l) => k = m.node
         /\ \A k \in Nodes : ~Shares(k, l)
         /\ dirst[l] # "UNCACHED"
         /\ dirst[l] = "DIR_PRIVATE" => \E k \in Nodes : vector[l] = {k}
<1>1. m \in Kinds /\ m \in REQ
  BY DEF Ones, Shaped
<1> PICK n \in Nodes : n = m.node
  BY <1>1 DEF REQ
<1>2. m.type = "COHE_REPLY" /\ m.forward_to = NULL /\ ~m.isreq
  BY <1>1, KindFacts
<1>3. BackComes(n, l)
  BY DEF BackComes
<1>4. Owns(n, l) /\ OwnerIs(n, l)
  BY <1>3 DEF Owns, Agree
<1>5. ~ExclComes(n, l) /\ st[n][l] \notin Private /\ wrb_buf[n][l] \notin WrbTypes
  BY <1>3 DEF Agree, OneKind
<1>6. ~Invalidating(l)
  BY <1>4 DEF OwnerIs, Invalidating, Known, Forwarding
<1>7. Backs(l) = 1
  BY DEF Agree, Ones, OneBack
<1>8. \A k \in Nodes : Owns(k, l) => k = n
  BY <1>4, OneOwner
<1>9. \A k \in Nodes : ~ExclComes(k, l)
  BY <1>5, <1>8 DEF Owns
<1>10. dirst[l] = "DIR_PRIVATE" => \E k \in Nodes : vector[l] = {k}
  BY DEF ProtocolInv, IInv, LineInv, VectorOK
<1>11. \A k \in Nodes : ~May(k, l)
  BY <1>4, <1>6, <1>9 DEF May, OwnerIs
<1>12. dirst[l] # "UNCACHED"
  BY <1>4 DEF OwnerIs, Agree, Believes, BelievesForward, Forwarding
<1> QED BY <1>2, <1>4, <1>5, <1>6, <1>7, <1>8, <1>10, <1>11, <1>12 DEF Agree

(* When it is taken nobody has the line.                                   *)
LEMMA BackTaken ==
  ASSUME ProtocolInv, NEW l \in Lines, Agree(l), Ones(l), Ones(l)',
         NEW m \in Msgs(l), m.req_type \in WrbTypes, NEW new, \A x \in new : Silent(x),
         Msgs(l)' = (Msgs(l) \ {m}) \cup new, Backs(l)' = Backs(l) - 1, SameCaches(l)
  PROVE  /\ Backs(l)' <= 1 /\ (Transferred(l)' <=> Transferred(l))
         /\ \A k \in Nodes : SameCache(k, l) /\ ~Owns(k, l)' /\ ~Shares(k, l)' /\ OneKind(k, l)'
<1>1. /\ m.node \in Nodes /\ Backs(l) = 1 /\ ~ExclComes(m.node, l)
      /\ st[m.node][l] \notin Private /\ wrb_buf[m.node][l] \notin WrbTypes
      /\ m.type = "COHE_REPLY" /\ m.forward_to = NULL /\ ~m.isreq
      /\ \A k \in Nodes : Owns(k, l) => k = m.node
      /\ \A k \in Nodes : ~Shares(k, l)
  BY BackFrom
<1>2. Backs(l)' = 0
  BY <1>1
<1>3. \A k \in Nodes : ~BackComes(k, l)'
  BY <1>2 DEF Ones, OneBack, BackComes
<1>4. \A x : ~Silent(x) /\ x # m => (x \in Msgs(l)' <=> x \in Msgs(l))
  OBVIOUS
<1>5. Transferred(l)' <=> Transferred(l)
  BY <1>1, <1>4 DEF Transferred, Silent
<1>6. m.req_type \notin ExclTypes \cup {"REPLY_SH"}
  BY DEF ExclTypes, WrbTypes
<1>7. ASSUME NEW k \in Nodes
      PROVE  /\ ExclComes(k, l)' <=> ExclComes(k, l)
             /\ ShareComes(k, l)' <=> ShareComes(k, l)
  <2>1. ExclComes(k, l)' <=> ExclComes(k, l)
    BY <1>4, <1>6 DEF ExclComes, Silent
  <2>2. ShareComes(k, l)' <=> ShareComes(k, l)
    BY <1>4, <1>6 DEF ShareComes, Silent
  <2> QED BY <2>1, <2>2
<1>8. ASSUME NEW k \in Nodes
      PROVE  SameCache(k, l) /\ ~Owns(k, l)' /\ ~Shares(k, l)' /\ OneKind(k, l)'
  <2>1. SameCache(k, l)
    BY DEF SameCaches
  <2>2. ~Owns(k, l)'
    BY <1>1, <1>3, <1>7, <2>1 DEF Owns, SameCache
  <2>3. ~Shares(k, l)'
    BY <1>1, <1>7, <2>1 DEF Shares, SameCache
  <2>4. OneKind(k, l)'
    BY <1>3 DEF OneKind
  <2> QED BY <2>1, <2>2, <2>3, <2>4
<1> QED BY <1>2, <1>5, <1>8

(* The one that a request waits for.                                       *)
LEMMA BackRevives ==
  ASSUME ProtocolInv, NEW l \in Lines, Agree(l), Ones(l), Ones(l)',
         NEW m \in Msgs(l), m.req_type \in WrbTypes, extra[l] # NULL, extra[l].waiting,
         NEW p \in PlainRequest, p = extra[l].pend_req,
         Msgs(l)' = (Msgs(l) \ {m}) \cup {p}, Backs(l)' = Backs(l) - 1, SameCaches(l),
         extra'[l] = NULL, dirst'[l] = "UNCACHED", vector'[l] = {}
  PROVE  Agree(l)'
<1>1. /\ ~Forwarding(l) /\ ~Invalidating(l) /\ Keeps(l)
      /\ p.req_type \in {"READ_SH", "READ_OWN"}
  <2>1. PendReq(l, extra[l])
    BY DEF ProtocolInv, Shapes, DirShapes, Kept
  <2>2. ~Forwarding(l) /\ ~Invalidating(l) /\ Keeps(l)
    BY <2>1 DEF PendReq, Forwarding, Invalidating, Keeps
  <2>3. BelievesWait(l)
    BY DEF Agree, Believes
  <2> QED BY <2>2, <2>3 DEF BelievesWait
<1>2. IsPlain(p) /\ ~p.preprocessed /\ p.type = "REQUEST"
  BY DEF PlainRequest, RequestMsg, IsPlain
<1>3. \A x \in {p} : Silent(x)
  BY <1>1, <1>2, RequestSilent DEF ReqTypes
<1>4. /\ Backs(l)' <= 1
      /\ \A k \in Nodes : SameCache(k, l) /\ ~Owns(k, l)' /\ ~Shares(k, l)' /\ OneKind(k, l)'
  <2> PICK new : new = {p}
    OBVIOUS
  <2>1. Msgs(l)' = (Msgs(l) \ {m}) \cup new /\ \A x \in new : Silent(x)
    BY <1>3
  <2> QED BY <2>1, BackTaken
<1>5. Believes(l)' /\ PendOK(l)' /\ \A n \in Nodes : ~OwnerIs(n, l)'
  BY DEF Forwarding, Believes, PendOK, Keeps, OwnerIs
<1>6. ASSUME NEW x \in Msgs(l)' PROVE MessageOK(x, l)'
  <2>1. CASE x = p
    <3> PICK k : k = Owner(p)
      OBVIOUS
    <3>1. k \in Nodes /\ Fits(p, k, l)
      BY <1>1 DEF Agree, PendOK, Ones, OneKept
    <3>2. Fits(p, k, l)'
      BY <1>1, <1>4, <3>1, FitsStill
    <3> QED BY <1>2, <2>1, <3>2 DEF MessageOK, Owner, IsCohe
  <2>2. CASE x \in Msgs(l)
    <3>1. MessageOK(x, l)
      BY <2>2 DEF Agree
    <3>2. ~IsCohe(x)
      BY <1>1, <3>1 DEF MessageOK, OfTransaction
    <3> QED BY <1>4, <2>2, <3>1, <3>2, OldOK
  <2> QED BY <2>1, <2>2
<1> QED BY <1>4, <1>5, <1>6 DEF Agree

(* One that comes in the course of a transfer.                             *)
LEMMA BackNoted ==
  ASSUME ProtocolInv, NEW l \in Lines, Agree(l), Ones(l), Ones(l)',
         NEW m \in Msgs(l), m.req_type \in WrbTypes, NEW e, e = extra[l], e # NULL, ~e.waiting,
         Msgs(l)' = Msgs(l) \ {m}, Backs(l)' = Backs(l) - 1, SameCaches(l),
         NEW f, f = extra'[l], f # NULL, f.pend_req = e.pend_req, f.left = e.left,
         f.next_req_type = e.next_req_type, f.ret_st = e.ret_st, f.waiting = e.waiting,
         f.WasHere = m.node, dirst'[l] = "UNCACHED", vector'[l] = {}, req_partial' = req_partial
  PROVE  Agree(l)'
<1> PICK n : n = m.node
  OBVIOUS
<1>1. n \in Nodes /\ OwnerIs(n, l) /\ ~Invalidating(l)
  BY BackFrom
<1>2. Forwarding(l) /\ Forwarding(l)' /\ ~Invalidating(l)' /\ BelievesForward(l)
  BY <1>1 DEF Invalidating, Forwarding, Agree, Believes
<1>3. /\ Backs(l)' <= 1 /\ (Transferred(l)' <=> Transferred(l))
      /\ \A k \in Nodes : SameCache(k, l) /\ ~Owns(k, l)' /\ ~Shares(k, l)' /\ OneKind(k, l)'
  <2>1. Msgs(l)' = (Msgs(l) \ {m}) \cup {} /\ \A x \in {} : Silent(x)
    OBVIOUS
  <2> QED BY <2>1, BackTaken
<1>4. n = IF Transferred(l) THEN e.pend_req.forward_to ELSE e.pend_req.node
  <2>1. CASE Transferred(l)
    <3>1. dirst[l] = "DIR_PRIVATE" /\ n \in vector[l]
      BY <1>1, <1>2, <2>1 DEF OwnerIs, Known
    <3> QED BY <1>2, <2>1, <3>1 DEF BelievesForward
  <2>2. CASE ~Transferred(l)
    BY <1>1, <1>2, <2>2 DEF OwnerIs, Known
  <2> QED BY <2>1, <2>2
<1>5. Believes(l)'
  <2>1. BelievesForward(l)'
    BY <1>1, <1>2, <1>3, <1>4, NullAssumption DEF BelievesForward
  <2> QED BY <1>2, <2>1 DEF Believes
<1>6. \A k \in Nodes : ~OwnerIs(k, l)'
  BY <1>1, NullAssumption DEF OwnerIs
<1>7. PendOK(l)'
  <2> SUFFICES ASSUME Keeps(l)' PROVE PendOK(l)'
    BY DEF PendOK
  <2>1. Keeps(l)
    BY <1>2 DEF Keeps, Forwarding
  <2> PICK p : p = e.pend_req
    OBVIOUS
  <2> PICK k : k = Owner(p)
    OBVIOUS
  <2>2. k \in Nodes /\ Fits(p, k, l)
    BY <2>1 DEF Agree, PendOK, Ones, OneKept
  <2>3. Fits(p, k, l)'
    BY <1>3, <2>2, FitsStill
  <2> QED BY <2>3 DEF PendOK, Owner
<1>8. ASSUME NEW x \in Msgs(l)' PROVE MessageOK(x, l)'
  <2>1. x \in Msgs(l) /\ MessageOK(x, l)
    BY DEF Agree
  <2>2. OfTransaction(x, l) => OfTransaction(x, l)'
    BY <1>1, <1>2 DEF OfTransaction
  <2>3. IsCohe(x) => OfTransaction(x, l)'
    BY <2>1, <2>2 DEF MessageOK
  <2> QED BY <1>3, <2>1, <2>3, OldOK
<1> QED BY <1>3, <1>5, <1>6, <1>7, <1>8 DEF Agree

(* One that comes while nothing is in flight.                              *)
LEMMA BackFrees ==
  ASSUME ProtocolInv, NEW l \in Lines, Agree(l), Ones(l), Ones(l)',
         NEW m \in Msgs(l), m.req_type \in WrbTypes, extra[l] = NULL,
         Msgs(l)' = Msgs(l) \ {m}, Backs(l)' = Backs(l) - 1, SameCaches(l),
         extra'[l] = NULL, dirst'[l] = "UNCACHED", vector'[l] = {}
  PROVE  Agree(l)'
<1>1. /\ Backs(l)' <= 1
      /\ \A k \in Nodes : SameCache(k, l) /\ ~Owns(k, l)' /\ ~Shares(k, l)' /\ OneKind(k, l)'
  <2>1. Msgs(l)' = (Msgs(l) \ {m}) \cup {} /\ \A x \in {} : Silent(x)
    OBVIOUS
  <2> QED BY <2>1, BackTaken
<1>2. Believes(l)' /\ PendOK(l)' /\ \A n \in Nodes : ~OwnerIs(n, l)'
  BY DEF Forwarding, Believes, PendOK, Keeps, OwnerIs
<1>3. ASSUME NEW x \in Msgs(l)' PROVE MessageOK(x, l)'
  <2>1. x \in Msgs(l) /\ MessageOK(x, l) /\ ~IsCohe(x)
    BY DEF Agree, Ones, OneCohe
  <2> QED BY <1>1, <2>1, OldOK
<1> QED BY <1>1, <1>2, <1>3 DEF Agree
-----------------------------------------------------------------------------
(***************************************************************************)
(* One cache changes what it has of a line.                                *)
(***************************************************************************)
(* The directory stands where it stood.                                    *)
LEMMA SameStage ==
  ASSUME NEW l \in Lines, SameBook(l), Transferred(l)' <=> Transferred(l)
  PROVE  /\ Forwarding(l)' <=> Forwarding(l)
         /\ Invalidating(l)' <=> Invalidating(l)
         /\ Known(l)' <=> Known(l)
         /\ \A k \in Nodes : OwnerIs(k, l)' <=> OwnerIs(k, l)
         /\ \A k \in Nodes : /\ ExclComes(k, l)' <=> ExclComes(k, l)
                             /\ InvalComes(k, l)' <=> InvalComes(k, l)
                             => (May(k, l)' <=> May(k, l))
<1>1. /\ Forwarding(l)' <=> Forwarding(l)
      /\ Invalidating(l)' <=> Invalidating(l)
  BY DEF SameBook, SameTrans, Forwarding, Invalidating
<1>2. Known(l)' <=> Known(l)
  BY <1>1 DEF SameBook, SameTrans, Known
<1>3. ASSUME NEW n \in Nodes PROVE OwnerIs(n, l)' <=> OwnerIs(n, l)
  BY <1>1, <1>2 DEF SameBook, SameTrans, OwnerIs
<1>4. ASSUME NEW n \in Nodes, ExclComes(n, l)' <=> ExclComes(n, l),
             InvalComes(n, l)' <=> InvalComes(n, l)
      PROVE  May(n, l)' <=> May(n, l)
  BY <1>1, <1>2, <1>4 DEF SameBook, SameTrans, May
<1> QED BY <1>1, <1>2, <1>3, <1>4

LEMMA CacheTurns ==
  ASSUME ProtocolInv, NEW l \in Lines, NEW n \in Nodes, Agree(l), Ones(l),
         SameBook(l), Transferred(l)' <=> Transferred(l), Backs(l)' <= 1,
         \A k \in Nodes : k # n => SameCache(k, l) /\ SameSignal(k, l),
         OwnerIs(n, l) <=> Owns(n, l)', Shares(n, l)' => May(n, l)', OneKind(n, l)',
         Keeps(l) => Owner(extra[l].pend_req) # n \/ Fits(extra[l].pend_req, n, l)',
         \A x \in Msgs(l)' : \/ x \in Msgs(l) /\ (x.isreq => Owner(x) # n)
                             \/ MessageOK(x, l)'
  PROVE  Agree(l)'
<1>1. /\ Forwarding(l)' <=> Forwarding(l)
      /\ Invalidating(l)' <=> Invalidating(l)
      /\ Known(l)' <=> Known(l)
      /\ \A k \in Nodes : OwnerIs(k, l)' <=> OwnerIs(k, l)
  BY SameStage
<1>2. ASSUME NEW k \in Nodes, k # n
      PROVE  /\ Owns(k, l)' <=> Owns(k, l)
             /\ Shares(k, l)' <=> Shares(k, l)
             /\ OneKind(k, l)' <=> OneKind(k, l)
             /\ May(k, l)' <=> May(k, l)
             /\ \A x : Fits(x, k, l) => Fits(x, k, l)'
  <2>1. SameCache(k, l) /\ SameSignal(k, l)
    BY <1>2
  <2>2. May(k, l)' <=> May(k, l)
    BY <2>1, SameStage DEF SameSignal
  <2>3. \A x : Fits(x, k, l)' <=> Fits(x, k, l)
    BY <2>1, SameFit DEF SameBook
  <2> QED BY <2>1, <2>2, <2>3, SameHolders
<1>3. ASSUME NEW k \in Nodes PROVE /\ OwnerIs(k, l)' <=> Owns(k, l)'
                                   /\ Shares(k, l)' => May(k, l)'
                                   /\ OneKind(k, l)'
  <2>1. CASE k = n
    BY <1>1, <2>1
  <2>2. CASE k # n
    BY <1>1, <1>2, <2>2 DEF Agree
  <2> QED BY <2>1, <2>2
<1>4. Believes(l)'
  <2>1. Believes(l)
    BY DEF Agree
  <2> QED BY <1>1, <2>1 DEF Believes, BelievesWait, BelievesInval, BelievesForward,
                            SameBook, SameTrans
<1>5. PendOK(l)'
  <2> SUFFICES ASSUME Keeps(l)', NEW p, p = extra'[l].pend_req PROVE Fits(p, Owner(p), l)'
    BY DEF PendOK, Owner
  <2>1. Keeps(l) /\ p = extra[l].pend_req
    BY <1>1 DEF Keeps, SameBook, SameTrans
  <2> PICK k : k = Owner(p)
    OBVIOUS
  <2>2. k \in Nodes /\ Fits(p, k, l)
    BY <2>1 DEF Ones, OneKept, Agree, PendOK
  <2>3. Fits(p, k, l)'
    BY <1>2, <2>1, <2>2
  <2> QED BY <2>3 DEF Owner
<1>6. ASSUME NEW x \in Msgs(l)' PROVE MessageOK(x, l)'
  <2> SUFFICES ASSUME x \in Msgs(l), x.isreq => Owner(x) # n PROVE MessageOK(x, l)'
    OBVIOUS
  <2>1. MessageOK(x, l)
    BY DEF Agree
  <2>2. x.isreq => Owner(x) \in Nodes
    BY DEF Ones, OneToken
  <2> PICK k : k = Owner(x)
    OBVIOUS
  <2>3. x.isreq => Fits(x, k, l)'
    BY <1>2, <2>1, <2>2 DEF MessageOK
  <2>4. OfTransaction(x, l) => OfTransaction(x, l)'
    BY <1>1 DEF OfTransaction, SameBook, SameTrans
  <2> QED BY <2>1, <2>3, <2>4 DEF MessageOK, IsCohe, Owner
<1> QED BY <1>3, <1>4, <1>5, <1>6 DEF Agree

(* A request is made.                                                      *)
LEMMA MissAgrees ==
  ASSUME ProtocolInv, NEW l \in Lines, NEW n \in Nodes, Agree(l), Ones(l),
         \A k \in Nodes : k # n => SameCache(k, l), SameBook(l), Backs(l)' = Backs(l),
         mshrs[n][l] = NULL, wrb_buf[n][l] = "NONE", st'[n][l] = st[n][l],
         wrb_buf'[n][l] = wrb_buf[n][l], NEW t \in PrcrTypes,
         mshrs'[n][l].excl = (t # "READ"),
         NEW r, IsPlain(r), r.node = n, r.type = "REQUEST", ~r.preprocessed,
         r.req_type = NxtModReq(t, st[n][l]), r.req_type # "NONE",
         Msgs(l)' = Msgs(l) \cup {r}
  PROVE  Agree(l)'
<1>1. r.req_type \in ReqTypes
  BY DEF NxtModReq, ReqTypes
<1>2. SameSignals(l)
  <2>1. Silent(r)
    BY <1>1, RequestSilent
  <2>2. Msgs(l)' = (Msgs(l) \ {}) \cup {r} /\ \A x \in {} \cup {r} : Silent(x)
    BY <2>1
  <2> QED BY <2>2, SilentTurns
<1>3. /\ ~ExclComes(n, l) /\ ~ShareComes(n, l)
      /\ \A x \in Msgs(l) : x.isreq => Owner(x) # n
      /\ Keeps(l) => Owner(extra[l].pend_req) # n
  <2>1. ~Waits(n, l)
    BY DEF Waits
  <2> QED BY <2>1, NoTokenComes
<1>4. SameSignal(n, l) /\ (Transferred(l)' <=> Transferred(l))
  BY <1>2 DEF SameSignals
<1>5. Owns(n, l)' <=> Owns(n, l)
  BY <1>4 DEF Owns, SameSignal
<1>6. Shares(n, l)' <=> Shares(n, l)
  BY <1>3, <1>4 DEF Shares, SameSignal
<1>7. OneKind(n, l)'
  BY <1>4 DEF OneKind, SameSignal, Agree
<1>8. May(n, l)' <=> May(n, l)
  BY <1>4, SameStage DEF SameSignal
<1>9. MessageOK(r, l)'
  <2>1. Owner(r) = n
    BY DEF IsPlain, Owner
  <2>2. st[n][l] = "SH_CL" => ~Owns(n, l)
    <3>1. Shares(n, l) /\ Owns(n, l) => May(n, l)
      BY DEF Agree
    <3>2. ~(May(n, l) /\ Owns(n, l))
      BY <1>3, OneOwner
    <3> QED BY <3>1, <3>2 DEF Shares
  <2>3. CASE t = "READ"
    <3>1. r.req_type = "READ_SH" /\ st[n][l] = "INVALID"
      BY <2>3 DEF NxtModReq
    <3>2. Fits(r, n, l)'
      BY <2>3, <3>1 DEF Fits, ReadTypes, WriteTypes
    <3> QED BY <2>1, <3>2 DEF MessageOK, IsCohe, Owner
  <2>4. CASE t # "READ" /\ st[n][l] = "INVALID"
    <3>1. r.req_type = "READ_OWN"
      BY <2>4 DEF NxtModReq
    <3>2. Fits(r, n, l)'
      BY <2>4, <3>1 DEF Fits, ReadTypes, WriteTypes
    <3> QED BY <2>1, <3>2 DEF MessageOK, IsCohe, Owner
  <2>5. CASE t # "READ" /\ st[n][l] # "INVALID"
    <3>1. r.req_type = "UPGRADE" /\ st[n][l] = "SH_CL"
      BY <2>5 DEF NxtModReq
    <3>2. ~Owns(n, l)'
      BY <1>5, <2>2, <3>1
    <3>3. Fits(r, n, l)'
      BY <2>5, <3>1, <3>2 DEF Fits, ReadTypes, WriteTypes
    <3> QED BY <2>1, <3>3 DEF MessageOK, IsCohe, Owner
  <2> QED BY <2>3, <2>4, <2>5
<1>10. \A k \in Nodes : k # n => SameCache(k, l) /\ SameSignal(k, l)
  BY <1>2 DEF SameSignals
<1>11. Backs(l)' <= 1 /\ (OwnerIs(n, l) <=> Owns(n, l)') /\ (Shares(n, l)' => May(n, l)')
  BY <1>5, <1>6, <1>8 DEF Agree
<1>12. \A x \in Msgs(l)' : \/ x \in Msgs(l) /\ (x.isreq => Owner(x) # n)
                           \/ MessageOK(x, l)'
  BY <1>3, <1>9
<1> QED BY <1>3, <1>4, <1>7, <1>10, <1>11, <1>12, CacheTurns

(* A reply fits its MSHR and the line, whatever has become of the request. *)
LEMMA ReplyFits ==
  ASSUME RequestInv, NEW l \in Lines, Agree(l), Ones(l), NEW m \in replies, m.tag = l,
         m.reply = "REPLY", NEW n \in Nodes, n = m.node
  PROVE  /\ m \in Msgs(l) /\ IsPlain(m) /\ m.req_type \in DataTypes /\ Fits(m, n, l)
         /\ ReplyError(m) = "none"
         /\ m.req_type = "REPLY_SH" => ~mshrs[n][l].writes_present
<1>1. m \in ReplyMsg /\ Waits(n, l)
  BY ReplyIsWaitedFor
<1>2. m \in Msgs(l)
  BY DEF Msgs, Mail, CacheMail
<1>3. IsPlain(m) /\ m.type = "REPLY" /\ Owner(m) = n
  BY <1>1 DEF ReplyMsg, IsPlain, Owner
<1>4. MessageOK(m, l)
  BY <1>2 DEF Agree
<1>5. m.req_type \in DataTypes /\ Fits(m, n, l)
  BY <1>3, <1>4 DEF MessageOK, IsPlain
<1>6. MSHROK /\ mshrs[n][l] # NULL
  BY <1>1 DEF Waits, RequestInv, ProtocolInv, L2Consistent
<1>7. /\ mshrs[n][l].writes_present => mshrs[n][l].excl
      /\ mshrs[n][l].pend_cohe_type # "NONE" => ~mshrs[n][l].excl
  BY <1>6 DEF MSHROK
<1>8. m.req_type \in {"REPLY_EXCLDY", "REPLY_UPGRADE"} \/ (MSI /\ m.req_type # "REPLY_SH") =>
        mshrs[n][l].excl
  BY <1>5 DEF Fits, WriteTypes, DataTypes
<1>9. m.req_type = "REPLY_SH" => ~mshrs[n][l].excl
  BY <1>5 DEF Fits, ReadTypes
<1>10. ReplyValid(m.req_type, st[n][l])
  BY <1>5 DEF Fits, ReplyValid, DataTypes
<1>11. /\ ReplyState(m.req_type) = "SH_CL" => m.req_type = "REPLY_SH"
       /\ ReplyState(m.req_type) = "PR_DY" =>
            m.req_type = "REPLY_EXCLDY" \/ (MSI /\ m.req_type # "REPLY_SH")
  BY DEF ReplyState
<1>12. ReplyError(m) = "none"
  BY <1>6, <1>7, <1>8, <1>9, <1>10, <1>11 DEF ReplyError
<1> QED BY <1>2, <1>3, <1>5, <1>7, <1>9, <1>12

(* It sets the line.                                                       *)
LEMMA InstallAgrees ==
  ASSUME ProtocolInv, NEW l \in Lines, Agree(l), Ones(l), NEW m \in Msgs(l), IsPlain(m),
         m.req_type \in DataTypes, NEW n \in Nodes, n = m.node, Fits(m, n, l),
         \A k \in Nodes : k # n => SameCache(k, l), SameBook(l), Backs(l)' = Backs(l),
         wrb_buf'[n][l] = wrb_buf[n][l], Msgs(l)' = Msgs(l) \ {m},
         m.req_type # "REPLY_SH" => st'[n][l] \in Private,
         m.req_type = "REPLY_SH" =>
           st'[n][l] = IF mshrs[n][l].pend_cohe_type = "INVL" THEN "INVALID" ELSE "SH_CL"
  PROVE  Agree(l)'
<1>1. /\ Transferred(l)' <=> Transferred(l)
      /\ \A k \in Nodes : TokenSignal(k, l, m, {})
  <2> PICK new : new = {}
    OBVIOUS
  <2>1. /\ Msgs(l)' = (Msgs(l) \ {m}) \cup new
        /\ \A r \in new : IsPlain(r) /\ r \in Kinds /\ r.node = m.node
    OBVIOUS
  <2>2. /\ Transferred(l)' <=> Transferred(l)
        /\ \A k \in Nodes : TokenSignal(k, l, m, new)
    BY <2>1, TokenTurns
  <2> QED BY <2>2
<1>2. \A k \in Nodes : k # n => SameCache(k, l) /\ SameSignal(k, l)
  BY <1>1 DEF TokenSignal, SameSignal
<1>3. /\ ~ExclComes(n, l)' /\ ~ShareComes(n, l)' /\ (BackComes(n, l)' <=> BackComes(n, l))
      /\ InvalComes(n, l)' <=> InvalComes(n, l)
  BY <1>1 DEF TokenSignal
<1>4. Owner(m) = n /\ m.isreq
  BY DEF IsPlain, Owner
<1>5. /\ \A x \in Msgs(l) : x.isreq /\ Owner(x) = n => x = m
      /\ Keeps(l) => Owner(extra[l].pend_req) # n
  BY <1>4 DEF Ones, OneToken, OneKept
<1>6. \A x \in Msgs(l) : x.req_type \in DataTypes /\ x.node = n => x = m
  <2> SUFFICES ASSUME NEW x \in Msgs(l), x.req_type \in DataTypes, x.node = n PROVE x = m
    OBVIOUS
  <2>1. x.isreq /\ x.forward_to = NULL
    BY KindFacts DEF Ones, Shaped
  <2> QED BY <1>5, <2>1 DEF Owner
<1>7. CASE m.req_type # "REPLY_SH"
  <2>1. m.req_type \in ExclTypes /\ ExclComes(n, l)
    BY <1>7 DEF ExclTypes, DataTypes, ExclComes
  <2>2. Owns(n, l) /\ Owns(n, l)' /\ ~BackComes(n, l)
    BY <1>7, <2>1 DEF Owns, Agree, OneKind
  <2>3. ~Shares(n, l)'
    BY <1>3, <1>7 DEF Shares, Private
  <2>4. OneKind(n, l)'
    BY <1>3, <2>2 DEF OneKind
  <2>5. /\ OwnerIs(n, l) <=> Owns(n, l)'
        /\ Backs(l)' <= 1
        /\ \A x \in Msgs(l)' : x \in Msgs(l) /\ (x.isreq => Owner(x) # n)
    BY <1>5, <2>2 DEF Agree
  <2> QED BY <1>1, <1>2, <1>5, <2>3, <2>4, <2>5, CacheTurns
<1>8. CASE m.req_type = "REPLY_SH"
  <2>1. ~ExclComes(n, l)
    BY <1>6, <1>8 DEF ExclComes, ExclTypes, DataTypes
  <2>2. st[n][l] = "INVALID" /\ st'[n][l] \notin Private
    BY <1>8 DEF Fits, Private
  <2>3. Owns(n, l)' <=> Owns(n, l)
    BY <1>3, <2>1, <2>2 DEF Owns, Private
  <2>4. Shares(n, l)' => Shares(n, l)
    BY <1>3, <1>8 DEF Shares, ShareComes
  <2>5. May(n, l)' <=> May(n, l)
    BY <1>1, <1>3, <2>1, SameStage
  <2>6. OneKind(n, l)'
    BY <1>3, <2>2 DEF OneKind, Agree
  <2>7. /\ OwnerIs(n, l) <=> Owns(n, l)'
        /\ Shares(n, l)' => May(n, l)'
        /\ Backs(l)' <= 1
        /\ \A x \in Msgs(l)' : x \in Msgs(l) /\ (x.isreq => Owner(x) # n)
    BY <1>5, <2>3, <2>4, <2>5 DEF Agree
  <2> QED BY <1>1, <1>2, <1>5, <2>6, <2>7, CacheTurns
<1> QED BY <1>7, <1>8

(* The line makes room for another.                                        *)
LEMMA EvictAgrees ==
  ASSUME ProtocolInv, NEW l \in Lines, Agree(l), Ones(l), NEW n \in Nodes,
         \A k \in Nodes : k # n => SameCache(k, l), SameBook(l), Backs(l)' = Backs(l),
         Msgs(l)' = Msgs(l), mshrs[n][l] = NULL, mshrs' = mshrs, st[n][l] # "INVALID",
         st'[n][l] = "INVALID", wrb_buf'[n][l] = VictimEntry(st[n][l])
  PROVE  Agree(l)'
<1>1. SameSignals(l)
  <2>1. Msgs(l)' = (Msgs(l) \ {}) \cup {} /\ \A x \in {} \cup {} : Silent(x)
    OBVIOUS
  <2> QED BY <2>1, SilentTurns
<1>2. /\ \A k \in Nodes : k # n => SameCache(k, l) /\ SameSignal(k, l)
      /\ SameSignal(n, l) /\ (Transferred(l)' <=> Transferred(l))
  BY <1>1 DEF SameSignals
<1>3. /\ ~ExclComes(n, l) /\ ~ShareComes(n, l)
      /\ \A x \in Msgs(l) : x.isreq => Owner(x) # n
      /\ Keeps(l) => Owner(extra[l].pend_req) # n
  <2>1. ~Waits(n, l)
    BY DEF Waits
  <2> QED BY <2>1, NoTokenComes
<1>4. wrb_buf[n][l] = "NONE" /\ st[n][l] \in {"SH_CL", "PR_CL", "PR_DY"}
  BY DEF ProtocolInv, L2Consistent, WrbExclusive, L2TypeOK, States
<1>5. wrb_buf'[n][l] \in WrbTypes <=> st[n][l] \in Private
  BY <1>4 DEF VictimEntry, WrbTypes, Private
<1>6. Owns(n, l)' <=> Owns(n, l)
  BY <1>2, <1>4, <1>5 DEF Owns, SameSignal, Private, WrbTypes
<1>7. ~Shares(n, l)'
  BY <1>2, <1>3 DEF Shares, SameSignal
<1>8. OneKind(n, l)'
  BY <1>2, <1>3, <1>5 DEF OneKind, SameSignal, Agree, Private
<1>9. /\ OwnerIs(n, l) <=> Owns(n, l)'
      /\ Backs(l)' <= 1
      /\ \A x \in Msgs(l)' : x \in Msgs(l) /\ (x.isreq => Owner(x) # n)
  BY <1>3, <1>6 DEF Agree
<1> QED BY <1>2, <1>3, <1>7, <1>8, <1>9, CacheTurns

(* What the cache wrote leaves its write-back buffer.                      *)
LEMMA SendBackAgrees ==
  ASSUME ProtocolInv, NEW l \in Lines, Agree(l), Ones(l), NEW n \in Nodes,
         \A k \in Nodes : k # n => SameCache(k, l), SameBook(l), st' = st, mshrs' = mshrs,
         wrb_buf[n][l] \in WrbTypes, wrb_buf'[n][l] = "NONE", NEW r \in Kinds, r.node = n,
         r.tag = l, r.req_type \in WrbTypes, Msgs(l)' = Msgs(l) \cup {r},
         Backs(l)' <= Backs(l) + 1
  PROVE  Agree(l)'
<1>1. /\ r.type = "COHE_REPLY" /\ ~r.isreq /\ r.forward_to = NULL /\ ~r.preprocessed
      /\ r.req_type \notin ExclTypes \cup {"REPLY_SH"}
  <2>1. r.type = "COHE_REPLY" /\ ~r.isreq /\ r.forward_to = NULL /\ ~r.preprocessed
    BY KindFacts
  <2> QED BY <2>1 DEF ExclTypes, WrbTypes
<1>2. Transferred(l)' <=> Transferred(l)
  BY <1>1 DEF Transferred
<1>3. \A k \in Nodes : /\ ExclComes(k, l)' <=> ExclComes(k, l)
                       /\ ShareComes(k, l)' <=> ShareComes(k, l)
                       /\ InvalComes(k, l)' <=> InvalComes(k, l)
                       /\ k # n => (BackComes(k, l)' <=> BackComes(k, l))
  <2> SUFFICES ASSUME NEW k \in Nodes
               PROVE  /\ ExclComes(k, l)' <=> ExclComes(k, l)
                      /\ ShareComes(k, l)' <=> ShareComes(k, l)
                      /\ InvalComes(k, l)' <=> InvalComes(k, l)
                      /\ k # n => (BackComes(k, l)' <=> BackComes(k, l))
    OBVIOUS
  <2>1. ExclComes(k, l)' <=> ExclComes(k, l)
    BY <1>1 DEF ExclComes
  <2>2. ShareComes(k, l)' <=> ShareComes(k, l)
    BY <1>1 DEF ShareComes
  <2>3. InvalComes(k, l)' <=> InvalComes(k, l)
    BY <1>1 DEF InvalComes
  <2>4. k # n => (BackComes(k, l)' <=> BackComes(k, l))
    BY DEF BackComes
  <2> QED BY <2>1, <2>2, <2>3, <2>4
<1>4. st[n][l] = "INVALID" /\ mshrs[n][l] = NULL
  BY DEF ProtocolInv, L2Consistent, WrbExclusive, WrbTypes
<1>5. /\ ~ExclComes(n, l) /\ ~ShareComes(n, l)
      /\ \A x \in Msgs(l) : x.isreq => Owner(x) # n
      /\ Keeps(l) => Owner(extra[l].pend_req) # n
  <2>1. ~Waits(n, l)
    BY <1>4 DEF Waits
  <2> QED BY <2>1, NoTokenComes
<1>6. Owns(n, l) /\ Owns(n, l)'
  BY DEF Owns, BackComes
<1>7. Backs(l) = 0
  <2>1. ASSUME NEW x \in Msgs(l), x.req_type \in WrbTypes PROVE FALSE
    <3>1. wrb_buf[x.node][l] \notin WrbTypes /\ Owns(x.node, l) /\ x.node \in Nodes
      BY <2>1, BackFrom
    <3> QED BY <1>6, <3>1, OneOwner
  <2> QED BY <2>1 DEF Ones, OneBack
<1>8. Backs(l)' <= 1
  BY <1>7
<1>9. OneKind(n, l)' /\ ~Shares(n, l)'
  BY <1>3, <1>4, <1>5 DEF OneKind, Shares, Private, WrbTypes
<1>10. MessageOK(r, l)'
  BY <1>1 DEF MessageOK, IsCohe
<1>11. \A k \in Nodes : k # n => SameCache(k, l) /\ SameSignal(k, l)
  BY <1>3 DEF SameSignal
<1>12. /\ OwnerIs(n, l) <=> Owns(n, l)'
       /\ \A x \in Msgs(l)' : \/ x \in Msgs(l) /\ (x.isreq => Owner(x) # n)
                              \/ MessageOK(x, l)'
  BY <1>5, <1>6, <1>10 DEF Agree
<1> QED BY <1>2, <1>5, <1>8, <1>9, <1>11, <1>12, CacheTurns
-----------------------------------------------------------------------------
(***************************************************************************)
(* A cache answers a COHE.                                                 *)
(***************************************************************************)
(* An invalidation: the cache loses what it has.                           *)
LEMMA YieldAgrees ==
  ASSUME ProtocolInv, NEW l \in Lines, Agree(l), Ones(l),
         NEW m \in Msgs(l), m.type = "COHE", m.forward_to = NULL, NEW n \in Nodes, n = m.node,
         NEW r \in Kinds, IsCohe(r), r.type = "COHE_REPLY", r.node = n, r.tag = l, ~r.isreq,
         r.forward_to = NULL, r.req_type = m.req_type, Msgs(l)' = (Msgs(l) \ {m}) \cup {r},
         Backs(l)' = Backs(l), \A k \in Nodes : k # n => SameCache(k, l), SameBook(l),
         st'[n][l] = "INVALID", wrb_buf'[n][l] = wrb_buf[n][l],
         mshrs'[n][l].excl = mshrs[n][l].excl,
         ~Waits(n, l) \/ mshrs[n][l].excl \/ mshrs'[n][l].pend_cohe_type = "INVL"
  PROVE  Agree(l)'
<1>1. IsCohe(m)
  BY KindFacts DEF Ones, Shaped, IsCohe, WrbTypes
<1>2. /\ extra[l] # NULL /\ Invalidating(l) /\ ~Forwarding(l) /\ ~Known(l) /\ Keeps(l)
      /\ BelievesInval(l) /\ m.req_type = "INVL" /\ m.node # extra[l].pend_req.node
      /\ \A k \in Nodes : ~Owns(k, l)
  BY <1>1, InvalFacts
<1>3. ~r.preprocessed
  BY KindFacts
<1>4. Transferred(l)' <=> Transferred(l)
  BY DEF Transferred
<1>5. ASSUME NEW k \in Nodes
      PROVE  /\ ExclComes(k, l)' <=> ExclComes(k, l)
             /\ ShareComes(k, l)' <=> ShareComes(k, l)
             /\ BackComes(k, l)' <=> BackComes(k, l)
             /\ k # n => (InvalComes(k, l)' <=> InvalComes(k, l))
  <2>1. ExclComes(k, l)' <=> ExclComes(k, l)
    BY <1>2 DEF ExclComes, ExclTypes
  <2>2. ShareComes(k, l)' <=> ShareComes(k, l)
    BY <1>2 DEF ShareComes
  <2>3. BackComes(k, l)' <=> BackComes(k, l)
    BY <1>2 DEF BackComes, WrbTypes
  <2>4. k # n => (InvalComes(k, l)' <=> InvalComes(k, l))
    BY DEF InvalComes
  <2> QED BY <2>1, <2>2, <2>3, <2>4
<1>6. \A k \in Nodes : k # n => SameCache(k, l) /\ SameSignal(k, l)
  BY <1>5 DEF SameSignal
<1>7. ~Owns(n, l)' /\ ~OwnerIs(n, l) /\ ~ExclComes(n, l) /\ OneKind(n, l)'
  <2>1. ~Owns(n, l)' /\ ~ExclComes(n, l)
    BY <1>2, <1>5 DEF Owns, Private
  <2>2. OneKind(n, l)'
    BY <2>1 DEF OneKind, Owns
  <2>3. ~OwnerIs(n, l)
    BY <1>2 DEF Agree
  <2> QED BY <2>1, <2>2, <2>3
<1>8. ~Shares(n, l)'
  <2> SUFFICES ASSUME NEW x \in Msgs(l), x.node = n, x.req_type = "REPLY_SH",
                      mshrs'[n][l].pend_cohe_type # "INVL"
               PROVE  FALSE
    BY <1>5 DEF Shares, ShareComes
  <2>1. x.isreq /\ x.forward_to = NULL
    BY KindFacts DEF Ones, Shaped, DataTypes
  <2>2. Waits(n, l) /\ Fits(x, n, l)
    BY <2>1 DEF Owner, Ones, OneToken, Agree, MessageOK
  <2> QED BY <2>2 DEF Fits, ReadTypes
<1>9. Keeps(l) => Owner(extra[l].pend_req) # n
  <2>1. extra[l].pend_req \in PlainRequest
    BY <1>2 DEF ProtocolInv, Shapes, DirShapes, Kept, PendReq, Forwarding
  <2> QED BY <1>2, <2>1 DEF PlainRequest, RequestMsg, Owner
<1>10. n \notin vector'[l]
  BY <1>2 DEF BelievesInval, SameBook
<1>11. ASSUME NEW x \in Msgs(l)', ~(x \in Msgs(l) /\ (x.isreq => Owner(x) # n))
       PROVE  MessageOK(x, l)'
  <2>1. CASE x = r
    <3>1. OfTransaction(r, l)'
      BY <1>2, <1>4, SameStage DEF OfTransaction, SameBook, SameTrans
    <3> QED BY <1>3, <2>1, <3>1 DEF MessageOK
  <2>2. CASE x \in Msgs(l) /\ x.isreq /\ Owner(x) = n
    <3>1. MessageOK(x, l) /\ Fits(x, n, l)
      BY <2>2 DEF Agree, MessageOK
    <3>2. x.req_type # "REPLY_UPGRADE"
      <4> SUFFICES ASSUME x.req_type = "REPLY_UPGRADE" PROVE FALSE
        OBVIOUS
      <4>1. x.forward_to = NULL
        BY <2>2, KindFacts DEF Ones, Shaped, DataTypes
      <4>2. ExclComes(n, l)
        BY <2>2, <4>1 DEF ExclComes, ExclTypes, Owner
      <4> QED BY <1>7, <4>2
    <3>3. Fits(x, n, l)'
      BY <1>7, <1>10, <3>1, <3>2 DEF Fits
    <3>4. ~IsCohe(x)
      <4>1. IsCohe(x) => x.forward_to = NULL
        BY <1>2, <3>1 DEF MessageOK, OfTransaction
      <4>2. IsCohe(x) => x.forward_to # NULL
        BY <2>2, KindFacts DEF Ones, Shaped
      <4> QED BY <4>1, <4>2
    <3> QED BY <2>2, <3>1, <3>3, <3>4 DEF MessageOK, Owner, IsCohe
  <2> QED BY <1>11, <2>1, <2>2
<1>12. /\ Backs(l)' <= 1
       /\ OwnerIs(n, l) <=> Owns(n, l)'
       /\ Shares(n, l)' => May(n, l)'
       /\ \A x \in Msgs(l)' : \/ x \in Msgs(l) /\ (x.isreq => Owner(x) # n)
                              \/ MessageOK(x, l)'
  BY <1>7, <1>8, <1>11 DEF Agree
<1> QED BY <1>4, <1>6, <1>7, <1>9, <1>12, CacheTurns

(* A forwarded request that meets the line: it is the owner who has it.    *)
LEMMA OwnerMeets ==
  ASSUME ProtocolInv, NEW l \in Lines, Agree(l), Ones(l),
         NEW m \in Msgs(l), m.type = "COHE", m.forward_to # NULL, NEW n \in Nodes, n = m.node,
         mshrs[n][l] = NULL, st[n][l] # "INVALID"
  PROVE  /\ IsCohe(m) /\ m.isreq /\ st[n][l] \in Private /\ ~Known(l) /\ extra[l].WasHere = NULL
         /\ wrb_buf[n][l] = "NONE" /\ ~extra[l].waiting
         /\ \A k \in Nodes : /\ Owns(k, l) => k = n
                             /\ ~ExclComes(k, l) /\ ~BackComes(k, l) /\ ~Shares(k, l)
         /\ \A x \in Msgs(l) : x.isreq => Owner(x) # n
<1>1. IsCohe(m) /\ m.isreq
  BY KindFacts DEF Ones, Shaped, IsCohe, WrbTypes
<1>2. /\ extra[l] # NULL /\ Forwarding(l) /\ ~Invalidating(l) /\ ~Transferred(l)
      /\ n = extra[l].pend_req.node
  BY <1>1, ForwardFacts
<1>3. PendReq(l, extra[l])
  BY <1>2 DEF ProtocolInv, Shapes, DirShapes, Kept
<1>4. ~extra[l].waiting /\ ~Known(l)
  BY <1>2, <1>3 DEF PendReq, Forwarding, Known
<1>5. ~ExclComes(n, l) /\ ~ShareComes(n, l) /\ \A x \in Msgs(l) : x.isreq => Owner(x) # n
  <2>1. ~Waits(n, l)
    BY DEF Waits
  <2> QED BY <2>1, NoTokenComes
<1>6. ASSUME NEW k \in Nodes PROVE /\ May(k, l) => ExclComes(k, l)
                                   /\ Owns(k, l) => k = n
  BY <1>2, <1>4 DEF May, Agree, OwnerIs
<1>7. \A k \in Nodes : ~ExclComes(k, l) /\ ~Shares(k, l)
  BY <1>5, <1>6 DEF Owns, Agree
<1>8. wrb_buf[n][l] = "NONE" /\ st[n][l] \in Private
  <2>1. wrb_buf[n][l] = "NONE" /\ st[n][l] \in States
    BY DEF ProtocolInv, L2Consistent, WrbExclusive, L2TypeOK
  <2>2. st[n][l] # "SH_CL"
    BY <1>7 DEF Shares
  <2> QED BY <2>1, <2>2 DEF States, Private
<1>9. OwnerIs(n, l) /\ ~BackComes(n, l)
  BY <1>8 DEF Agree, OneKind, Owns
<1>10. \A k \in Nodes : ~BackComes(k, l)
  BY <1>6, <1>9 DEF Owns
<1>11. extra[l].WasHere = NULL
  BY <1>4, <1>9 DEF OwnerIs
<1> QED BY <1>1, <1>4, <1>5, <1>6, <1>7, <1>8, <1>10, <1>11

(* He passes it on.                                                        *)
LEMMA TransferAgrees ==
  ASSUME ProtocolInv, NEW l \in Lines, Agree(l), Ones(l),
         NEW m \in Msgs(l), m.type = "COHE", m.forward_to # NULL, NEW n \in Nodes, n = m.node,
         NEW k \in Nodes, k = m.forward_to, mshrs[n][l] = NULL, st[n][l] # "INVALID",
         NEW a \in Kinds, IsCohe(a), a.type = "COHE_REPLY", a.node = n, a.tag = l, ~a.isreq,
         a.forward_to = k, a.req_type = m.req_type,
         NEW r \in Kinds, IsPlain(r), r.type = "REPLY", r.node = k, r.tag = l,
         r.req_type = ForwardType(m.req_type, st[n][l]),
         Msgs(l)' = (Msgs(l) \ {m}) \cup {r, a}, Backs(l)' = Backs(l),
         \A i \in Nodes : i # n => SameCache(i, l), SameBook(l),
         st'[n][l] = CoheState(m.req_type), wrb_buf'[n][l] = wrb_buf[n][l]
  PROVE  Agree(l)'
<1>1. /\ IsCohe(m) /\ m.isreq /\ ~Known(l) /\ extra[l].WasHere = NULL
      /\ wrb_buf[n][l] = "NONE" /\ ~extra[l].waiting
      /\ \A i \in Nodes : /\ Owns(i, l) => i = n
                          /\ ~ExclComes(i, l) /\ ~BackComes(i, l) /\ ~Shares(i, l)
      /\ \A x \in Msgs(l) : x.isreq => Owner(x) # n
  BY OwnerMeets
<1>2. /\ extra[l] # NULL /\ Forwarding(l) /\ ~Invalidating(l) /\ ~Transferred(l) /\ ~Keeps(l)
      /\ n = extra[l].pend_req.node /\ k = extra[l].pend_req.forward_to
      /\ m.req_type = extra[l].pend_req.req_type /\ BelievesForward(l) /\ n # k
      /\ m.req_type \in {"COPYBACK", "COPYBACK_INVL"}
      /\ \A y \in Msgs(l) : IsCohe(y) => y = m
  BY <1>1, ForwardFacts
<1>3. Forwarding(l)' /\ ~Invalidating(l)' /\ Transferred(l)' /\ Known(l)' /\ ~Keeps(l)'
      /\ extra'[l] # NULL
  <2>1. Forwarding(l)' /\ ~Invalidating(l)' /\ extra'[l] # NULL
    BY <1>2 DEF Forwarding, Invalidating, SameBook, SameTrans
  <2>2. Transferred(l)'
    BY NullAssumption DEF Transferred
  <2>3. ~Keeps(l)'
    BY <1>2, <2>1 DEF Keeps, SameBook
  <2> QED BY <2>1, <2>2, <2>3 DEF Known
<1>4. /\ m.req_type = "COPYBACK" =>
           /\ dirst'[l] = "DIR_SHARED" /\ vector'[l] = {n, k}
           /\ st'[n][l] = "SH_CL" /\ r.req_type = "REPLY_SH"
      /\ m.req_type # "COPYBACK" =>
           /\ dirst'[l] = "DIR_PRIVATE" /\ vector'[l] = {k}
           /\ st'[n][l] = "INVALID" /\ r.req_type \in {"REPLY_EXCL", "REPLY_EXCLDY"}
  BY <1>1, <1>2 DEF BelievesForward, SameBook, CoheState, ForwardType
<1>5. Believes(l)'
  <2>1. BelievesForward(l)'
    BY <1>1, <1>2, <1>4 DEF BelievesForward, SameBook, SameTrans
  <2> QED BY <1>1, <1>3, <2>1 DEF Believes, SameBook, SameTrans
<1>6. a.req_type \notin DataTypes \cup WrbTypes /\ r.req_type \in DataTypes /\ ~a.preprocessed
  BY <1>2, <1>4, KindFacts DEF DataTypes, WrbTypes
<1>7. ASSUME NEW i \in Nodes
      PROVE  /\ ExclComes(i, l)' <=> i = k /\ m.req_type # "COPYBACK"
             /\ ShareComes(i, l)' => ShareComes(i, l) \/ (i = k /\ m.req_type = "COPYBACK")
             /\ ~BackComes(i, l)'
  <2>1. ExclComes(i, l)' <=> i = k /\ m.req_type # "COPYBACK"
    BY <1>1, <1>4, <1>6 DEF ExclComes, ExclTypes, DataTypes
  <2>2. ShareComes(i, l)' => ShareComes(i, l) \/ (i = k /\ m.req_type = "COPYBACK")
    BY <1>4, <1>6 DEF ShareComes, DataTypes
  <2>3. ~BackComes(i, l)'
    BY <1>1, <1>4, <1>6 DEF BackComes, DataTypes, WrbTypes
  <2> QED BY <2>1, <2>2, <2>3
<1>8. ASSUME NEW i \in Nodes
      PROVE  /\ Owns(i, l)' <=> i = k /\ m.req_type # "COPYBACK"
             /\ Shares(i, l)' => i \in {n, k} /\ m.req_type = "COPYBACK"
             /\ OneKind(i, l)'
  <2>1. OneKind(i, l)'
    BY <1>7 DEF OneKind
  <2>2. CASE i = n
    <3>1. ~Owns(i, l)'
      BY <1>1, <1>2, <1>4, <1>7, <2>2 DEF Owns, Private, WrbTypes
    <3>2. Shares(i, l)' => m.req_type = "COPYBACK"
      <4>1. ~ShareComes(i, l)
        <5>1. ~Waits(n, l)
          BY DEF Waits
        <5> QED BY <2>2, <5>1, NoTokenComes
      <4> QED BY <1>4, <1>7, <2>2, <4>1 DEF Shares
    <3> QED BY <1>2, <2>1, <2>2, <3>1, <3>2
  <2>3. CASE i # n
    <3>1. SameCache(i, l) /\ ~Owns(i, l) /\ ~Shares(i, l)
      BY <1>1, <2>3
    <3>2. Owns(i, l)' <=> i = k /\ m.req_type # "COPYBACK"
      BY <1>7, <3>1 DEF Owns, SameCache
    <3>3. Shares(i, l)' => i = k /\ m.req_type = "COPYBACK"
      BY <1>7, <3>1 DEF Shares, SameCache
    <3> QED BY <2>1, <3>2, <3>3
  <2> QED BY <2>2, <2>3
<1>9. ASSUME NEW i \in Nodes PROVE /\ OwnerIs(i, l)' <=> Owns(i, l)'
                                   /\ Shares(i, l)' => May(i, l)'
                                   /\ OneKind(i, l)'
  <2>1. OwnerIs(i, l)' <=> i = k /\ m.req_type # "COPYBACK"
    BY <1>3, <1>4 DEF OwnerIs
  <2>2. Shares(i, l)' => May(i, l)'
    BY <1>3, <1>4, <1>8 DEF May
  <2> QED BY <1>8, <2>1, <2>2
<1>10. PendOK(l)' /\ Backs(l)' <= 1
  BY <1>3 DEF PendOK, Agree
<1>11. ASSUME NEW x \in Msgs(l)' PROVE MessageOK(x, l)'
  <2>1. CASE x = a
    <3>1. OfTransaction(a, l)'
      BY <1>2, <1>3, NullAssumption DEF OfTransaction, SameBook, SameTrans
    <3> QED BY <1>6, <2>1, <3>1 DEF MessageOK
  <2>2. CASE x = r
    <3>1. Owner(m) = k /\ Owner(r) = k
      BY DEF Owner, IsPlain
    <3>2. Fits(m, k, l)
      BY <1>1, <3>1 DEF Agree, MessageOK
    <3>3. /\ st[k][l] = "INVALID"
          /\ m.req_type = "COPYBACK" => ~mshrs[k][l].excl
          /\ m.req_type # "COPYBACK" => mshrs[k][l].excl
      BY <1>2, <3>2 DEF Fits, ReadTypes, WriteTypes
    <3>4. Fits(r, k, l)
      BY <1>2, <1>4, <3>3 DEF Fits, ReadTypes, WriteTypes
    <3>5. SameCache(k, l) /\ r.req_type # "UPGRADE"
      BY <1>2, <1>4
    <3>6. Fits(r, k, l)'
      BY <3>4, <3>5, FitsStill
    <3> QED BY <1>6, <2>2, <3>1, <3>6 DEF MessageOK, IsPlain, Owner, IsCohe
  <2>3. CASE x \in Msgs(l) /\ x # m
    <3>1. MessageOK(x, l) /\ ~IsCohe(x)
      BY <1>2, <2>3 DEF Agree
    <3>2. ASSUME NEW i \in Nodes, x.isreq, Owner(x) = i PROVE Fits(x, i, l)'
      <4>1. i # n /\ Fits(x, i, l)
        BY <1>1, <2>3, <3>1, <3>2 DEF MessageOK
      <4>2. i # k
        <5>1. Owner(m) = k
          BY DEF Owner
        <5> QED BY <1>1, <2>3, <3>2, <5>1 DEF Ones, OneToken
      <4>3. ~Owns(i, l)'
        BY <1>8, <4>2
      <4>4. vector'[l] = vector[l]
        BY DEF SameBook
      <4> QED BY <4>1, <4>3, <4>4, FitsStill
    <3>3. x.isreq => Owner(x) \in Nodes
      BY <2>3 DEF Ones, OneToken
    <3> QED BY <3>1, <3>2, <3>3 DEF MessageOK, IsCohe, Owner
  <2> QED BY <2>1, <2>2, <2>3
<1> QED BY <1>5, <1>9, <1>10, <1>11 DEF Agree
-----------------------------------------------------------------------------
(***************************************************************************)
(* The write-backs under way, and the lines that a step does not touch.    *)
(***************************************************************************)
LEMMA BacksSame ==
  ASSUME UNCHANGED <<inRep, coheReps>>, NEW l \in Lines PROVE Backs(l)' = Backs(l)
<1> PICK S : S = WriteBacks(l)
  OBVIOUS
<1>1. WriteBacks(l)' = WriteBacks(l)
  BY DEF WriteBacks
<1> QED BY <1>1 DEF Backs

(* An answer that is none leaves a cache.                                  *)
LEMMA BacksSent ==
  ASSUME RequestInv, inRep' = inRep, NEW r \in REQ, coheReps' = coheReps \cup {r}, NEW l \in Lines
  PROVE  /\ r.req_type \notin WrbTypes => Backs(l)' = Backs(l)
         /\ r.tag # l => Backs(l)' = Backs(l)
         /\ Backs(l)' <= Backs(l) + 1
<1> PICK S : S = WriteBacks(l)
  OBVIOUS
<1>1. Backs(l) = Cnt(inRep, S) + Has(coheReps, S) /\ Backs(l)' = Cnt(inRep, S) + Has(coheReps', S)
  BY DEF Backs, WriteBacks
<1>2. IsFiniteSet(coheReps) /\ Cnt(inRep, S) \in Nat /\ Has(coheReps, S) \in Nat
  BY Counts DEF RequestInv, FlowInv, SetsFinite
<1>3. r \notin S \/ r \in coheReps => Has(coheReps', S) = Has(coheReps, S)
  <2>1. ASSUME r \notin S \/ r \in coheReps PROVE coheReps' \cap S = coheReps \cap S
    BY <2>1
  <2> QED BY <2>1 DEF Has
<1>4. r \notin coheReps => Has(coheReps', S) = Has(coheReps, S) + One(r, S)
  BY <1>2, HasAdd
<1>5. r.req_type \notin WrbTypes \/ r.tag # l => r \notin S
  BY DEF WriteBacks
<1>6. One(r, S) \in {0, 1}
  BY OneType
<1>7. Has(coheReps', S) <= Has(coheReps, S) + 1 /\ Has(coheReps', S) \in Nat
  BY <1>2, <1>3, <1>4, <1>6
<1> QED BY <1>1, <1>2, <1>3, <1>5, <1>7

(* One gets to the directory, or is taken there.                           *)
LEMMA BacksMoved ==
  ASSUME RequestInv, NEW r \in coheReps, inRep' = Append(inRep, r), coheReps' = coheReps \ {r},
         NEW l \in Lines
  PROVE  Backs(l)' = Backs(l)
<1> PICK S : S = WriteBacks(l)
  OBVIOUS
<1>1. Backs(l) = Cnt(inRep, S) + Has(coheReps, S) /\ Backs(l)' = Cnt(inRep', S) + Has(coheReps', S)
  BY DEF Backs, WriteBacks
<1>2. /\ IsFiniteSet(coheReps) /\ Cnt(inRep, S) \in Nat /\ Has(coheReps, S) \in Nat
      /\ inRep \in Seq(REQ) /\ r \in REQ
  BY Counts, QueueTypes DEF RequestInv, FlowInv, SetsFinite
<1>3. Cnt(inRep', S) = Cnt(inRep, S) + One(r, S)
  BY <1>2, CntAppend
<1>4. Has(coheReps', S) = Has(coheReps, S) - One(r, S)
  BY <1>2, HasRemove
<1>5. One(r, S) \in {0, 1}
  BY OneType
<1> QED BY <1>1, <1>2, <1>3, <1>4, <1>5

LEMMA BacksLess ==
  ASSUME RequestInv, ServeRep, CommitRep, NEW m \in REQ, m = Answer, coheReps' = coheReps,
         NEW l \in Lines
  PROVE  /\ m.req_type \notin WrbTypes \/ m.tag # l => Backs(l)' = Backs(l)
         /\ m.req_type \in WrbTypes /\ m.tag = l => Backs(l)' = Backs(l) - 1
<1> PICK S : S = WriteBacks(l)
  OBVIOUS
<1>1. Backs(l) = Cnt(inRep, S) + Has(coheReps, S) /\ Backs(l)' = Cnt(inRep', S) + Has(coheReps, S)
  BY DEF Backs, WriteBacks
<1>2. Cnt(inRep, S) \in Nat /\ Has(coheReps, S) \in Nat
  BY Counts DEF RequestInv, FlowInv
<1>3. Cnt(inRep', S) = Cnt(inRep, S) - One(m, S)
  BY CommitRepCount DEF RequestInv
<1>4. One(m, S) = IF m.req_type \in WrbTypes /\ m.tag = l THEN 1 ELSE 0
  BY DEF One, WriteBacks
<1> QED BY <1>1, <1>2, <1>3, <1>4

(* A line of which nothing changes.                                        *)
LEMMA SameLine ==
  ASSUME NEW l \in Lines, Agree(l), Ones(l), Ones(l)', SameCaches(l), SameBook(l),
         Msgs(l)' = Msgs(l), Backs(l)' = Backs(l)
  PROVE  Agree(l)'
<1>1. SameSignals(l)
  <2>1. Msgs(l)' = (Msgs(l) \ {}) \cup {} /\ \A x \in {} \cup {} : Silent(x)
    OBVIOUS
  <2> QED BY <2>1, SilentTurns
<1>2. \A x \in Msgs(l)' : MessageOK(x, l)
  BY DEF Agree
<1> QED BY <1>1, <1>2, Steady

(* Its messages that turn, but tell the same.                              *)
LEMMA SameTold ==
  ASSUME NEW l \in Lines, Agree(l), Ones(l), Ones(l)', SameCaches(l), SameBook(l),
         NEW m \in Msgs(l), NEW r, Means(m, r),
         Msgs(l)' = (Msgs(l) \ {m}) \cup {r}, Backs(l)' = Backs(l)
  PROVE  Agree(l)'
<1>1. \A x \in Msgs(l) : MessageOK(x, l)
  BY DEF Agree
<1>2. SameSignals(l) /\ \A x \in Msgs(l)' : MessageOK(x, l)
  BY <1>1, MeaningKept
<1> QED BY <1>2, Steady

(* A step that touches one line.                                           *)
LineSame(k) == Msgs(k)' = Msgs(k) /\ Backs(k)' = Backs(k) /\ SameCaches(k) /\ SameBook(k)

LEMMA OthersAgree ==
  ASSUME OwnerInv, AllOnes', NEW l \in Lines, Agree(l)',
         \A k \in Lines : k # l => LineSame(k)
  PROVE  \A k \in Lines : Agree(k)'
<1>1. AllOnes
  BY EachOnce DEF OwnerInv
<1> QED BY <1>1, SameLine DEF OwnerInv, AllOnes, LineSame

LEMMA NoneTouched ==
  ASSUME OwnerInv, AllOnes', \A k \in Lines : LineSame(k)
  PROVE  \A k \in Lines : Agree(k)'
<1>1. AllOnes
  BY EachOnce DEF OwnerInv
<1> QED BY <1>1, SameLine DEF OwnerInv, AllOnes, LineSame

(* What the directory leaves alone of the caches, and they of its table.   *)
LEMMA CachesSame ==
  ASSUME UNCHANGED <<st, wrb_buf, mshrs>>, NEW l \in Lines PROVE SameCaches(l)
  BY DEF SameCaches, SameCache

LEMMA BookSame ==
  ASSUME NEW l \in Lines, dirst'[l] = dirst[l], vector'[l] = vector[l], extra'[l] = extra[l],
         req_partial' = l => req_partial = l
  PROVE  SameBook(l)
  BY DEF SameBook, SameTrans

LEMMA TableTypes ==
  ASSUME ProtocolInv
  PROVE  /\ dirst \in [Lines -> {"UNCACHED", "DIR_SHARED", "DIR_PRIVATE"}]
         /\ vector \in [Lines -> SUBSET Nodes] /\ extra \in [Lines -> DirEP \cup {NULL}]
         /\ pend \in [Lines -> BOOLEAN] /\ PendIffExtra
  BY DEF ProtocolInv, IInv, LineInv, LineTypeOK

LEMMA OwnerFacts ==
  ASSUME OwnerInv
  PROVE  /\ ProtocolInv /\ RequestInv /\ SetsFinite /\ TransInv /\ AllOnes
         /\ IInv /\ DirShapes /\ CacheShapes
<1>1. ProtocolInv /\ RequestInv /\ SetsFinite /\ TransInv
  BY DEF OwnerInv, RequestInv, FlowInv
<1> QED BY <1>1, EachOnce DEF ProtocolInv, Shapes
-----------------------------------------------------------------------------
(***************************************************************************)
(* The steps of the directory and the network.  Most of them concern no    *)
(* line, or pass a message on; then the line of a message is the only one  *)
(* that something happens to.                                              *)
(***************************************************************************)
QuietLine(k) == Backs(k)' = Backs(k) /\ SameCaches(k) /\ SameBook(k)

LEMMA NothingPosted ==
  ASSUME OwnerInv, AllOnes', Mail' = Mail, \A k \in Lines : QuietLine(k)
  PROVE  \A k \in Lines : Agree(k)'
<1>1. \A k \in Lines : Msgs(k)' = Msgs(k)
  BY Untouched DEF Posts
<1> QED BY <1>1, NoneTouched DEF LineSame, QuietLine

LEMMA PassedOn ==
  ASSUME OwnerInv, AllOnes', NEW m \in Mail, m.tag \in Lines, NEW r, Posts({m}, {r}),
         Means(m, r), m.isreq \/ IsCohe(m), \A k \in Lines : QuietLine(k)
  PROVE  \A k \in Lines : Agree(k)'
<1> PICK l \in Lines : l = m.tag
  OBVIOUS
<1>1. SameKind(m, r) /\ r.tag = l
  BY DEF Means, SameKind, Owner
<1>2. /\ Msgs(l)' = (Msgs(l) \ {m}) \cup {r}
      /\ \A k \in Lines : k # l => Msgs(k)' = Msgs(k)
  BY <1>1, Rewritten
<1>3. m \in Msgs(l)
  BY DEF Msgs
<1>4. Agree(l) /\ Ones(l) /\ Ones(l)'
  BY OwnerFacts DEF OwnerInv, AllOnes
<1>5. Agree(l)'
  BY <1>2, <1>3, <1>4, SameTold DEF QuietLine
<1> QED BY <1>2, <1>5, OthersAgree DEF LineSame, QuietLine

LEMMA DirAlone ==
  ASSUME UNCHANGED l2Vars
  PROVE  /\ CacheMail' = CacheMail /\ UNCHANGED <<st, wrb_buf, mshrs, coheReps>>
         /\ \A k \in Lines : SameCaches(k)
         /\ inRep' = inRep => \A k \in Lines : Backs(k)' = Backs(k)
<1>1. UNCHANGED <<st, wrb_buf, mshrs, coheReps>>
  BY DEF l2Vars, cacheVars, portVars
<1> QED BY <1>1, PartsSame, CachesSame, BacksSame

LEMMA SameBooks ==
  ASSUME UNCHANGED <<dirst, vector, extra>>, req_partial' \in {req_partial, NULL}
  PROVE  \A k \in Lines : SameBook(k)
  BY BookSame, NullAssumption

(* The directory sends what it kept, or keeps it on.                       *)
LEMMA StartPosts == ASSUME ProtocolInv, DirStart PROVE Outs' = Outs
<1>1. CASE DirOutbound
  <2>1. /\ OutboundReqs \in Seq(REQ) /\ OutboundReqs # <<>>
        /\ outCohe \in Seq(REQ) /\ outRep \in Seq(REQ)
    BY <1>1, QueueTypes DEF DirOutbound, OutboundDone
  <2> PICK m : m = Head(OutboundReqs)
    OBVIOUS
  <2>2. m \in REQ /\ Tail(OutboundReqs) \in Seq(REQ)
    BY <2>1, SeqFacts
  <2>3. Range(Tail(OutboundReqs)) \cup {m} = Range(OutboundReqs)
    BY <2>1, <2>2, TailRange
  <2>4. CASE PortFull(m)
    <3>1. OutboundReqs' = Append(Tail(OutboundReqs), m) /\ UNCHANGED outVars
      BY <1>1, <2>4 DEF DirOutbound
    <3>2. Range(OutboundReqs') = Range(OutboundReqs)
      <4> PICK q \in Seq(REQ) : q = Tail(OutboundReqs)
        BY <2>2
      <4>1. Range(Append(q, m)) = Range(q) \cup {m}
        BY <2>2, PutRange
      <4> QED BY <2>3, <3>1, <4>1
    <3> QED BY <3>1, <3>2 DEF Outs, outVars
  <2>5. CASE ~PortFull(m)
    <3>1. OutboundReqs' = Tail(OutboundReqs) /\ AddReq(m)
      BY <1>1, <2>5 DEF DirOutbound
    <3>2. /\ Range(Append(outCohe, m)) = Range(outCohe) \cup {m}
          /\ Range(Append(outRep, m)) = Range(outRep) \cup {m}
      BY <2>1, <2>2, PutRange
    <3>3. Range(outCohe') \cup Range(outRep') = Range(outCohe) \cup Range(outRep) \cup {m}
      BY <3>1, <3>2 DEF AddReq
    <3> QED BY <2>3, <3>1, <3>3 DEF Outs
  <2> QED BY <2>4, <2>5
<1>2. CASE DirActivate \/ DirPick \/ DirNextPort
  <2>1. UNCHANGED <<OutboundReqs, outVars>>
    BY <1>2 DEF DirActivate, DirPick, DirNextPort, queueVars
  <2> QED BY <2>1, PartsSame
<1> QED BY <1>1, <1>2 DEF DirStart

LEMMA StartAgrees ==
  ASSUME OwnerInv, AllOnes', DirStart, UNCHANGED l2Vars PROVE \A k \in Lines : Agree(k)'
<1>1. ProtocolInv
  BY OwnerFacts
<1>2. UNCHANGED <<lineVars, inReq, inRep, ReadyReqs, BufPend>> /\ req_partial' = req_partial
  BY DEF DirStart, DirActivate, DirOutbound, DirPick, DirNextPort, queueVars, inVars
<1>3. Outs' = Outs
  BY <1>1, StartPosts
<1>4. Mail' = Mail
  BY <1>2, <1>3, MailParts, PartsSame, DirAlone
<1>5. \A k \in Lines : QuietLine(k)
  BY <1>2, SameBooks, DirAlone DEF QuietLine, lineVars
<1> QED BY <1>4, <1>5, NothingPosted

(* The requests that the directory answers at once, or lets wait.          *)
LEMMA RequestFacts ==
  ASSUME OwnerInv, ServeReq, NEW m, m = Request
  PROVE  /\ m \in RequestMsg /\ m \in REQ /\ m.tag \in Lines /\ m.node \in Nodes /\ m.isreq
         /\ m \in Mail /\ m \in Msgs(m.tag) /\ MessageOK(m, m.tag) /\ IsPlain(m)
         /\ req_partial = NULL
<1>1. ProtocolInv /\ IInv /\ DirShapes
  BY OwnerFacts
<1>2. m \in RequestMsg
  BY <1>1, RequestShape
<1>3. m \in REQ /\ IsPlain(m)
  BY <1>2 DEF RequestMsg, IsPlain
<1>4. m \in Mail
  BY <1>1, CommitPosts, MailParts
<1>5. m.tag \in Lines /\ m.node \in Nodes /\ m.isreq
  BY <1>3 DEF REQ, IsPlain
<1>6. m \in Msgs(m.tag)
  BY <1>4 DEF Msgs
<1>7. MessageOK(m, m.tag)
  BY <1>5, <1>6 DEF OwnerInv, Agree
<1>8. req_partial = NULL
  BY DEF OwnerInv, RequestInv, FlowInv, OneByOne, ServeReq
<1> QED BY <1>2, <1>3, <1>4, <1>5, <1>6, <1>7, <1>8

LEMMA ErrorAgrees ==
  ASSUME OwnerInv, AllOnes', NEW c, YS__errmsg(c), UNCHANGED l2Vars
  PROVE  \A k \in Lines : Agree(k)'
<1>1. UNCHANGED <<lineVars, queueVars, inVars, outVars, req_partial>>
  BY DEF YS__errmsg
<1>2. Mail' = Mail
  BY <1>1, MailParts, PartsSame, DirAlone DEF queueVars, inVars
<1>3. \A k \in Lines : QuietLine(k)
  BY <1>1, SameBooks, DirAlone DEF QuietLine, lineVars, inVars
<1> QED BY <1>2, <1>3, NothingPosted

LEMMA ReturnedAgrees ==
  ASSUME OwnerInv, AllOnes', DirReqBounce \/ DirReqRAR, UNCHANGED l2Vars
  PROVE  \A k \in Lines : Agree(k)'
<1>1. ProtocolInv /\ ServeReq
  BY OwnerFacts DEF DirReqBounce, DirReqRAR
<1>2. UNCHANGED <<lineVars, inRep, OutboundReqs, BufPend, req_partial>>
  BY DEF DirReqBounce, DirReqRAR
<1>3. \A k \in Lines : QuietLine(k)
  BY <1>2, SameBooks, DirAlone DEF QuietLine, lineVars
<1>4. CASE Full(outRep)
  <2>1. UNCHANGED <<ReadyReqs, inReq, outVars>>
    BY <1>4 DEF DirReqBounce, DirReqRAR
  <2>2. Mail' = Mail
    BY <1>2, <2>1, MailParts, PartsSame, DirAlone
  <2> QED BY <1>3, <2>2, NothingPosted
<1>5. CASE ~Full(outRep)
  <2> PICK m : m = Request
    OBVIOUS
  <2>1. /\ m \in RequestMsg /\ m \in REQ /\ m.tag \in Lines /\ m.isreq /\ m \in Mail
        /\ MessageOK(m, m.tag) /\ IsPlain(m)
    BY <1>1, RequestFacts
  <2>2. CommitReq /\ \E r \in REQ : AddReq(r) /\ Means(m, r)
    <3>1. CASE DirReqBounce
      <4> PICK r : r = [m EXCEPT !.type = "REPLY", !.reply = "REPLY"]
        OBVIOUS
      <4>1. CommitReq /\ AddReq(r) /\ m.preprocessed
        BY <1>5, <3>1 DEF DirReqBounce
      <4>2. r \in REQ
        BY <2>1 DEF REQ
      <4>3. Means(m, r)
        BY <2>1, <4>1 DEF Means, MessageOK, IsPlain, IsCohe, REQ
      <4> QED BY <4>1, <4>2, <4>3
    <3>2. CASE DirReqRAR
      <4> PICK r : r = [m EXCEPT !.type = "REPLY", !.reply = "RAR"]
        OBVIOUS
      <4>1. CommitReq /\ AddReq(r) /\ ~m.preprocessed
        BY <1>5, <3>2 DEF DirReqRAR
      <4>2. r \in REQ
        BY <2>1 DEF REQ
      <4>3. Means(m, r)
        BY <2>1, <4>1 DEF Means, MessageOK, IsPlain, IsCohe, REQ
      <4> QED BY <4>1, <4>2, <4>3
    <3> QED BY <3>1, <3>2
  <2> PICK r \in REQ : AddReq(r) /\ Means(m, r)
    BY <2>2
  <2>3. Ins' \cup {m} = Ins /\ Outs' = Outs \cup {r}
    BY <1>1, <1>2, <2>2, CommitPosts, AddPosts
  <2>4. Posts({m}, {r})
    BY <1>2, <2>3, MailParts, PartsSame, DirAlone DEF Posts
  <2> QED BY <1>3, <2>1, <2>4, PassedOn
<1> QED BY <1>4, <1>5

LEMMA PendPosts ==
  ASSUME ProtocolInv, NEW m \in REQ, NEW l \in Lines,
         BufPend' = [BufPend EXCEPT ![l] = Append(@, m)]
  PROVE  Waiting' = Waiting \cup {m}
<1>1. BufPend \in [Lines -> Seq(REQ)] /\ BufPend[l] \in Seq(REQ)
  BY QueueTypes
<1>2. Range(Append(BufPend[l], m)) = Range(BufPend[l]) \cup {m}
  BY <1>1, PutRange
<1>3. /\ BufPend'[l] = Append(BufPend[l], m)
      /\ \A k \in Lines : k # l => BufPend'[k] = BufPend[k]
  BY <1>1
<1>4. \A k \in Lines : Range(BufPend'[k]) = Range(BufPend[k]) \cup IF k = l THEN {m} ELSE {}
  BY <1>2, <1>3
<1>5. Waiting' = UNION {Range(BufPend'[k]) : k \in Lines}
  BY DEF Waiting
<1>6. \A x : x \in Waiting' <=> \E k \in Lines : x \in Range(BufPend'[k])
  BY <1>5
<1>7. \A x : x \in Waiting <=> \E k \in Lines : x \in Range(BufPend[k])
  BY DEF Waiting
<1>8. ASSUME NEW x PROVE x \in Waiting' <=> x \in Waiting \cup {m}
  BY <1>4, <1>6, <1>7
<1> QED BY <1>8

LEMMA PendAgrees ==
  ASSUME OwnerInv, AllOnes', DirReqPend, UNCHANGED l2Vars PROVE \A k \in Lines : Agree(k)'
<1>1. ProtocolInv /\ ServeReq /\ CommitReq
  BY OwnerFacts DEF DirReqPend, ServeCohe
<1>2. UNCHANGED <<lineVars, inRep, OutboundReqs, outVars, req_partial>>
  BY DEF DirReqPend
<1>3. \A k \in Lines : QuietLine(k)
  BY <1>2, SameBooks, DirAlone DEF QuietLine, lineVars
<1> PICK m : m = Request
  OBVIOUS
<1> PICK l : l = m.tag
  OBVIOUS
<1>4. m \in REQ /\ l \in Lines
  BY <1>1, RequestFacts
<1>5. BufPend' = [BufPend EXCEPT ![l] = Append(@, m)]
  BY DEF DirReqPend
<1>6. Waiting' = Waiting \cup {m}
  BY <1>1, <1>4, <1>5, PendPosts
<1>7. Ins' \cup {m} = Ins
  BY <1>1, CommitPosts
<1>8. Mail' = Mail
  BY <1>2, <1>6, <1>7, MailParts, PartsSame, DirAlone
<1> QED BY <1>3, <1>8, NothingPosted

(* What a step of the directory writes about one line.                     *)
LEMMA LineWrites ==
  ASSUME ProtocolInv, NEW l \in Lines, NEW d, NEW v, NEW e,
         dirst' = [dirst EXCEPT ![l] = d], vector' = [vector EXCEPT ![l] = v],
         extra' = [extra EXCEPT ![l] = e], req_partial' \in {req_partial, NULL, l}
  PROVE  /\ dirst'[l] = d /\ vector'[l] = v /\ extra'[l] = e
         /\ \A k \in Lines : k # l => SameBook(k)
<1>1. dirst'[l] = d /\ vector'[l] = v /\ extra'[l] = e
  BY TableTypes
<1>2. \A k \in Lines : k # l =>
        /\ dirst'[k] = dirst[k] /\ vector'[k] = vector[k] /\ extra'[k] = extra[k]
        /\ req_partial' = k => req_partial = k
  BY TableTypes, NullAssumption
<1> QED BY <1>1, <1>2, BookSame

LEMMA SameTable ==
  ASSUME ProtocolInv, NEW l \in Lines
  PROVE  /\ UNCHANGED dirst => dirst' = [dirst EXCEPT ![l] = dirst[l]]
         /\ UNCHANGED vector => vector' = [vector EXCEPT ![l] = vector[l]]
         /\ UNCHANGED extra => extra' = [extra EXCEPT ![l] = extra[l]]
  BY TableTypes

LEMMA OnlyLine ==
  ASSUME OwnerInv, AllOnes', UNCHANGED l2Vars, NEW l \in Lines, Agree(l)',
         \A k \in Lines : k # l => Msgs(k)' = Msgs(k) /\ Backs(k)' = Backs(k) /\ SameBook(k)
  PROVE  \A k \in Lines : Agree(k)'
  BY DirAlone, OthersAgree DEF LineSame

LEMMA DecidesFacts ==
  ASSUME OwnerInv, Decides(Request), NEW m, m = Request, NEW l, l = m.tag
  PROVE  /\ ServeReq /\ ~m.preprocessed /\ m.req_type \in ReqTypes /\ m \in PlainRequest
         /\ l \in Lines /\ m \in Msgs(l) /\ IsPlain(m) /\ extra[l] = NULL /\ req_partial = NULL
         /\ Agree(l) /\ Ones(l)
<1>1. ServeReq /\ ~m.preprocessed /\ ~pend[l] /\ HaveBuffer /\ ReqError(m) = "none"
  BY DEF Decides, ServeCohe
<1>2. m \in RequestMsg /\ l \in Lines /\ m \in Msgs(l) /\ IsPlain(m) /\ req_partial = NULL
  BY <1>1, RequestFacts
<1>3. m.req_type \in ReqTypes
  BY <1>1 DEF ReqError
<1>4. extra[l] = NULL
  BY <1>1, <1>2, TableTypes, OwnerFacts DEF PendIffExtra
<1>5. Agree(l) /\ Ones(l)
  BY <1>2, OwnerFacts DEF OwnerInv, AllOnes
<1> QED BY <1>1, <1>2, <1>3, <1>4, <1>5 DEF PlainRequest

LEMMA GrantDone ==
  ASSUME OwnerInv, AllOnes', DirReqGrant, UNCHANGED l2Vars PROVE \A k \in Lines : Agree(k)'
<1> PICK m : m = Request
  OBVIOUS
<1> PICK l : l = m.tag
  OBVIOUS
<1>1. Decides(m) /\ Decides(Request) /\ Grants(m)
  BY DEF DirReqGrant
<1>2. /\ ServeReq /\ m.req_type \in ReqTypes /\ m \in PlainRequest
      /\ l \in Lines /\ m \in Msgs(l) /\ IsPlain(m) /\ extra[l] = NULL
      /\ Agree(l) /\ Ones(l)
  BY <1>1, DecidesFacts
<1>3. ProtocolInv
  BY OwnerFacts
<1>4. m \in RequestMsg /\ m.node \in Nodes
  BY <1>1, <1>2, RequestFacts
<1> PICK t : t = GrantType(m)
  OBVIOUS
<1>5. Grantable(l, m)
  BY <1>1, <1>2 DEF Grantable, Grants, WaitsForWRB, Forwards
<1>6. t \in DataTypes
  BY <1>2, <1>3, <1>5, GrantFacts DEF DataTypes
<1> PICK s : s = [m EXCEPT !.req_type = t]
  OBVIOUS
<1> PICK d : d = IF t = "REPLY_SH" THEN "DIR_SHARED" ELSE "DIR_PRIVATE"
  OBVIOUS
<1> PICK v : v = IF CoheReqType(m) = "READ_SH" THEN vector[l] \cup {m.node} ELSE {m.node}
  OBVIOUS
<1>7. s \in RequestMsg /\ [s EXCEPT !.type = "REPLY", !.reply = "REPLY"] \in ReplyMsg
  BY <1>4, <1>6, AnsweredRequest
<1>8. s.req_type = t
  BY <1>4, ShapesAreMessages DEF REQ
<1>9. /\ dirst' = [dirst EXCEPT ![l] = d] /\ vector' = [vector EXCEPT ![l] = v]
      /\ extra' = [extra EXCEPT ![l] = NULL]
      /\ UNCHANGED <<BufPend, OutboundReqs, inRep, req_partial>>
  BY <1>8 DEF DirReqGrant, DirAdd_FM, DirRmAllAdd_FM
<1>10. /\ dirst'[l] = d /\ vector'[l] = v /\ extra'[l] = NULL
       /\ \A k \in Lines : k # l => SameBook(k)
  <2>1. req_partial' \in {req_partial, NULL, l}
    BY <1>9
  <2>2. /\ dirst' = [dirst EXCEPT ![l] = d] /\ vector' = [vector EXCEPT ![l] = v]
        /\ extra' = [extra EXCEPT ![l] = NULL]
    BY <1>9
  <2> QED BY ONLY <1>2, <1>3, <2>1, <2>2, LineWrites
<1>11. \E r \in Kinds : /\ Posts({m}, {r}) /\ IsPlain(r) /\ r.node = m.node /\ r.tag = l
                        /\ r.req_type = t
  <2>1. CASE Full(outRep)
    <3>1. LeaveReq(s) /\ UNCHANGED outVars
      BY <2>1 DEF DirReqGrant
    <3>2. Ins' \cup {m} = Ins \cup {s} /\ s \in Ins'
      BY <1>2, <1>3, <1>7, <3>1, CommitPosts, ShapesAreMessages
    <3>3. Posts({m}, {s})
      BY <1>9, <3>1, <3>2, MailParts, PartsSame, DirAlone DEF Posts
    <3>4. IsPlain(s) /\ s.node = m.node /\ s.tag = l
      BY <1>2, <1>4, ShapesAreMessages DEF IsPlain, REQ
    <3>5. s \in Kinds
      BY <1>7 DEF Kinds
    <3> QED BY <1>8, <3>3, <3>4, <3>5
  <2>2. CASE ~Full(outRep)
    <3> PICK r : r = [s EXCEPT !.type = "REPLY", !.reply = "REPLY"]
      OBVIOUS
    <3>1. CommitReq /\ AddReq(r)
      BY <2>2 DEF DirReqGrant
    <3>2. r \in ReplyMsg /\ r \in REQ /\ s \in REQ
      BY <1>7, ShapesAreMessages
    <3>3. Ins' \cup {m} = Ins /\ Outs' = Outs \cup {r}
      BY <1>2, <1>3, <1>9, <3>1, <3>2, CommitPosts, AddPosts
    <3>4. Posts({m}, {r})
      BY <1>9, <3>3, MailParts, PartsSame, DirAlone DEF Posts
    <3>5. r.node = s.node /\ r.tag = s.tag /\ r.req_type = s.req_type
      BY <3>2 DEF REQ
    <3>8. IsPlain(r)
      BY <3>2 DEF IsPlain, ReplyMsg
    <3>6. s.node = m.node /\ s.tag = l
      BY <1>4, ShapesAreMessages DEF REQ
    <3>7. r \in Kinds
      BY <3>2 DEF Kinds
    <3> QED BY <1>8, <3>4, <3>5, <3>6, <3>7, <3>8
  <2> QED BY <2>1, <2>2
<1> PICK r \in Kinds : /\ Posts({m}, {r}) /\ IsPlain(r) /\ r.node = m.node /\ r.tag = l
                       /\ r.req_type = t
  BY <1>11
<1>12. SameKind(m, r)
  BY <1>2 DEF IsPlain, SameKind, Owner
<1>13. /\ Msgs(l)' = (Msgs(l) \ {m}) \cup {r}
       /\ \A k \in Lines : k # l => Msgs(k)' = Msgs(k)
  BY <1>2, <1>12, Rewritten
<1>14. \A k \in Lines : Backs(k)' = Backs(k) /\ SameCaches(k)
  BY <1>9, DirAlone
<1>15. Agree(l)'
  BY <1>1, <1>2, <1>3, <1>5, <1>10, <1>13, <1>14, GrantAgrees
<1> QED BY <1>2, <1>10, <1>13, <1>14, <1>15, OnlyLine

(* A request that starts a transaction is with the directory alone.        *)
LEMMA Started ==
  ASSUME OwnerInv, AllOnes', ServeReq, CommitReq, UNCHANGED l2Vars,
         UNCHANGED <<BufPend, OutboundReqs, inRep, outVars>>,
         NEW m, m = Request, NEW l \in Lines, l = m.tag, m.isreq,
         NEW e, e = extra'[l], e # NULL, Owner(e.pend_req) = Owner(m),
         e.ret_st = "ACK_REPLY" => req_partial' = l
  PROVE  /\ Msgs(l)' = Msgs(l) \ {m}
         /\ \A k \in Lines : /\ k # l => Msgs(k)' = Msgs(k)
                             /\ Backs(k)' = Backs(k) /\ SameCaches(k)
<1>1. Ins' \cup {m} = Ins
  BY CommitPosts, OwnerFacts
<1>2. Posts({m}, {})
  BY <1>1, MailParts, PartsSame, DirAlone DEF Posts
<1>3. m \notin Msgs(l)'
  <2>1. Keeps(l)'
    BY DEF Keeps, Forwarding
  <2>2. \A x \in Msgs(l)' : x.isreq => Owner(x) # Owner(e.pend_req)
    BY <2>1 DEF AllOnes, Ones, OneKept, Owner
  <2> QED BY <2>2
<1>4. /\ Msgs(l)' = Msgs(l) \ {m}
      /\ \A k \in Lines : k # l => Msgs(k)' = Msgs(k)
  BY <1>2, <1>3, Taken
<1> QED BY <1>4, DirAlone

LEMMA WaitDone ==
  ASSUME OwnerInv, AllOnes', DirReqWaitForWRB, UNCHANGED l2Vars
  PROVE  \A k \in Lines : Agree(k)'
<1> PICK m : m = Request
  OBVIOUS
<1> PICK l : l = m.tag
  OBVIOUS
<1> PICK p : p = [m EXCEPT !.req_type = CoheReqType(m)]
  OBVIOUS
<1>1. Decides(Request)
  BY DEF DirReqWaitForWRB
<1>2. /\ ServeReq /\ m.req_type \in ReqTypes /\ m \in PlainRequest
      /\ l \in Lines /\ m \in Msgs(l) /\ IsPlain(m) /\ extra[l] = NULL
      /\ Agree(l) /\ Ones(l)
  BY <1>1, DecidesFacts
<1>3. ProtocolInv
  BY OwnerFacts
<1>4. m \in REQ /\ m.isreq /\ m.node \in Nodes
  BY <1>2, RequestFacts
<1>5. /\ p.tag = l /\ p.node = m.node /\ p.forward_to = m.forward_to
      /\ Owner(p) = Owner(m)
  BY <1>4 DEF Owner, REQ
<1> PICK e : e = [NewExtra(p, 1, {}) EXCEPT !.waiting = TRUE, !.WaitingFor = p.node]
  OBVIOUS
<1>6. /\ e.waiting /\ e.ret_st = "DIR_REPLY" /\ e.WaitingFor = m.node /\ e.pend_req = p
  BY <1>5 DEF NewExtra
<1>7. e # NULL
  <2>1. p \in PlainRequest
    BY <1>2, <1>4, AnsweredRequest DEF CoheReqType, ReqTypes, PlainRequest
  <2>2. p \in REQ
    BY <2>1, ShapesAreMessages
  <2>3. e \in DirEP
    BY <1>4, <1>5, <2>2 DEF NewExtra, DirEP, CoheTypes
  <2> QED BY <2>3, ExtraAssumption
<1>8. /\ WaitsForWRB(p) /\ CommitReq /\ extra' = [extra EXCEPT ![l] = e]
      /\ UNCHANGED <<dirst, vector, BufPend, OutboundReqs, inRep, outVars, req_partial>>
  BY <1>5 DEF DirReqWaitForWRB
<1>9. dirst[l] = "DIR_PRIVATE" /\ vector[l] = {m.node}
  BY <1>5, <1>8 DEF WaitsForWRB
<1>10. /\ dirst'[l] = dirst[l] /\ vector'[l] = vector[l] /\ extra'[l] = e
       /\ \A k \in Lines : k # l => SameBook(k)
  <2>1. req_partial' \in {req_partial, NULL, l}
    BY <1>8
  <2>2. /\ dirst' = [dirst EXCEPT ![l] = dirst[l]] /\ vector' = [vector EXCEPT ![l] = vector[l]]
        /\ extra' = [extra EXCEPT ![l] = e]
    BY <1>2, <1>3, <1>8, SameTable
  <2> QED BY ONLY <1>2, <1>3, <2>1, <2>2, LineWrites
<1>11. /\ Msgs(l)' = Msgs(l) \ {m}
       /\ \A k \in Lines : /\ k # l => Msgs(k)' = Msgs(k)
                           /\ Backs(k)' = Backs(k) /\ SameCaches(k)
  <2>1. CommitReq /\ UNCHANGED <<BufPend, OutboundReqs, inRep, outVars>>
    BY <1>5, <1>6, <1>8, <1>10
  <2>2. /\ e = extra'[l] /\ Owner(e.pend_req) = Owner(m)
        /\ e.ret_st = "ACK_REPLY" => req_partial' = l
    BY <1>5, <1>6, <1>8, <1>10
  <2>3. OwnerInv /\ AllOnes' /\ UNCHANGED l2Vars
    OBVIOUS
  <2> QED BY ONLY <1>2, <1>4, <1>7, <2>1, <2>2, <2>3, m = Request, l = m.tag, Started
<1>12. Agree(l)'
  BY <1>2, <1>3, <1>6, <1>7, <1>9, <1>10, <1>11, WaitAgrees
<1> QED BY <1>2, <1>10, <1>11, <1>12, OnlyLine

LEMMA InvalDone ==
  ASSUME OwnerInv, AllOnes', DirReqInval, UNCHANGED l2Vars
  PROVE  \A k \in Lines : Agree(k)'
<1> PICK m : m = Request
  OBVIOUS
<1> PICK l : l = m.tag
  OBVIOUS
<1> PICK t : t = GrantType(m)
  OBVIOUS
<1> PICK p : p = [m EXCEPT !.req_type = t]
  OBVIOUS
<1>1. Decides(Request) /\ Invalidates(m)
  BY DEF DirReqInval
<1>2. /\ ServeReq /\ m.req_type \in ReqTypes /\ m \in PlainRequest
      /\ l \in Lines /\ m \in Msgs(l) /\ IsPlain(m) /\ extra[l] = NULL
      /\ Agree(l) /\ Ones(l)
  BY <1>1, DecidesFacts
<1>3. ProtocolInv
  BY OwnerFacts
<1>4. m \in REQ /\ m.isreq /\ m.node \in Nodes /\ m \in RequestMsg
  BY <1>2, RequestFacts
<1>5. /\ p.tag = l /\ p.node = m.node /\ p.forward_to = m.forward_to
      /\ Owner(p) = Owner(m)
  BY <1>4 DEF Owner, REQ
<1>6. Grantable(l, m)
  BY <1>1, <1>2 DEF Grantable, Invalidates
<1> PICK o : o = Others(m)
  OBVIOUS
<1> PICK c : c = Cardinality(o)
  OBVIOUS
<1> PICK s : s = IF CoheReqType(m) = "UPGRADE" THEN "DIR_REPLY" ELSE "SPECIAL_REPLY"
  OBVIOUS
<1> PICK e : e = [NewExtra(p, c, o) EXCEPT !.ret_st = s]
  OBVIOUS
<1>7. /\ ~e.waiting /\ e.ret_st # "ACK_REPLY" /\ e.pend_req = p /\ e.left = o
      /\ e.next_req_type = "INVL"
  BY DEF NewExtra
<1>8. /\ CommitReq /\ extra' = [extra EXCEPT ![l] = e]
      /\ dirst' = [dirst EXCEPT ![l] = "DIR_PRIVATE"] /\ vector' = [vector EXCEPT ![l] = {m.node}]
      /\ UNCHANGED <<BufPend, OutboundReqs, inRep, outVars>> /\ req_partial' = l
  BY DEF DirReqInval, DirRmAllAdd_FM, StartCohe
<1>9. e # NULL
  <2>1. t \in DataTypes
    BY <1>2, <1>3, <1>6, GrantFacts DEF DataTypes
  <2>2. p \in REQ
    BY <1>4, <2>1, AnsweredRequest, ShapesAreMessages
  <2>3. o \subseteq Nodes
    BY <1>2, <1>3, TableTypes DEF Others
  <2>4. c \in Nat
    BY <2>3, NodesAssumption, FS_Subset, FS_CardinalityType
  <2>5. e \in DirEP
    BY <2>2, <2>3, <2>4 DEF NewExtra, DirEP, CoheTypes
  <2> QED BY <2>5, ExtraAssumption
<1>10. /\ dirst'[l] = "DIR_PRIVATE" /\ vector'[l] = {m.node} /\ extra'[l] = e
       /\ \A k \in Lines : k # l => SameBook(k)
  <2>1. req_partial' \in {req_partial, NULL, l}
    BY <1>8
  <2>2. /\ dirst' = [dirst EXCEPT ![l] = "DIR_PRIVATE"] /\ vector' = [vector EXCEPT ![l] = {m.node}]
        /\ extra' = [extra EXCEPT ![l] = e]
    BY <1>8
  <2> QED BY ONLY <1>2, <1>3, <2>1, <2>2, LineWrites
<1>11. /\ Msgs(l)' = Msgs(l) \ {m}
       /\ \A k \in Lines : /\ k # l => Msgs(k)' = Msgs(k)
                           /\ Backs(k)' = Backs(k) /\ SameCaches(k)
  <2>1. CommitReq /\ UNCHANGED <<BufPend, OutboundReqs, inRep, outVars>>
    BY <1>5, <1>7, <1>8, <1>10
  <2>2. /\ e = extra'[l] /\ Owner(e.pend_req) = Owner(m)
        /\ e.ret_st = "ACK_REPLY" => req_partial' = l
    BY <1>5, <1>7, <1>8, <1>10
  <2>3. OwnerInv /\ AllOnes' /\ UNCHANGED l2Vars
    OBVIOUS
  <2> QED BY ONLY <1>2, <1>4, <1>9, <2>1, <2>2, <2>3, m = Request, l = m.tag, Started
<1>12. Agree(l)'
  BY <1>1, <1>2, <1>3, <1>6, <1>7, <1>9, <1>10, <1>11, InvalAgrees
<1> QED BY <1>2, <1>10, <1>11, <1>12, OnlyLine

LEMMA ForwardDone ==
  ASSUME OwnerInv, AllOnes', DirReqForward, UNCHANGED l2Vars
  PROVE  \A k \in Lines : Agree(k)'
<1> PICK m : m = Request
  OBVIOUS
<1> PICK l : l = m.tag
  OBVIOUS
<1>1. Decides(Request) /\ Forwards(m)
  BY DEF DirReqForward
<1>2. /\ ServeReq /\ m.req_type \in ReqTypes /\ m \in PlainRequest
      /\ l \in Lines /\ m \in Msgs(l) /\ IsPlain(m) /\ extra[l] = NULL
      /\ Agree(l) /\ Ones(l)
  BY <1>1, DecidesFacts
<1>3. ProtocolInv
  BY OwnerFacts
<1>4. m \in REQ /\ m.isreq /\ m.node \in Nodes /\ m.forward_to = NULL
  BY <1>2, RequestFacts DEF IsPlain
<1>5. dirst[l] = "DIR_PRIVATE" /\ vector[l] # {m.node}
  BY <1>1 DEF Forwards
<1> PICK o : o = CHOOSE n \in vector[l] : TRUE
  OBVIOUS
<1>6. o \in Nodes /\ vector[l] = {o} /\ o # m.node
  <2>1. \E n \in Nodes : vector[l] = {n}
    BY <1>2, <1>3, <1>5 DEF ProtocolInv, IInv, LineInv, VectorOK
  <2> PICK n \in Nodes : vector[l] = {n}
    BY <2>1
  <2>2. o \in {n}
    OBVIOUS
  <2> QED BY <1>5, <2>2
<1> PICK c : c = CopybackType(m)
  OBVIOUS
<1> PICK p : p = [m EXCEPT !.type = "COHE", !.req_type = c, !.nack_st = "NACK_NOK",
                           !.reply = "REPLY", !.node = o, !.forward_to = m.node]
  OBVIOUS
<1>7. /\ p.tag = l /\ p.node = o /\ p.forward_to = m.node /\ p.req_type = c
      /\ Owner(p) = Owner(m)
  BY <1>4, NullAssumption DEF Owner, REQ
<1> PICK e : e = [NewExtra(p, 1, {o}) EXCEPT !.next_req_type = c, !.nack_st = "NACK_NOK",
                                             !.ret_st = "ACK_REPLY"]
  OBVIOUS
<1>8. ~e.waiting /\ e.ret_st = "ACK_REPLY" /\ e.pend_req = p /\ e.WasHere = NULL
  BY DEF NewExtra
<1>9. e # NULL
  <2>1. c \in CoheTypes
    BY DEF CopybackType, CoheTypes
  <2>2. p \in REQ
    BY ONLY <1>4, <1>6, <2>1, p = [m EXCEPT !.type = "COHE", !.req_type = c,
            !.nack_st = "NACK_NOK", !.reply = "REPLY", !.node = o, !.forward_to = m.node] DEF REQ
  <2>3. e \in DirEP
    BY ONLY <1>6, <2>1, <2>2, ForwardExtra, e = [NewExtra(p, 1, {o}) EXCEPT
            !.next_req_type = c, !.nack_st = "NACK_NOK", !.ret_st = "ACK_REPLY"]
  <2> QED BY <2>3, ExtraAssumption
<1> PICK d : d = IF c = "COPYBACK" THEN "DIR_SHARED" ELSE "DIR_PRIVATE"
  OBVIOUS
<1> PICK v : v = IF c = "COPYBACK" THEN vector[l] \cup {m.node} ELSE {m.node}
  OBVIOUS
<1>10. /\ CommitReq /\ extra' = [extra EXCEPT ![l] = e]
       /\ dirst' = [dirst EXCEPT ![l] = d] /\ vector' = [vector EXCEPT ![l] = v]
       /\ UNCHANGED <<BufPend, OutboundReqs, inRep, outVars>> /\ req_partial' = l
  BY DEF DirReqForward, DirAdd_FM, DirRmAllAdd_FM, StartCohe
<1>11. /\ dirst'[l] = d /\ vector'[l] = v /\ extra'[l] = e
       /\ \A k \in Lines : k # l => SameBook(k)
  <2>1. req_partial' \in {req_partial, NULL, l}
    BY <1>10
  <2>2. /\ dirst' = [dirst EXCEPT ![l] = d] /\ vector' = [vector EXCEPT ![l] = v]
        /\ extra' = [extra EXCEPT ![l] = e]
    BY <1>10
  <2> QED BY ONLY <1>2, <1>3, <2>1, <2>2, LineWrites
<1>12. /\ Msgs(l)' = Msgs(l) \ {m}
       /\ \A k \in Lines : /\ k # l => Msgs(k)' = Msgs(k)
                           /\ Backs(k)' = Backs(k) /\ SameCaches(k)
  <2>1. CommitReq /\ UNCHANGED <<BufPend, OutboundReqs, inRep, outVars>>
    BY <1>7, <1>8, <1>10, <1>11
  <2>2. /\ e = extra'[l] /\ Owner(e.pend_req) = Owner(m)
        /\ e.ret_st = "ACK_REPLY" => req_partial' = l
    BY <1>7, <1>8, <1>10, <1>11
  <2>3. OwnerInv /\ AllOnes' /\ UNCHANGED l2Vars
    OBVIOUS
  <2> QED BY ONLY <1>2, <1>4, <1>9, <2>1, <2>2, <2>3, m = Request, l = m.tag, Started
<1>13. Agree(l)'
  <2>1. /\ e = extra'[l] /\ p = e.pend_req /\ req_partial' = l
        /\ dirst'[l] = IF c = "COPYBACK" THEN "DIR_SHARED" ELSE "DIR_PRIVATE"
        /\ vector'[l] = IF c = "COPYBACK" THEN vector[l] \cup {m.node} ELSE {m.node}
    BY <1>8, <1>10, <1>11
  <2> QED BY ONLY <1>2, <1>3, <1>5, <1>6, <1>7, <1>8, <1>9, <1>12, <2>1, c = CopybackType(m),
                  ForwardAgrees
<1> QED BY <1>2, <1>11, <1>12, <1>13, OnlyLine

LEMMA RequestAgrees ==
  ASSUME OwnerInv, AllOnes', DirReq, UNCHANGED l2Vars PROVE \A k \in Lines : Agree(k)'
<1>1. CASE DirReqError
  BY <1>1, ErrorAgrees DEF DirReqError
<1> QED BY <1>1, ReturnedAgrees, PendAgrees, GrantDone, WaitDone, InvalDone, ForwardDone
        DEF DirReq

(* The line whose COHEs are being sent.                                    *)
LEMMA SendFacts ==
  ASSUME OwnerInv, Sending, NEW l, l = req_partial
  PROVE  /\ l \in Lines /\ extra[l] # NULL /\ extra[l] \in DirEP /\ PendReq(l, extra[l])
         /\ InTransit(l) /\ Unsent(l) # {} /\ ~extra[l].waiting
         /\ Agree(l) /\ Ones(l)
<1>1. ProtocolInv /\ IInv /\ DirShapes /\ TransInv
  BY OwnerFacts
<1>2. l \in Lines
  <2>1. req_partial # NULL
    BY <1>1 DEF Sending, SendCohe, Offer, IInv, CtlInv, PickedThere
  <2> QED BY <1>1, <2>1 DEF IInv, CtlInv, CtlTypeOK
<1>3. extra[l] # NULL /\ extra[l] \in DirEP
  BY <1>1, <1>2, TableTypes DEF Sending
<1>4. PendReq(l, extra[l])
  BY <1>1, <1>2, <1>3 DEF DirShapes, Kept
<1>5. InTransit(l)
  BY <1>1, <1>2, <1>3 DEF TransInv, TransOK
<1>6. Unsent(l) # {}
  BY <1>5 DEF InTransit
<1>7. ~extra[l].waiting
  <2> SUFFICES ASSUME extra[l].waiting PROVE FALSE
    OBVIOUS
  <2>1. extra[l].counter = 1
    BY <1>1, <1>2, <1>3 DEF IInv, LineInv, CounterOK
  <2> PICK A : A = Asked(l)
    OBVIOUS
  <2>2. IsFiniteSet(A) /\ Cardinality(A) \in Nat
    BY <1>1, <1>2, <1>3, AskedFinite
  <2>3. extra[l].counter = Cardinality(A) + 1
    BY <1>5 DEF InTransit
  <2>4. Cardinality(A) = 0
    BY <2>1, <2>2, <2>3
  <2>5. A = {}
    BY <2>2, <2>4, FS_EmptySet
  <2> QED BY <1>6, <2>5 DEF Asked
<1>8. Agree(l) /\ Ones(l)
  BY <1>2, OwnerFacts DEF OwnerInv, AllOnes
<1> QED BY <1>2, <1>3, <1>4, <1>5, <1>6, <1>7, <1>8

LEMMA SendPosts ==
  ASSUME OwnerInv, AllOnes', NEW c \in REQ, AddReq(c), NEW l \in Lines, c.tag = l,
         UNCHANGED <<queueVars, inVars>>, UNCHANGED l2Vars
  PROVE  /\ Msgs(l)' = Msgs(l) \cup {c}
         /\ \A k \in Lines : /\ k # l => Msgs(k)' = Msgs(k)
                             /\ Backs(k)' = Backs(k) /\ SameCaches(k)
<1>1. UNCHANGED <<BufPend, ReadyReqs, OutboundReqs, inReq, inRep>>
  BY DEF queueVars, inVars
<1>2. Outs' = Outs \cup {c}
  BY <1>1, AddPosts, OwnerFacts
<1>3. Posts({}, {c})
  BY <1>1, <1>2, MailParts, PartsSame, DirAlone DEF Posts
<1> QED BY <1>1, <1>3, Put, DirAlone

LEMMA SendNothing ==
  ASSUME OwnerInv, AllOnes', UNCHANGED <<extra, outVars, req_partial, dirst, vector>>,
         UNCHANGED <<queueVars, inVars>>, UNCHANGED l2Vars
  PROVE  \A k \in Lines : Agree(k)'
<1>1. UNCHANGED <<BufPend, ReadyReqs, OutboundReqs, inReq, inRep>>
  BY DEF queueVars, inVars
<1>2. Mail' = Mail
  BY <1>1, MailParts, PartsSame, DirAlone
<1>3. \A k \in Lines : QuietLine(k)
  BY <1>1, SameBooks, DirAlone DEF QuietLine
<1> QED BY <1>2, <1>3, NothingPosted

LEMMA SendForwardDone ==
  ASSUME OwnerInv, AllOnes', DirSendForward, UNCHANGED l2Vars
  PROVE  \A k \in Lines : Agree(k)'
<1> PICK l : l = req_partial
  OBVIOUS
<1> PICK c : c = extra[l].pend_req
  OBVIOUS
<1>1. /\ l \in Lines /\ extra[l] # NULL /\ PendReq(l, extra[l]) /\ InTransit(l)
      /\ Agree(l) /\ Ones(l)
  BY SendFacts DEF DirSendForward
<1>2. ProtocolInv
  BY OwnerFacts
<1>3. c.type = "COHE" /\ UNCHANGED <<lineVars, queueVars, inVars>>
  BY DEF DirSendForward
<1>4. Forwarding(l) /\ Keeps(l) /\ c \in CoheMsg /\ c \in REQ /\ c.tag = l
  BY <1>1, <1>3, ShapesAreMessages DEF PendReq, PlainRequest, RequestMsg, Forwarding, Keeps
<1>5. c.forward_to # NULL
  BY <1>1, <1>4 DEF InTransit, Forwarding
<1>6. CASE Full(outCohe)
  BY <1>3, <1>6, SendNothing DEF DirSendForward, lineVars
<1>7. CASE ~Full(outCohe)
  <2>1. AddReq(c) /\ req_partial' = NULL
    BY <1>7 DEF DirSendForward
  <2>2. /\ Msgs(l)' = Msgs(l) \cup {c}
        /\ \A k \in Lines : /\ k # l => Msgs(k)' = Msgs(k)
                            /\ Backs(k)' = Backs(k) /\ SameCaches(k)
    BY <1>1, <1>3, <1>4, <2>1, SendPosts
  <2>3. \A k \in Lines : SameBook(k)
    BY <1>3, <2>1, SameBooks DEF lineVars
  <2>4. dirst' = dirst /\ vector' = vector /\ extra' = extra
    BY <1>3 DEF lineVars
  <2>5. Ones(l)'
    BY <1>1 DEF AllOnes
  <2>6. Agree(l)'
    BY <1>1, <1>2, <1>4, <1>5, <2>2, <2>4, <2>5, SendForwardAgrees
  <2> QED BY <1>1, <2>2, <2>3, <2>6, OnlyLine
<1> QED BY <1>6, <1>7

LEMMA SendInvalDone ==
  ASSUME OwnerInv, AllOnes', DirSendInval, UNCHANGED l2Vars
  PROVE  \A k \in Lines : Agree(k)'
<1> PICK l : l = req_partial
  OBVIOUS
<1> PICK e : e = extra[l]
  OBVIOUS
<1>1. /\ l \in Lines /\ e # NULL /\ e \in DirEP /\ PendReq(l, e) /\ ~e.waiting
      /\ Agree(l) /\ Ones(l)
  BY SendFacts DEF DirSendInval
<1>2. ProtocolInv
  BY OwnerFacts
<1>3. e.pend_req.type # "COHE" /\ UNCHANGED <<dirst, vector, queueVars, inVars>>
  BY DEF DirSendInval
<1>4. e.ret_st # "ACK_REPLY" /\ e.nack_st = "NACK_OK"
  BY <1>1, <1>3 DEF PendReq, CoheMsg, DirEP
<1>5. Invalidating(l)
  BY <1>1, <1>4 DEF Invalidating
<1>6. CASE Full(outCohe)
  <2>1. UNCHANGED <<extra, outVars, req_partial>>
    BY <1>6 DEF DirSendInval
  <2> QED BY <1>3, <2>1, SendNothing
<1>7. CASE ~Full(outCohe)
  <2> PICK n \in e.left : /\ AddReq(Invalidation(l, n))
                          /\ extra' = [extra EXCEPT ![l].left = @ \ {n}]
                          /\ req_partial' \in {NULL, req_partial}
    BY <1>7 DEF DirSendInval
  <2> PICK c : c = Invalidation(l, n)
    OBVIOUS
  <2>1. n \in Nodes
    BY <1>1 DEF DirEP
  <2>2. c \in CoheMsg /\ c \in REQ /\ c.tag = l
    BY <1>1, <1>4, <2>1, InvalidationShape, ShapesAreMessages DEF Invalidation
  <2>3. /\ c.node = n /\ c.type = "COHE" /\ c.req_type = e.next_req_type
        /\ c.forward_to = NULL /\ ~c.preprocessed /\ ~c.isreq
    BY DEF Invalidation
  <2>4. /\ Msgs(l)' = Msgs(l) \cup {c}
        /\ \A k \in Lines : /\ k # l => Msgs(k)' = Msgs(k)
                            /\ Backs(k)' = Backs(k) /\ SameCaches(k)
    BY <1>1, <1>3, <2>2, SendPosts
  <2> PICK f : f = [e EXCEPT !.left = @ \ {n}]
    OBVIOUS
  <2>5. /\ f.left = e.left \ {n} /\ f.pend_req = e.pend_req
        /\ f.next_req_type = e.next_req_type /\ f.ret_st = e.ret_st
        /\ f.waiting = e.waiting /\ f.WaitingFor = e.WaitingFor /\ f.WasHere = e.WasHere
    BY <1>1 DEF DirEP
  <2>6. f # NULL
    <3>1. f \in DirEP
      BY <1>1 DEF DirEP
    <3> QED BY <3>1, ExtraAssumption
  <2>7. /\ dirst'[l] = dirst[l] /\ vector'[l] = vector[l] /\ extra'[l] = f
        /\ \A k \in Lines : k # l => SameBook(k)
    <3>1. extra' = [extra EXCEPT ![l] = f]
      OBVIOUS
    <3>2. /\ dirst' = [dirst EXCEPT ![l] = dirst[l]]
          /\ vector' = [vector EXCEPT ![l] = vector[l]]
      BY <1>1, <1>2, <1>3, SameTable
    <3>3. req_partial' \in {req_partial, NULL, l}
      OBVIOUS
    <3> QED BY ONLY <1>1, <1>2, <3>1, <3>2, <3>3, LineWrites
  <2>8. Ones(l)'
    BY <1>1 DEF AllOnes
  <2>9. Agree(l)'
    <3>1. /\ n \in extra[l].left /\ e = extra[l] /\ f = extra'[l]
          /\ c.req_type = extra[l].next_req_type
      BY <2>3, <2>7
    <3> QED BY ONLY <1>1, <1>2, <1>5, <2>1, <2>3, <2>4, <2>5, <2>6, <2>7, <2>8, <3>1,
                    SendInvalAgrees
  <2> QED BY <1>1, <2>4, <2>7, <2>9, OnlyLine
<1> QED BY <1>6, <1>7

LEMMA SendAgrees ==
  ASSUME OwnerInv, AllOnes', DirSend, UNCHANGED l2Vars PROVE \A k \in Lines : Agree(k)'
<1>1. CASE DirSendCoheNull
  BY <1>1, ErrorAgrees DEF DirSendCoheNull
<1> QED BY <1>1, SendForwardDone, SendInvalDone DEF DirSend

(* The answers to COHEs.                                                   *)
LEMMA AnswerFacts ==
  ASSUME OwnerInv, ServeRep, NEW m, m = Answer, m.req_type \notin WrbTypes, NEW l, l = m.tag
  PROVE  /\ l \in Lines /\ m \in AnswerMsg /\ m \in REQ /\ m \in Mail /\ m \in Msgs(l)
         /\ IsCohe(m) /\ m.type = "COHE_REPLY" /\ Answering(l, m) /\ Agree(l) /\ Ones(l)
<1>1. ProtocolInv /\ RequestInv
  BY OwnerFacts
<1>2. m \in AnswerMsg /\ m \in REQ /\ m \in Range(inRep)
  BY <1>1, CommitRepPosts
<1>3. m \in Mail /\ l \in Lines
  BY <1>2, MailParts DEF REQ
<1>4. m \in Msgs(l)
  BY <1>3 DEF Msgs
<1>5. m.type = "COHE_REPLY" /\ IsCohe(m)
  BY <1>2 DEF AnswerMsg, CoheRepMsg, IsCohe
<1>6. Answering(l, m)
  BY <1>1, <1>2, <1>3, AnswerOf
<1>7. Agree(l) /\ Ones(l)
  BY <1>3, OwnerFacts DEF OwnerInv, AllOnes
<1> QED BY <1>2, <1>3, <1>4, <1>5, <1>6, <1>7

LEMMA AnswerBacks ==
  ASSUME OwnerInv, ServeRep, CommitRep, NEW m, m = Answer, m.req_type \notin WrbTypes,
         UNCHANGED l2Vars
  PROVE  \A k \in Lines : Backs(k)' = Backs(k) /\ SameCaches(k)
<1>1. m \in REQ /\ RequestInv
  BY OwnerFacts, CommitRepPosts
<1>2. coheReps' = coheReps
  BY DirAlone
<1> QED BY <1>1, <1>2, BacksLess, DirAlone

LEMMA AnswerGone ==
  ASSUME OwnerInv, AllOnes', ServeRep, CommitRep, NEW m, m = Answer, m.req_type \notin WrbTypes,
         UNCHANGED l2Vars, NEW l, l = m.tag,
         (\E r \in ReplyMsg : SendOrQueue(r)) \/ UNCHANGED <<OutboundReqs, outVars>>
  PROVE  m \notin Msgs(l)'
<1>1. /\ l \in Lines /\ m \in AnswerMsg /\ m \in REQ /\ IsCohe(m) /\ Answering(l, m)
      /\ RequestInv /\ ProtocolInv /\ SetsFinite
  BY AnswerFacts, OwnerFacts
<1> PICK n \in Nodes : n = m.node
  BY <1>1 DEF Answering
<1>2. \A S : S \cap ReplyMsg = {} => Flow(S)' = Flow(S) - One(m, S)
  BY <1>1, AnsweredFlow
<1> PICK A : A = Own(n, l)
  OBVIOUS
<1> PICK B : B = Fwd(n, l)
  OBVIOUS
<1>3. A \cap ReplyMsg = {} /\ B \cap ReplyMsg = {}
  BY DEF Own, Fwd, CoheAt, ReplyMsg
<1>4. Flow(A)' = Flow(A) - One(m, A) /\ Flow(B)' = Flow(B) - One(m, B)
  BY <1>2, <1>3
<1>5. One(m, A) + One(m, B) = 1
  BY <1>1, ColourOf DEF IsCohe
<1>6. Flow(A) + Flow(B) = 1
  BY <1>1 DEF Answering, Flight
<1>7. Flow(A) \in Nat /\ Flow(B) \in Nat /\ One(m, A) \in {0, 1} /\ One(m, B) \in {0, 1}
  BY <1>1, Sums, OneType
<1>8. Flow(A)' + Flow(B)' = 0
  BY <1>4, <1>5, <1>6, <1>7
<1>9. Flight(n, l)' = Flow(A)' + Flow(B)'
  BY DEF Flight, Own, Fwd
<1>10. ASSUME m \in Msgs(l)' PROVE FALSE
  <2>1. Flight(m.node, l)' = 1
    BY <1>1, <1>10 DEF AllOnes, Ones, OneCohe, IsCohe
  <2>2. Flight(n, l)' = 1
    BY <2>1
  <2> QED BY <1>8, <1>9, <2>2
<1> QED BY <1>10

LEMMA AnswersFacts ==
  ASSUME NEW c, Answers(c)
  PROVE  /\ ServeRep /\ CommitRep /\ Answer.req_type \notin WrbTypes
         /\ AnswerError(Answer) = "none" /\ AnswerClass(Answer) = c
         /\ UNCHANGED <<inReq, req_partial>>
  BY DEF Answers, CommitRep

LEMMA ResendDone ==
  ASSUME OwnerInv, AllOnes', DirNackPendResend, UNCHANGED l2Vars
  PROVE  \A k \in Lines : Agree(k)'
<1> PICK m : m = Answer
  OBVIOUS
<1>1. /\ ServeRep /\ CommitRep /\ m.req_type \notin WrbTypes /\ AnswerError(m) = "none"
      /\ AnswerClass(m) = "RESEND" /\ UNCHANGED <<inReq, req_partial>>
  BY AnswersFacts DEF DirNackPendResend
<1>2. m \in AnswerMsg /\ m \in REQ /\ m \in Mail /\ IsCohe(m) /\ m.tag \in Lines
  BY <1>1, AnswerFacts
<1>3. m.reply = "NACK_PEND"
  BY <1>1, <1>2, AnswerSays
<1> PICK r : r = [m EXCEPT !.type = "COHE"]
  OBVIOUS
<1>4. SendOrQueue(r) /\ UNCHANGED <<lineVars, BufPend, ReadyReqs>>
  BY DEF DirNackPendResend
<1>5. r \in CoheMsg /\ r \in REQ
  BY <1>2, <1>3, RefusedCohe, ShapesAreMessages
<1>6. /\ r.node = m.node /\ r.req_type = m.req_type /\ r.isreq = m.isreq
      /\ r.forward_to = m.forward_to /\ r.tag = m.tag /\ r.type = "COHE"
  BY <1>2 DEF REQ
<1>7. Means(m, r)
  BY <1>1, <1>2, <1>3, <1>5, <1>6 DEF Means, IsCohe, CoheMsg, AnswerMsg
<1>8. Range(inRep)' \cup {m} = Range(inRep) /\ Outs' = Outs \cup {r}
  BY <1>1, <1>4, <1>5, OwnerFacts, CommitRepPosts, AddPosts
<1>9. Posts({m}, {r})
  BY <1>1, <1>4, <1>8, MailParts, PartsSame, DirAlone DEF Posts
<1>10. \A k \in Lines : QuietLine(k)
  BY <1>1, <1>4, SameBooks, AnswerBacks DEF QuietLine, lineVars
<1> QED BY <1>2, <1>7, <1>9, <1>10, PassedOn

(* An answer that ends the transaction of its line.                        *)
LEMMA SettledLine ==
  ASSUME OwnerInv, NEW l \in Lines, Settle(l), UNCHANGED <<req_partial>>,
         NEW d, NEW v, dirst' = [dirst EXCEPT ![l] = d], vector' = [vector EXCEPT ![l] = v]
  PROVE  /\ dirst'[l] = d /\ vector'[l] = v /\ extra'[l] = NULL
         /\ \A k \in Lines : k # l => SameBook(k)
<1>1. ProtocolInv
  BY OwnerFacts
<1>2. extra' = [extra EXCEPT ![l] = NULL]
  BY DEF Settle
<1>3. req_partial' \in {req_partial, NULL, l}
  OBVIOUS
<1> QED BY <1>1, <1>2, <1>3, LineWrites

LEMMA RaceDone ==
  ASSUME OwnerInv, AllOnes', DirNackRace, UNCHANGED l2Vars
  PROVE  \A k \in Lines : Agree(k)'
<1> PICK m : m = Answer
  OBVIOUS
<1> PICK l : l = m.tag
  OBVIOUS
<1>1. /\ ServeRep /\ CommitRep /\ m.req_type \notin WrbTypes /\ AnswerError(m) = "none"
      /\ AnswerClass(m) = "RACE" /\ UNCHANGED <<inReq, req_partial>>
  BY AnswersFacts DEF DirNackRace
<1>2. /\ l \in Lines /\ m \in AnswerMsg /\ m \in REQ /\ m \in Mail /\ m \in Msgs(l) /\ IsCohe(m)
      /\ m.type = "COHE_REPLY" /\ Agree(l) /\ Ones(l)
  BY <1>1, AnswerFacts
<1>3. ProtocolInv
  BY OwnerFacts
<1>4. m.reply = "NACK" /\ m.isreq /\ m.forward_to # NULL /\ m.forward_to \in Nodes
  BY <1>1, <1>2, AnswerSays DEF AnswerMsg, REQ
<1>5. extra[l].WasHere # m.node
  BY <1>1, <1>4 DEF AnswerClass, WasHere
<1> PICK r : r = [m EXCEPT !.type = "REPLY", !.reply = "RAR",
                           !.req_type = FixForwardRARs(m.req_type),
                           !.nack_st = "NACK_OK",
                           !.node = m.forward_to, !.forward_to = NULL]
  OBVIOUS
<1>6. /\ dirst' = [dirst EXCEPT ![l] = "DIR_PRIVATE"] /\ vector' = [vector EXCEPT ![l] = {m.node}]
      /\ Settle(l) /\ DirCheckBuf(l, <<>>) /\ SendOrQueue(r)
  BY <1>4 DEF DirNackRace, DirRmAllAdd_FM
<1>7. r \in ReplyMsg /\ r \in REQ /\ r \in Kinds
  BY <1>2, <1>4, RefusedCohe, ShapesAreMessages DEF Kinds
<1>8. /\ r.node = m.forward_to /\ r.tag = l /\ r.type = "REPLY" /\ r.reply = "RAR"
      /\ r.req_type = FixForwardRARs(m.req_type) /\ ~r.preprocessed
  BY <1>2 DEF REQ, AnswerMsg, CoheRepMsg
<1>9. IsPlain(r) /\ SameKind(m, r)
  BY <1>4, <1>7, <1>8 DEF IsPlain, ReplyMsg, SameKind, Owner
<1>10. Posts({m}, {r})
  <2>1. Range(inRep)' \cup {m} = Range(inRep) /\ Outs' = Outs \cup {r}
    BY <1>1, <1>3, <1>6, <1>7, CommitRepPosts, AddPosts
  <2>2. <<>> \in Seq(REQ) /\ Range(<<>>) = {}
    BY Ranges
  <2>3. Ins' \cup Waiting' = Ins \cup Waiting
    BY <1>1, <1>2, <1>3, <1>6, <2>2, RevivePosts
  <2> QED BY <2>1, <2>3, MailParts, DirAlone DEF Posts
<1>11. /\ Msgs(l)' = (Msgs(l) \ {m}) \cup {r}
       /\ \A k \in Lines : k # l => Msgs(k)' = Msgs(k)
  BY <1>2, <1>8, <1>9, <1>10, Rewritten
<1>12. \A k \in Lines : Backs(k)' = Backs(k) /\ SameCaches(k)
  BY <1>1, AnswerBacks
<1>13. /\ dirst'[l] = "DIR_PRIVATE" /\ vector'[l] = {m.node} /\ extra'[l] = NULL
       /\ \A k \in Lines : k # l => SameBook(k)
  BY <1>1, <1>2, <1>6, SettledLine
<1>14. Agree(l)'
  BY <1>2, <1>3, <1>4, <1>5, <1>8, <1>9, <1>11, <1>12, <1>13, RaceAgrees
<1> QED BY <1>2, <1>11, <1>12, <1>13, <1>14, OnlyLine

LEMMA RetryDone ==
  ASSUME OwnerInv, AllOnes', DirNackRetry, UNCHANGED l2Vars
  PROVE  \A k \in Lines : Agree(k)'
<1> PICK m : m = Answer
  OBVIOUS
<1> PICK l : l = m.tag
  OBVIOUS
<1>1. /\ ServeRep /\ CommitRep /\ m.req_type \notin WrbTypes /\ AnswerError(m) = "none"
      /\ AnswerClass(m) = "RETRY" /\ UNCHANGED <<inReq, req_partial>>
  BY AnswersFacts DEF DirNackRetry
<1>2. /\ l \in Lines /\ m \in AnswerMsg /\ m \in REQ /\ m \in Mail /\ m \in Msgs(l) /\ IsCohe(m)
      /\ m.type = "COHE_REPLY" /\ Agree(l) /\ Ones(l)
  BY <1>1, AnswerFacts
<1>3. ProtocolInv
  BY OwnerFacts
<1>4. m.reply # "REPLY" /\ m.isreq /\ m.forward_to # NULL /\ m.forward_to \in Nodes
  BY <1>1, <1>2, AnswerSays DEF AnswerMsg, REQ
<1>5. extra[l].WasHere = m.node
  BY <1>1 DEF AnswerClass, WasHere
<1> PICK r : r = [m EXCEPT !.type = "REQUEST", !.reply = "REPLY",
                           !.req_type = FixForwardRARs(m.req_type),
                           !.nack_st = "NACK_OK",
                           !.node = m.forward_to, !.forward_to = NULL]
  OBVIOUS
<1>6. /\ Settle(l) /\ DirCheckBuf(l, <<r>>)
      /\ UNCHANGED <<dirst, vector, OutboundReqs, outVars>>
  BY DEF DirNackRetry
<1>7. r \in PlainRequest /\ r \in REQ
  BY <1>2, <1>4, RefusedCohe, ShapesAreMessages
<1>8. /\ r.node = m.forward_to /\ r.tag = l /\ r.type = "REQUEST"
      /\ r.req_type = FixForwardRARs(m.req_type) /\ ~r.preprocessed
  BY <1>2 DEF REQ, AnswerMsg, CoheRepMsg
<1>9. IsPlain(r) /\ SameKind(m, r)
  BY <1>4, <1>7, <1>8 DEF IsPlain, PlainRequest, RequestMsg, SameKind, Owner
<1>10. Posts({m}, {r})
  <2>1. Range(inRep)' \cup {m} = Range(inRep) /\ Outs' = Outs
    BY <1>1, <1>3, <1>6, CommitRepPosts, PartsSame
  <2>2. <<r>> \in Seq(REQ) /\ Range(<<r>>) = {r}
    <3>1. r \in REQ
      BY <1>7
    <3>2. Range(<<r>>) = {r}
      BY ONLY <3>1, EmptySeq, PutRange
    <3> QED BY ONLY <3>1, <3>2
  <2> PICK q : q = <<r>>
    OBVIOUS
  <2>3. Ins' \cup Waiting' = Ins \cup Waiting \cup Range(q)
    BY <1>1, <1>2, <1>3, <1>6, <2>2, RevivePosts
  <2> QED BY <2>1, <2>2, <2>3, MailParts, DirAlone DEF Posts
<1>11. /\ Msgs(l)' = (Msgs(l) \ {m}) \cup {r}
       /\ \A k \in Lines : k # l => Msgs(k)' = Msgs(k)
  BY <1>2, <1>8, <1>9, <1>10, Rewritten
<1>12. \A k \in Lines : Backs(k)' = Backs(k) /\ SameCaches(k)
  BY <1>1, AnswerBacks
<1>13. /\ dirst'[l] = dirst[l] /\ vector'[l] = vector[l] /\ extra'[l] = NULL
       /\ \A k \in Lines : k # l => SameBook(k)
  <2>1. /\ dirst' = [dirst EXCEPT ![l] = dirst[l]] /\ vector' = [vector EXCEPT ![l] = vector[l]]
    BY <1>2, <1>3, <1>6, SameTable
  <2>2. OwnerInv /\ Settle(l) /\ UNCHANGED <<req_partial>>
    BY <1>1, <1>6
  <2> QED BY ONLY <1>2, <2>1, <2>2, SettledLine
<1>14. Agree(l)'
  BY <1>2, <1>3, <1>4, <1>5, <1>8, <1>9, <1>11, <1>12, <1>13, RetryAgrees
<1> QED BY <1>2, <1>11, <1>12, <1>13, <1>14, OnlyLine

LEMMA AckDone ==
  ASSUME OwnerInv, AllOnes', DirAck, UNCHANGED l2Vars
  PROVE  \A k \in Lines : Agree(k)'
<1> PICK m : m = Answer
  OBVIOUS
<1> PICK l : l = m.tag
  OBVIOUS
<1>1. /\ ServeRep /\ CommitRep /\ m.req_type \notin WrbTypes /\ UNCHANGED <<inReq, req_partial>>
  BY AnswersFacts DEF DirAck
<1>2. /\ l \in Lines /\ m \in AnswerMsg /\ m \in REQ /\ m \in Mail /\ m \in Msgs(l) /\ IsCohe(m)
      /\ m.type = "COHE_REPLY" /\ Agree(l) /\ Ones(l) /\ Answering(l, m)
  BY <1>1, AnswerFacts
<1>3. ProtocolInv
  BY OwnerFacts
<1>4. /\ extra[l].counter # 1 /\ extra' = [extra EXCEPT ![l].counter = @ - 1]
      /\ UNCHANGED <<dirst, vector, queueVars, outVars>>
  BY DEF DirAck
<1>5. UNCHANGED <<BufPend, ReadyReqs, OutboundReqs, outVars>>
  BY <1>4 DEF queueVars
<1>6. Posts({m}, {})
  <2>1. Range(inRep)' \cup {m} = Range(inRep)
    BY <1>1, <1>3, CommitRepPosts
  <2> QED BY <1>1, <1>5, <2>1, MailParts, PartsSame, DirAlone DEF Posts
<1>7. m \notin Msgs(l)'
  BY <1>1, <1>5, AnswerGone
<1>8. /\ Msgs(l)' = Msgs(l) \ {m}
      /\ \A k \in Lines : k # l => Msgs(k)' = Msgs(k)
  BY <1>2, <1>6, <1>7, Taken
<1>9. \A k \in Lines : Backs(k)' = Backs(k) /\ SameCaches(k)
  BY <1>1, AnswerBacks
<1> PICK e : e = extra[l]
  OBVIOUS
<1> PICK f : f = [e EXCEPT !.counter = @ - 1]
  OBVIOUS
<1>10. /\ dirst'[l] = dirst[l] /\ vector'[l] = vector[l] /\ extra'[l] = f
       /\ \A k \in Lines : k # l => SameBook(k)
  <2>1. /\ dirst' = [dirst EXCEPT ![l] = dirst[l]] /\ vector' = [vector EXCEPT ![l] = vector[l]]
    BY <1>2, <1>3, <1>4, SameTable
  <2>2. extra' = [extra EXCEPT ![l] = f] /\ req_partial' \in {req_partial, NULL, l}
    BY <1>1, <1>4
  <2> QED BY ONLY <1>2, <1>3, <2>1, <2>2, LineWrites
<1>11. SameBook(l)
  <2>1. e # NULL /\ e \in DirEP /\ e.counter >= 1
    BY <1>2, <1>3, TableTypes DEF Answering, ProtocolInv, IInv, LineInv, CounterOK
  <2>2. f \in DirEP
    BY <2>1 DEF DirEP
  <2>3. f # NULL
    BY <2>2, ExtraAssumption
  <2>4. /\ f.pend_req = e.pend_req /\ f.left = e.left /\ f.next_req_type = e.next_req_type
        /\ f.ret_st = e.ret_st /\ f.waiting = e.waiting /\ f.WaitingFor = e.WaitingFor
        /\ f.WasHere = e.WasHere
    BY <2>1 DEF DirEP
  <2>5. SameTrans(l)
    BY <1>10, <2>1, <2>3, <2>4 DEF SameTrans
  <2> QED BY <1>1, <1>10, <2>5 DEF SameBook
<1>12. InTransit(l) /\ Ones(l)'
  BY <1>2 DEF Answering, AllOnes
<1>13. Agree(l)'
  BY <1>2, <1>3, <1>4, <1>8, <1>9, <1>11, <1>12, AckAgrees
<1> QED BY <1>2, <1>8, <1>9, <1>10, <1>13, OnlyLine

LEMMA AckReplyDone ==
  ASSUME OwnerInv, AllOnes', DirAckReply, UNCHANGED l2Vars
  PROVE  \A k \in Lines : Agree(k)'
<1> PICK m : m = Answer
  OBVIOUS
<1> PICK l : l = m.tag
  OBVIOUS
<1> PICK e : e = extra[l]
  OBVIOUS
<1>1. /\ ServeRep /\ CommitRep /\ m.req_type \notin WrbTypes /\ UNCHANGED <<inReq, req_partial>>
  BY AnswersFacts DEF DirAckReply
<1>2. /\ l \in Lines /\ m \in AnswerMsg /\ m \in REQ /\ m \in Mail /\ m \in Msgs(l) /\ IsCohe(m)
      /\ m.type = "COHE_REPLY" /\ Agree(l) /\ Ones(l) /\ Answering(l, m)
  BY <1>1, AnswerFacts
<1>3. ProtocolInv /\ SetsFinite
  BY OwnerFacts
<1> PICK p : p = e.pend_req
  OBVIOUS
<1> PICK r : r = [p EXCEPT !.type = "REPLY", !.reply = "REPLY"]
  OBVIOUS
<1>4. /\ e.counter = 1 /\ e.ret_st # "ACK_REPLY" /\ Settle(l) /\ DirCheckBuf(l, <<>>)
      /\ SendOrQueue(r) /\ UNCHANGED <<dirst, vector>>
  BY DEF DirAckReply
<1>5. p \in PlainRequest /\ p \in RequestMsg /\ p \in REQ /\ p.tag = l
  BY <1>2, <1>4, ShapesAreMessages DEF Answering, PendReq
<1>6. r \in ReplyMsg /\ r \in REQ /\ r \in Kinds
  BY <1>5, AnsweredRequest, ShapesAreMessages DEF Kinds, ReqTypes
<1>7. r.node = p.node /\ r.req_type = p.req_type /\ ~r.preprocessed /\ r.tag = l /\ ~p.preprocessed
  BY <1>5 DEF REQ, PlainRequest
<1>8. IsPlain(p) /\ IsPlain(r)
  BY <1>5, <1>6 DEF IsPlain, RequestMsg, ReplyMsg
<1>9. Posts({m}, {r})
  <2>1. Range(inRep)' \cup {m} = Range(inRep) /\ Outs' = Outs \cup {r}
    BY <1>1, <1>3, <1>4, <1>6, CommitRepPosts, AddPosts
  <2>2. <<>> \in Seq(REQ) /\ Range(<<>>) = {}
    BY Ranges
  <2>3. Ins' \cup Waiting' = Ins \cup Waiting
    BY <1>1, <1>2, <1>3, <1>4, <2>2, RevivePosts
  <2> QED BY <2>1, <2>3, MailParts, DirAlone DEF Posts
<1>10. m \notin Msgs(l)'
  BY <1>1, <1>4, <1>6, AnswerGone
<1>11. /\ Msgs(l)' = (Msgs(l) \ {m}) \cup {r}
       /\ \A k \in Lines : k # l => Msgs(k)' = Msgs(k)
  <2> PICK old : old = {m}
    OBVIOUS
  <2> PICK new : new = {r}
    OBVIOUS
  <2>1. Posts(old, new) /\ \A x \in old \cup new : x.tag = l
    BY <1>7, <1>9
  <2>2. old \cap Msgs(l)' \subseteq new
    BY <1>10
  <2>3. Msgs(l)' = (Msgs(l) \ old) \cup new
    BY ONLY <1>2, <2>1, <2>2, LineTurns
  <2>4. ASSUME NEW k \in Lines, k # l PROVE Msgs(k)' = Msgs(k)
    <3>1. \A x \in old \cup new : x.tag # k
      BY <2>1, <2>4
    <3> QED BY ONLY <2>1, <3>1, k \in Lines, LineTurns
  <2> QED BY <2>3, <2>4
<1>12. \A k \in Lines : Backs(k)' = Backs(k) /\ SameCaches(k)
  BY <1>1, AnswerBacks
<1>13. /\ dirst'[l] = dirst[l] /\ vector'[l] = vector[l] /\ extra'[l] = NULL
       /\ \A k \in Lines : k # l => SameBook(k)
  <2>1. /\ dirst' = [dirst EXCEPT ![l] = dirst[l]] /\ vector' = [vector EXCEPT ![l] = vector[l]]
    BY <1>2, <1>3, <1>4, SameTable
  <2>2. OwnerInv /\ Settle(l) /\ UNCHANGED <<req_partial>>
    BY <1>1, <1>4
  <2> QED BY ONLY <1>2, <2>1, <2>2, SettledLine
<1>14. e.left = {} /\ \A n \in Nodes : n # m.node => Flight(n, l) = 0
  BY <1>2, <1>3, <1>4, LastAnswer DEF Unsent
<1>15. Agree(l)'
  <2>1. /\ ~Forwarding(l) /\ extra[l].left = {} /\ p = extra[l].pend_req
    BY <1>4, <1>14 DEF Forwarding
  <2> QED BY <1>2, <1>3, <1>6, <1>7, <1>8, <1>11, <1>12, <1>13, <1>14, <2>1, AckReplyAgrees
<1> QED BY <1>2, <1>11, <1>12, <1>13, <1>15, OnlyLine

LEMMA AckForwardDone ==
  ASSUME OwnerInv, AllOnes', DirAckForward, UNCHANGED l2Vars
  PROVE  \A k \in Lines : Agree(k)'
<1> PICK m : m = Answer
  OBVIOUS
<1> PICK l : l = m.tag
  OBVIOUS
<1>1. /\ ServeRep /\ CommitRep /\ m.req_type \notin WrbTypes /\ UNCHANGED <<inReq, req_partial>>
      /\ AnswerError(m) = "none" /\ AnswerClass(m) = "ACK"
  BY AnswersFacts DEF DirAckForward
<1>2. /\ l \in Lines /\ m \in AnswerMsg /\ m \in REQ /\ m \in Mail /\ m \in Msgs(l) /\ IsCohe(m)
      /\ m.type = "COHE_REPLY" /\ Agree(l) /\ Ones(l) /\ Answering(l, m)
  BY <1>1, AnswerFacts
<1>3. ProtocolInv
  BY OwnerFacts
<1>4. /\ extra[l].counter = 1 /\ extra[l].ret_st = "ACK_REPLY" /\ Settle(l) /\ DirCheckBuf(l, <<>>)
      /\ UNCHANGED <<dirst, vector, OutboundReqs, outVars>>
  BY DEF DirAckForward
<1>5. m.forward_to # NULL
  BY <1>2, <1>4 DEF Answering
<1>6. ~m.isreq
  BY <1>1, <1>2, <1>4, <1>5 DEF AnswerError, Answering
<1>7. Posts({m}, {})
  <2>1. Range(inRep)' \cup {m} = Range(inRep) /\ Outs' = Outs
    BY <1>1, <1>3, <1>4, CommitRepPosts, PartsSame
  <2>2. <<>> \in Seq(REQ) /\ Range(<<>>) = {}
    BY Ranges
  <2>3. Ins' \cup Waiting' = Ins \cup Waiting
    BY <1>1, <1>2, <1>3, <1>4, <2>2, RevivePosts
  <2> QED BY <2>1, <2>3, MailParts, DirAlone DEF Posts
<1>8. m \notin Msgs(l)'
  BY <1>1, <1>4, AnswerGone
<1>9. /\ Msgs(l)' = Msgs(l) \ {m}
      /\ \A k \in Lines : k # l => Msgs(k)' = Msgs(k)
  BY <1>2, <1>7, <1>8, Taken
<1>10. \A k \in Lines : Backs(k)' = Backs(k) /\ SameCaches(k)
  BY <1>1, AnswerBacks
<1>11. /\ dirst'[l] = dirst[l] /\ vector'[l] = vector[l] /\ extra'[l] = NULL
       /\ \A k \in Lines : k # l => SameBook(k)
  <2>1. /\ dirst' = [dirst EXCEPT ![l] = dirst[l]] /\ vector' = [vector EXCEPT ![l] = vector[l]]
    BY <1>2, <1>3, <1>4, SameTable
  <2>2. OwnerInv /\ Settle(l) /\ UNCHANGED <<req_partial>>
    BY <1>1, <1>4
  <2> QED BY ONLY <1>2, <2>1, <2>2, SettledLine
<1>12. Agree(l)'
  BY <1>2, <1>3, <1>5, <1>6, <1>9, <1>10, <1>11, AckForwardAgrees
<1> QED BY <1>2, <1>9, <1>10, <1>11, <1>12, OnlyLine

LEMMA CoheRepAgrees ==
  ASSUME OwnerInv, AllOnes', DirCoheRep, UNCHANGED l2Vars PROVE \A k \in Lines : Agree(k)'
<1>1. CASE DirCoheRepError
  BY <1>1, ErrorAgrees DEF DirCoheRepError
<1> QED BY <1>1, RaceDone, RetryDone, ResendDone, AckDone, AckReplyDone, AckForwardDone
        DEF DirCoheRep

(* The write-backs.                                                        *)
LEMMA BackFacts ==
  ASSUME OwnerInv, AllOnes', WriteBack, UNCHANGED l2Vars, NEW m, m = Answer, NEW l, l = m.tag
  PROVE  /\ l \in Lines /\ m \in REQ /\ m.node \in Nodes /\ m \in Msgs(l) /\ m.req_type \in WrbTypes
         /\ Agree(l) /\ Ones(l) /\ Ones(l)'
         /\ Range(inRep)' \cup {m} = Range(inRep)
         /\ UNCHANGED <<inReq, OutboundReqs, outVars, req_partial>>
         /\ m \notin Msgs(l)' /\ Backs(l)' = Backs(l) - 1
         /\ \A k \in Lines : (k # l => Backs(k)' = Backs(k)) /\ SameCaches(k)
<1>1. /\ ServeRep /\ CommitRep /\ m.req_type \in WrbTypes
      /\ UNCHANGED <<inReq, OutboundReqs, outVars, req_partial>>
  BY DEF WriteBack, CommitRep
<1>2. ProtocolInv /\ RequestInv
  BY OwnerFacts
<1>3. /\ m \in REQ /\ m \in Range(inRep) /\ Range(inRep)' \cup {m} = Range(inRep)
  BY <1>1, <1>2, CommitRepPosts
<1>4. m \in Mail /\ l \in Lines /\ m.node \in Nodes
  BY <1>3, MailParts DEF REQ
<1>5. m \in Msgs(l)
  BY <1>4 DEF Msgs
<1>6. Agree(l) /\ Ones(l) /\ Ones(l)'
  BY <1>4, OwnerFacts DEF OwnerInv, AllOnes
<1>7. coheReps' = coheReps
  BY DirAlone
<1>8. /\ Backs(l)' = Backs(l) - 1
      /\ \A k \in Lines : (k # l => Backs(k)' = Backs(k)) /\ SameCaches(k)
  BY <1>1, <1>2, <1>3, <1>4, <1>7, BacksLess, DirAlone
<1>9. Backs(l) = 1
  BY <1>1, <1>2, <1>4, <1>5, <1>6, BackFrom
<1>10. m \notin Msgs(l)'
  BY <1>1, <1>6, <1>8, <1>9 DEF Ones, OneBack
<1> QED BY <1>1, <1>3, <1>4, <1>5, <1>6, <1>8, <1>10

LEMMA ReviveDone ==
  ASSUME OwnerInv, AllOnes', DirWrbRevive, UNCHANGED l2Vars
  PROVE  \A k \in Lines : Agree(k)'
<1> PICK m : m = Answer
  OBVIOUS
<1> PICK l : l = m.tag
  OBVIOUS
<1> PICK p : p = extra[l].pend_req
  OBVIOUS
<1>1. WriteBack /\ Expected(m) /\ Settle(l) /\ DirCheckBuf(l, <<p>>) /\ Uncache(l)
  BY DEF DirWrbRevive
<1>2. /\ l \in Lines /\ m \in REQ /\ m \in Msgs(l) /\ m.req_type \in WrbTypes
      /\ Agree(l) /\ Ones(l) /\ Ones(l)'
      /\ Range(inRep)' \cup {m} = Range(inRep)
      /\ UNCHANGED <<inReq, OutboundReqs, outVars, req_partial>>
      /\ m \notin Msgs(l)' /\ Backs(l)' = Backs(l) - 1
      /\ \A k \in Lines : (k # l => Backs(k)' = Backs(k)) /\ SameCaches(k)
  BY <1>1, BackFacts
<1>3. ProtocolInv /\ DirShapes
  BY OwnerFacts
<1>4. extra[l] # NULL /\ extra[l].waiting
  BY <1>1 DEF Expected
<1>5. p \in PlainRequest /\ p \in REQ /\ p.tag = l
  BY <1>2, <1>3, <1>4, ShapesAreMessages DEF DirShapes, Kept, PendReq
<1>6. Posts({m}, {p})
  <2>1. Outs' = Outs
    BY <1>2, PartsSame
  <2>2. <<p>> \in Seq(REQ) /\ Range(<<p>>) = {p}
    <3>1. Range(<<p>>) = {p}
      BY ONLY <1>5, EmptySeq, PutRange
    <3> QED BY ONLY <1>5, <3>1
  <2> PICK q : q = <<p>>
    OBVIOUS
  <2>3. Ins' \cup Waiting' = Ins \cup Waiting \cup Range(q)
    BY <1>1, <1>2, <1>3, <2>2, RevivePosts
  <2> QED BY <1>2, <2>1, <2>2, <2>3, MailParts, DirAlone DEF Posts
<1>7. /\ Msgs(l)' = (Msgs(l) \ {m}) \cup {p}
      /\ \A k \in Lines : k # l => Msgs(k)' = Msgs(k)
  <2> PICK old : old = {m}
    OBVIOUS
  <2> PICK new : new = {p}
    OBVIOUS
  <2>1. Posts(old, new) /\ \A x \in old \cup new : x.tag = l
    BY <1>5, <1>6
  <2>2. old \cap Msgs(l)' \subseteq new
    BY <1>2
  <2>3. Msgs(l)' = (Msgs(l) \ old) \cup new
    BY ONLY <1>2, <2>1, <2>2, LineTurns
  <2>4. ASSUME NEW k \in Lines, k # l PROVE Msgs(k)' = Msgs(k)
    <3>1. \A x \in old \cup new : x.tag # k
      BY <2>1, <2>4
    <3> QED BY ONLY <2>1, <3>1, k \in Lines, LineTurns
  <2> QED BY <2>3, <2>4
<1>8. /\ dirst'[l] = "UNCACHED" /\ vector'[l] = {} /\ extra'[l] = NULL
      /\ \A k \in Lines : k # l => SameBook(k)
  <2>1. /\ dirst' = [dirst EXCEPT ![l] = "UNCACHED"] /\ vector' = [vector EXCEPT ![l] = {}]
        /\ OwnerInv /\ Settle(l) /\ UNCHANGED <<req_partial>>
    BY <1>1, <1>2 DEF Uncache
  <2> QED BY ONLY <1>2, <2>1, SettledLine
<1>9. Agree(l)'
  BY <1>2, <1>3, <1>4, <1>5, <1>7, <1>8, BackRevives
<1> QED BY <1>2, <1>7, <1>8, <1>9, OnlyLine

LEMMA WasHereDone ==
  ASSUME OwnerInv, AllOnes', DirWrbWasHere, UNCHANGED l2Vars
  PROVE  \A k \in Lines : Agree(k)'
<1> PICK m : m = Answer
  OBVIOUS
<1> PICK l : l = m.tag
  OBVIOUS
<1> PICK e : e = extra[l]
  OBVIOUS
<1>1. /\ WriteBack /\ e # NULL /\ ~Expected(m) /\ Uncache(l)
      /\ extra' = [extra EXCEPT ![l].WasHere = m.node] /\ UNCHANGED <<BufPend, ReadyReqs>>
  BY DEF DirWrbWasHere
<1>2. /\ l \in Lines /\ m \in REQ /\ m.node \in Nodes /\ m \in Msgs(l) /\ m.req_type \in WrbTypes
      /\ Agree(l) /\ Ones(l) /\ Ones(l)'
      /\ Range(inRep)' \cup {m} = Range(inRep)
      /\ UNCHANGED <<inReq, OutboundReqs, outVars, req_partial>>
      /\ m \notin Msgs(l)' /\ Backs(l)' = Backs(l) - 1
      /\ \A k \in Lines : (k # l => Backs(k)' = Backs(k)) /\ SameCaches(k)
  BY <1>1, BackFacts
<1>3. ProtocolInv
  BY OwnerFacts
<1>4. ~e.waiting
  BY <1>1 DEF Expected
<1>5. e \in DirEP
  BY <1>1, <1>2, <1>3, TableTypes
<1>6. Posts({m}, {})
  BY <1>1, <1>2, MailParts, PartsSame, DirAlone DEF Posts
<1>7. /\ Msgs(l)' = Msgs(l) \ {m}
      /\ \A k \in Lines : k # l => Msgs(k)' = Msgs(k)
  BY <1>2, <1>6, Taken
<1> PICK f : f = [e EXCEPT !.WasHere = m.node]
  OBVIOUS
<1>8. /\ f.pend_req = e.pend_req /\ f.left = e.left
      /\ f.next_req_type = e.next_req_type /\ f.ret_st = e.ret_st /\ f.waiting = e.waiting
      /\ f.WasHere = m.node
  BY <1>5 DEF DirEP
<1>9. f # NULL
  <2>1. f \in DirEP
    BY <1>2, <1>5 DEF DirEP
  <2> QED BY <2>1, ExtraAssumption
<1>10. /\ dirst'[l] = "UNCACHED" /\ vector'[l] = {} /\ extra'[l] = f
       /\ \A k \in Lines : k # l => SameBook(k)
  <2>1. /\ dirst' = [dirst EXCEPT ![l] = "UNCACHED"] /\ vector' = [vector EXCEPT ![l] = {}]
        /\ extra' = [extra EXCEPT ![l] = f] /\ req_partial' \in {req_partial, NULL, l}
    BY <1>1, <1>2 DEF Uncache
  <2> QED BY ONLY <1>2, <1>3, <2>1, LineWrites
<1>11. Agree(l)'
  <2>1. e = extra[l] /\ f = extra'[l] /\ req_partial' = req_partial
    BY <1>2, <1>10
  <2> QED BY ONLY <1>1, <1>2, <1>3, <1>4, <1>7, <1>8, <1>9, <1>10, <2>1, BackNoted
<1> QED BY <1>2, <1>7, <1>10, <1>11, OnlyLine

LEMMA PlainDone ==
  ASSUME OwnerInv, AllOnes', DirWrbPlain, UNCHANGED l2Vars
  PROVE  \A k \in Lines : Agree(k)'
<1> PICK m : m = Answer
  OBVIOUS
<1> PICK l : l = m.tag
  OBVIOUS
<1>1. WriteBack /\ extra[l] = NULL /\ DirCheckBuf(l, <<>>) /\ UNCHANGED extra
  BY DEF DirWrbPlain
<1>2. /\ l \in Lines /\ m \in REQ /\ m \in Msgs(l) /\ m.req_type \in WrbTypes
      /\ Agree(l) /\ Ones(l) /\ Ones(l)'
      /\ Range(inRep)' \cup {m} = Range(inRep)
      /\ UNCHANGED <<inReq, OutboundReqs, outVars, req_partial>>
      /\ m \notin Msgs(l)' /\ Backs(l)' = Backs(l) - 1
      /\ \A k \in Lines : (k # l => Backs(k)' = Backs(k)) /\ SameCaches(k)
  BY <1>1, BackFacts
<1>3. ProtocolInv
  BY OwnerFacts
<1>4. ~pend[l]
  BY <1>1, <1>2, <1>3, TableTypes DEF PendIffExtra
<1>5. Uncache(l)
  BY <1>4 DEF DirWrbPlain
<1>6. Posts({m}, {})
  <2>1. Outs' = Outs
    BY <1>2, PartsSame
  <2>2. <<>> \in Seq(REQ) /\ Range(<<>>) = {}
    BY Ranges
  <2>3. Ins' \cup Waiting' = Ins \cup Waiting
    BY <1>1, <1>2, <1>3, <2>2, RevivePosts
  <2> QED BY <1>2, <2>1, <2>3, MailParts, DirAlone DEF Posts
<1>7. /\ Msgs(l)' = Msgs(l) \ {m}
      /\ \A k \in Lines : k # l => Msgs(k)' = Msgs(k)
  BY <1>2, <1>6, Taken
<1>8. /\ dirst'[l] = "UNCACHED" /\ vector'[l] = {} /\ extra'[l] = NULL
      /\ \A k \in Lines : k # l => SameBook(k)
  <2>1. /\ dirst' = [dirst EXCEPT ![l] = "UNCACHED"] /\ vector' = [vector EXCEPT ![l] = {}]
        /\ req_partial' \in {req_partial, NULL, l}
    BY <1>2, <1>5 DEF Uncache
  <2>2. extra' = [extra EXCEPT ![l] = NULL]
    BY <1>1, <1>2, <1>3, SameTable
  <2> QED BY ONLY <1>2, <1>3, <2>1, <2>2, LineWrites
<1>9. Agree(l)'
  BY <1>1, <1>2, <1>3, <1>7, <1>8, BackFrees
<1> QED BY <1>2, <1>7, <1>8, <1>9, OnlyLine

LEMMA WrbAgrees ==
  ASSUME OwnerInv, AllOnes', DirWrb, UNCHANGED l2Vars PROVE \A k \in Lines : Agree(k)'
<1>1. CASE DirWrbError
  BY <1>1, ErrorAgrees DEF DirWrbError
<1> QED BY <1>1, ReviveDone, WasHereDone, PlainDone DEF DirWrb

LEMMA DirectoryAgrees ==
  ASSUME OwnerInv, AllOnes', DirStep, UNCHANGED l2Vars PROVE \A k \in Lines : Agree(k)'
  BY StartAgrees, RequestAgrees, SendAgrees, CoheRepAgrees, WrbAgrees DEF DirStep
-----------------------------------------------------------------------------
(***************************************************************************)
(* The network moves messages, which makes no difference.                  *)
(***************************************************************************)
LEMMA Moved ==
  ASSUME OwnerInv, AllOnes', UNCHANGED <<lineVars, queueVars, req_partial, cacheVars>>,
         \A k \in Lines : Backs(k)' = Backs(k),
         Range(inReq)' \cup Range(inRep)' \cup Range(outCohe)' \cup Range(outRep)'
           \cup requests' \cup replies' \cup coheReps'
           \cup (UNION {Range(coheIn[n]) : n \in Nodes})'
         = Range(inReq) \cup Range(inRep) \cup Range(outCohe) \cup Range(outRep)
             \cup requests \cup replies \cup coheReps \cup (UNION {Range(coheIn[n]) : n \in Nodes})
  PROVE  \A k \in Lines : Agree(k)'
<1>1. UNCHANGED <<BufPend, ReadyReqs, OutboundReqs, atL1, st, wrb_buf, mshrs, dirst, vector, extra>>
  BY DEF queueVars, cacheVars, lineVars
<1>2. /\ Waiting' = Waiting /\ Range(ReadyReqs)' = Range(ReadyReqs)
      /\ Range(OutboundReqs)' = Range(OutboundReqs)
      /\ (UNION {Range(atL1[n]) : n \in Nodes})' = UNION {Range(atL1[n]) : n \in Nodes}
  BY <1>1 DEF Waiting
<1>3. Mail' = Mail
  BY <1>2, MailParts DEF Ins, Outs, CacheMail
<1>4. \A k \in Lines : QuietLine(k)
  BY <1>1, SameBooks, CachesSame DEF QuietLine
<1> QED BY <1>3, <1>4, NothingPosted

LEMMA NetworkAgrees ==
  ASSUME OwnerInv, AllOnes', Network PROVE \A k \in Lines : Agree(k)'
<1>1. /\ inReq \in Seq(REQ) /\ inRep \in Seq(REQ) /\ outCohe \in Seq(REQ) /\ outRep \in Seq(REQ)
      /\ requests \subseteq REQ /\ replies \subseteq REQ /\ coheReps \subseteq REQ
      /\ coheIn \in [Nodes -> Seq(REQ)]
  BY OwnerFacts, QueueTypes
<1>2. CASE \E n \in Nodes : DeliverRequest(n)
  <2> PICK m \in requests : /\ ArriveReq(m) /\ requests' = requests \ {m}
                            /\ UNCHANGED <<cacheVars, coheIn, replies, coheReps, l2fatal>>
    BY <1>2 DEF DeliverRequest
  <2>1. /\ UNCHANGED <<lineVars, queueVars, req_partial, cacheVars, inRep, outCohe, outRep>>
        /\ UNCHANGED <<coheIn, replies, coheReps>> /\ inReq' = Append(inReq, m)
    BY DEF ArriveReq, Arrival, outVars
  <2>2. Range(Append(inReq, m)) = Range(inReq) \cup {m}
    BY <1>1, PutRange
  <2>3. \A k \in Lines : Backs(k)' = Backs(k)
    BY <2>1, BacksSame
  <2> QED BY <2>1, <2>2, <2>3, Moved
<1>3. CASE \E n \in Nodes : DeliverCoheReply(n)
  <2> PICK m \in coheReps : DeliverCoheRep(m)
    BY <1>3 DEF DeliverCoheReply
  <2>1. /\ UNCHANGED <<lineVars, queueVars, req_partial, cacheVars, inReq, outCohe, outRep>>
        /\ UNCHANGED <<coheIn, replies, requests>> /\ inRep' = Append(inRep, m)
        /\ coheReps' = coheReps \ {m}
    BY DEF DeliverCoheRep, ArriveRep, Arrival, outVars
  <2>2. Range(Append(inRep, m)) = Range(inRep) \cup {m}
    BY <1>1, PutRange
  <2>3. \A k \in Lines : Backs(k)' = Backs(k)
    BY <2>1, BacksMoved, OwnerFacts
  <2> QED BY <2>1, <2>2, <2>3, Moved
<1>4. CASE DeliverCohe
  <2> PICK m : m = Head(outCohe)
    OBVIOUS
  <2>1. /\ UNCHANGED <<lineVars, queueVars, req_partial, cacheVars, inReq, inRep, outRep>>
        /\ UNCHANGED <<replies, requests, coheReps>> /\ outCohe # <<>> /\ outCohe' = Tail(outCohe)
        /\ coheIn' = [coheIn EXCEPT ![m.node] = Append(@, m)]
    BY <1>4 DEF DeliverCohe, TakeCohe, Removal, CoheArrives, inVars
  <2>2. m \in REQ /\ Range(Tail(outCohe)) \cup {m} = Range(outCohe)
    BY <1>1, <2>1, SeqFacts, TailRange
  <2> PICK n \in Nodes : n = m.node
    BY <2>2 DEF REQ
  <2>3. /\ coheIn'[n] = Append(coheIn[n], m) /\ coheIn[n] \in Seq(REQ)
        /\ \A i \in Nodes : i # n => coheIn'[i] = coheIn[i]
    BY <1>1, <2>1
  <2>4. Range(Append(coheIn[n], m)) = Range(coheIn[n]) \cup {m}
    BY <2>2, <2>3, PutRange
  <2>5. \A i \in Nodes : Range(coheIn'[i]) = Range(coheIn[i]) \cup IF i = n THEN {m} ELSE {}
    BY <2>3, <2>4
  <2>6. \A x : x \in UNION {Range(coheIn'[i]) : i \in Nodes}
                 <=> x \in (UNION {Range(coheIn[i]) : i \in Nodes}) \cup {m}
    <3>1. \A x : x \in UNION {Range(coheIn'[i]) : i \in Nodes}
                   <=> \E i \in Nodes : x \in Range(coheIn'[i])
      OBVIOUS
    <3>2. \A x : x \in UNION {Range(coheIn[i]) : i \in Nodes}
                   <=> \E i \in Nodes : x \in Range(coheIn[i])
      OBVIOUS
    <3> QED BY <2>5, <3>1, <3>2
  <2>7. (UNION {Range(coheIn[i]) : i \in Nodes})'
        = (UNION {Range(coheIn[i]) : i \in Nodes}) \cup {m}
    BY <2>6
  <2>8. \A k \in Lines : Backs(k)' = Backs(k)
    BY <2>1, BacksSame
  <2> QED BY <2>1, <2>2, <2>7, <2>8, Moved
<1>5. CASE DeliverReply
  <2> PICK m : m = Head(outRep)
    OBVIOUS
  <2>1. /\ UNCHANGED <<lineVars, queueVars, req_partial, cacheVars, inReq, inRep, outCohe>>
        /\ UNCHANGED <<coheIn, requests, coheReps>> /\ outRep # <<>> /\ outRep' = Tail(outRep)
        /\ replies' = replies \cup {m}
    BY <1>5 DEF DeliverReply, TakeRep, Removal, ReplyArrives, inVars
  <2>2. m \in REQ /\ Range(Tail(outRep)) \cup {m} = Range(outRep)
    BY <1>1, <2>1, SeqFacts, TailRange
  <2>3. \A k \in Lines : Backs(k)' = Backs(k)
    BY <2>1, BacksSame
  <2> QED BY <2>1, <2>2, <2>3, Moved
<1> QED BY <1>2, <1>3, <1>4, <1>5 DEF Network
=============================================================================
