---------------------------- MODULE RequestProofs ----------------------------
(***************************************************************************)
(* Each MSHR that waits has exactly one request in flight for it, in a     *)
(* machine of any size.  The proof counts messages: how many of a set S    *)
(* there are in each queue, and what appending, removing, sending and      *)
(* delivering do to the number.  S is the set of the requests of one       *)
(* processor for one line, or that of the COHEs of one transaction to one  *)
(* cache; the counter of the transaction turns out to be the number of     *)
(* caches that have a COHE under way or to come.                           *)
(***************************************************************************)
EXTENDS CoherenceProofs

(* The places of a queue where it has a message of S, and how many.        *)
Where(q, S) == {i \in DOMAIN q : q[i] \in S}
Cnt(q, S)   == Cardinality(Where(q, S))
One(m, S)   == IF m \in S THEN 1 ELSE 0

(* The same in the queues f of all nodes, and in a set.                    *)
Row(f, k, S) == {k} \X Where(f[k], S)
Rows(f, S)   == UNION {Row(f, k, S) : k \in Nodes}
Cells(f, S)  == Cardinality(Rows(f, S))
Has(s, S)    == Cardinality(s \cap S)
-----------------------------------------------------------------------------
(***************************************************************************)
(* Counting in a queue.                                                    *)
(***************************************************************************)
LEMMA WhereFinite ==
  ASSUME NEW q \in Seq(REQ), NEW S
  PROVE  /\ Where(q, S) \subseteq 1..Len(q)
         /\ IsFiniteSet(Where(q, S)) /\ Cnt(q, S) \in Nat
<1>1. Len(q) \in Nat /\ Where(q, S) \in SUBSET (1..Len(q))
  BY DEF Where
<1>2. IsFiniteSet(1..Len(q))
  BY <1>1, FS_Interval
<1>3. IsFiniteSet(Where(q, S))
  BY <1>1, <1>2, FS_Subset
<1> QED BY <1>1, <1>3, FS_CardinalityType DEF Cnt

LEMMA CntEmpty ==
  ASSUME NEW S PROVE Cnt(<<>>, S) = 0
<1>1. Where(<<>>, S) = {}
  BY DEF Where
<1> QED BY <1>1, FS_EmptySet DEF Cnt

LEMMA CntSingle ==
  ASSUME NEW S, NEW m \in REQ PROVE Cnt(<<m>>, S) = One(m, S)
<1>1. Where(<<m>>, S) = IF m \in S THEN {1} ELSE {}
  BY DEF Where
<1>2. Cardinality({1}) = 1 /\ Cardinality({}) = 0
  BY FS_Singleton, FS_EmptySet
<1> QED BY <1>1, <1>2 DEF Cnt, One

(* Two queues one after the other.                                         *)
LEMMA CntConcat ==
  ASSUME NEW S, NEW q \in Seq(REQ), NEW r \in Seq(REQ)
  PROVE  Cnt(q \o r, S) = Cnt(q, S) + Cnt(r, S)
<1> DEFINE A == Where(q, S)
           B == Where(r, S)
           C == Where(q \o r, S) \ A
           up == [i \in B |-> i + Len(q)]
<1>1. /\ Len(q) \in Nat /\ Len(r) \in Nat /\ Len(q \o r) = Len(q) + Len(r)
      /\ DOMAIN q = 1..Len(q) /\ DOMAIN r = 1..Len(r) /\ DOMAIN (q \o r) = 1..Len(q \o r)
  OBVIOUS
<1>2. /\ \A i \in 1..Len(q) : (q \o r)[i] = q[i]
      /\ \A i \in 1..Len(r) : (q \o r)[i + Len(q)] = r[i]
  BY <1>1
<1>3. A \subseteq Where(q \o r, S)
  BY <1>1, <1>2 DEF Where
<1>4. \A j \in C : j - Len(q) \in B /\ up[j - Len(q)] = j
  <2> SUFFICES ASSUME NEW j \in C PROVE j - Len(q) \in B /\ up[j - Len(q)] = j
    OBVIOUS
  <2>1. j \in 1..(Len(q) + Len(r)) /\ (q \o r)[j] \in S /\ j \notin A
    BY <1>1 DEF Where
  <2>2. j \notin 1..Len(q)
    BY <1>1, <1>2, <2>1 DEF Where
  <2>3. j - Len(q) \in 1..Len(r) /\ (j - Len(q)) + Len(q) = j
    BY <1>1, <2>1, <2>2
  <2> QED BY <1>1, <1>2, <2>1, <2>3 DEF Where
<1>5. \A i \in B : i + Len(q) \in C
  <2> SUFFICES ASSUME NEW i \in B PROVE i + Len(q) \in C
    OBVIOUS
  <2>1. i \in 1..Len(r) /\ r[i] \in S
    BY <1>1 DEF Where
  <2>2. i + Len(q) \in 1..(Len(q) + Len(r)) /\ i + Len(q) \notin 1..Len(q)
    BY <1>1, <2>1
  <2> QED BY <1>1, <1>2, <2>1, <2>2 DEF Where
<1>6. up \in Bijection(B, C)
  <2>1. up \in [B -> C]
    BY <1>5
  <2>2. \A i, j \in B : up[i] = up[j] => i = j
    BY <1>1 DEF Where
  <2> HIDE DEF up, B, C
  <2>3. \A j \in C : \E i \in B : up[i] = j
    BY <1>4
  <2> QED BY <2>1, <2>2, <2>3 DEF Bijection, Injection, IsInjective, Surjection
<1>7. IsFiniteSet(A) /\ IsFiniteSet(B) /\ Cardinality(A) \in Nat /\ Cardinality(B) \in Nat
  BY WhereFinite DEF Cnt
<1>8. Cardinality(C) = Cardinality(B) /\ IsFiniteSet(C)
  <2> HIDE DEF up, B, C
  <2> QED BY <1>6, <1>7, FS_Bijection DEF ExistsBijection
<1>9. Where(q \o r, S) = A \cup C /\ A \cap C = {}
  BY <1>3
<1> HIDE DEF A, B, C
<1>10. Cardinality(A \cup C) = Cardinality(A) + Cardinality(C)
  <2>1. Cardinality(A \cup C) = Cardinality(A) + Cardinality(C) - Cardinality(A \cap C)
    BY <1>7, <1>8, FS_Union
  <2>2. Cardinality(A \cap C) = 0
    BY <1>9, FS_EmptySet
  <2> QED BY <1>7, <1>8, <2>1, <2>2
<1> QED BY <1>8, <1>9, <1>10 DEF Cnt, A, B

(* One message more at the end, one less at the head, another one there.   *)
LEMMA CntAppend ==
  ASSUME NEW S, NEW q \in Seq(REQ), NEW m \in REQ
  PROVE  Cnt(Append(q, m), S) = Cnt(q, S) + One(m, S)
<1>1. Append(q, m) = q \o <<m>> /\ <<m>> \in Seq(REQ)
  OBVIOUS
<1> QED BY <1>1, CntConcat, CntSingle

LEMMA CntTail ==
  ASSUME NEW S, NEW q \in Seq(REQ), q # <<>>
  PROVE  /\ Cnt(Tail(q), S) = Cnt(q, S) - One(Head(q), S)
         /\ \A m \in REQ : Cnt(<<m>> \o Tail(q), S)
                           = Cnt(q, S) - One(Head(q), S) + One(m, S)
         /\ Cnt(q, S) >= One(Head(q), S)
<1>1. Head(q) \in REQ /\ Tail(q) \in Seq(REQ) /\ <<Head(q)>> \in Seq(REQ)
  OBVIOUS
<1>2. q = <<Head(q)>> \o Tail(q)
  OBVIOUS
<1>3. Cnt(q, S) = Cnt(<<Head(q)>>, S) + Cnt(Tail(q), S)
  BY <1>1, <1>2, CntConcat
<1>4. Cnt(<<Head(q)>>, S) = One(Head(q), S)
  BY <1>1, CntSingle
<1>5. Cnt(Tail(q), S) \in Nat /\ One(Head(q), S) \in Nat
  BY <1>1, WhereFinite DEF One
<1>6. ASSUME NEW m \in REQ
      PROVE  Cnt(<<m>> \o Tail(q), S) = One(m, S) + Cnt(Tail(q), S) /\ One(m, S) \in Nat
  <2>1. <<m>> \in Seq(REQ)
    OBVIOUS
  <2>2. Cnt(<<m>> \o Tail(q), S) = Cnt(<<m>>, S) + Cnt(Tail(q), S)
    BY <1>1, <2>1, CntConcat
  <2>3. Cnt(<<m>>, S) = One(m, S)
    BY CntSingle
  <2> QED BY <2>2, <2>3 DEF One
<1> QED BY <1>3, <1>4, <1>5, <1>6

(* None, if no message of the queue can be in S.                           *)
LEMMA CntNone ==
  ASSUME NEW S, NEW T, NEW q \in Seq(T), T \cap S = {}
  PROVE  Cnt(q, S) = 0
<1>1. \A i \in DOMAIN q : q[i] \in T
  OBVIOUS
<1>2. Where(q, S) = {}
  BY <1>1 DEF Where
<1> QED BY <1>2, FS_EmptySet DEF Cnt
-----------------------------------------------------------------------------
(***************************************************************************)
(* Counting in the queues of all nodes, and in a set.                      *)
(***************************************************************************)
LEMMA CellsFinite ==
  ASSUME NEW S, NEW f \in [Nodes -> Seq(REQ)]
  PROVE  IsFiniteSet(Rows(f, S)) /\ Cells(f, S) \in Nat
<1> DEFINE T == {Row(f, k, S) : k \in Nodes}
           row == [k \in Nodes |-> Row(f, k, S)]
<1>1. \A k \in Nodes : IsFiniteSet(Row(f, k, S))
  <2> TAKE k \in Nodes
  <2>1. IsFiniteSet({k}) /\ IsFiniteSet(Where(f[k], S))
    BY FS_Singleton, WhereFinite
  <2> QED BY <2>1, FS_Product DEF Row
<1>2. IsFiniteSet(T)
  <2>1. row \in Surjection(Nodes, T)
    BY DEF Surjection
  <2> HIDE DEF T, row
  <2> QED BY <2>1, NodesAssumption, FS_Surjection
<1>3. IsFiniteSet(UNION T)
  <2>1. \A R \in T : IsFiniteSet(R)
    BY <1>1
  <2> HIDE DEF T
  <2> QED BY <1>2, <2>1, FS_UNION
<1> QED BY <1>3, FS_CardinalityType DEF Rows, Cells

(* The queue of one node changes.                                          *)
LEMMA CellsOne ==
  ASSUME NEW S, NEW f \in [Nodes -> Seq(REQ)], NEW n \in Nodes, NEW q \in Seq(REQ)
  PROVE  /\ Cells([f EXCEPT ![n] = q], S) = Cells(f, S) - Cnt(f[n], S) + Cnt(q, S)
         /\ Cells(f, S) >= Cnt(f[n], S)
<1> DEFINE rest == UNION {Row(f, k, S) : k \in Nodes \ {n}}
<1> PICK g \in [Nodes -> Seq(REQ)] : g = [f EXCEPT ![n] = q]
  OBVIOUS
<1>1. Rows(f, S) = Row(f, n, S) \cup rest /\ Rows(g, S) = Row(g, n, S) \cup rest
  BY DEF Rows, Row
<1>2. Row(f, n, S) \cap rest = {} /\ Row(g, n, S) \cap rest = {}
  BY DEF Row
<1>3. IsFiniteSet(Rows(f, S)) /\ IsFiniteSet(Rows(g, S))
  BY CellsFinite
<1> HIDE DEF rest
<1>4. IsFiniteSet(rest) /\ Cardinality(rest) \in Nat
  <2>1. rest \in SUBSET Rows(f, S)
    BY <1>1
  <2> QED BY <1>3, <2>1, FS_Subset, FS_CardinalityType
<1>5. ASSUME NEW h \in [Nodes -> Seq(REQ)], Rows(h, S) = Row(h, n, S) \cup rest,
             Row(h, n, S) \cap rest = {}
      PROVE  Cells(h, S) = Cnt(h[n], S) + Cardinality(rest) /\ Cnt(h[n], S) \in Nat
  <2>1. IsFiniteSet(Where(h[n], S)) /\ Cnt(h[n], S) \in Nat
    BY WhereFinite
  <2>2. IsFiniteSet({n}) /\ Cardinality({n}) = 1
    BY FS_Singleton
  <2>3. IsFiniteSet(Row(h, n, S)) /\ Cardinality(Row(h, n, S)) = 1 * Cnt(h[n], S)
    BY <2>1, <2>2, FS_Product DEF Row, Cnt
  <2>4. Cardinality(Row(h, n, S) \cap rest) = 0
    BY <1>5, FS_EmptySet
  <2>5. Cardinality(Row(h, n, S) \cup rest)
          = Cardinality(Row(h, n, S)) + Cardinality(rest) - Cardinality(Row(h, n, S) \cap rest)
    BY <1>4, <2>3, FS_Union
  <2> QED BY <1>4, <1>5, <2>1, <2>3, <2>4, <2>5 DEF Cells
<1>6. Cells(f, S) = Cnt(f[n], S) + Cardinality(rest) /\ Cnt(f[n], S) \in Nat
  BY <1>1, <1>2, <1>5
<1>7. Cells(g, S) = Cnt(g[n], S) + Cardinality(rest) /\ g[n] = q
  BY <1>1, <1>2, <1>5
<1>8. Cnt(q, S) \in Nat
  BY WhereFinite
<1> QED BY <1>4, <1>6, <1>7, <1>8

(* A message is put into a set, or taken out.                              *)
LEMMA HasFinite ==
  ASSUME NEW s, NEW S, IsFiniteSet(s)
  PROVE  IsFiniteSet(s \cap S) /\ Has(s, S) \in Nat
<1>1. s \cap S \in SUBSET s
  OBVIOUS
<1> QED BY <1>1, FS_Subset, FS_CardinalityType DEF Has

LEMMA HasAdd ==
  ASSUME NEW s, NEW S, IsFiniteSet(s), NEW m, m \in S => m \notin s
  PROVE  IsFiniteSet(s \cup {m}) /\ Has(s \cup {m}, S) = Has(s, S) + One(m, S)
<1>1. IsFiniteSet(s \cap S) /\ Has(s, S) \in Nat /\ IsFiniteSet(s \cup {m})
  BY HasFinite, FS_AddElement
<1>2. CASE m \in S
  <2>1. (s \cup {m}) \cap S = (s \cap S) \cup {m} /\ m \notin s \cap S
    BY <1>2
  <2>2. Cardinality((s \cap S) \cup {m}) = Cardinality(s \cap S) + 1
    BY <1>1, <2>1, FS_AddElement
  <2> QED BY <1>1, <1>2, <2>1, <2>2 DEF Has, One
<1>3. CASE m \notin S
  <2>1. (s \cup {m}) \cap S = s \cap S
    BY <1>3
  <2> QED BY <1>1, <1>3, <2>1 DEF Has, One
<1> QED BY <1>2, <1>3

LEMMA HasRemove ==
  ASSUME NEW s, NEW S, IsFiniteSet(s), NEW m \in s
  PROVE  /\ IsFiniteSet(s \ {m}) /\ Has(s \ {m}, S) = Has(s, S) - One(m, S)
         /\ Has(s, S) >= One(m, S)
<1>1. IsFiniteSet(s \ {m})
  BY FS_RemoveElement
<1>2. (s \ {m}) \cup {m} = s /\ m \notin s \ {m}
  OBVIOUS
<1>3. Has((s \ {m}) \cup {m}, S) = Has(s \ {m}, S) + One(m, S)
  BY <1>1, HasAdd
<1>4. Has(s \ {m}, S) \in Nat /\ One(m, S) \in Nat
  BY <1>1, HasFinite DEF One
<1>5. Has(s, S) = Has(s \ {m}, S) + One(m, S)
  BY <1>2, <1>3
<1>6. Has(s, S) \in Nat
  BY HasFinite
<1> QED BY <1>1, <1>4, <1>5, <1>6
-----------------------------------------------------------------------------
(***************************************************************************)
(* The invariant.                                                          *)
(***************************************************************************)
(* The COHEs to cache n for line l and their answers: the directory's own, *)
(* and a request that it has forwarded.  What the processor n asks for.    *)
CoheAt(m, n, l) == /\ m.type \in {"COHE", "COHE_REPLY"} /\ m.req_type \notin WrbTypes
                   /\ m.node = n /\ m.tag = l
Own(n, l) == {m \in REQ : CoheAt(m, n, l) /\ m.forward_to = NULL}
Fwd(n, l) == {m \in REQ : CoheAt(m, n, l) /\ m.forward_to # NULL}
Tok(n, l) == {m \in REQ : IsToken(m, n, l)}

(* How many messages of S go between directory and caches on the way of    *)
(* the COHEs; and, on the way of the requests, wait at the directory with  *)
(* those parked behind line l, or are under way.                           *)
DirFlow(S)    == Cnt(outCohe, S) + Cnt(OutboundReqs, S) + Cnt(inRep, S)
CacheFlow(S)  == Cells(coheIn, S) + Cells(atL1, S) + Has(coheReps, S)
Flow(S)       == DirFlow(S) + CacheFlow(S)
DirHeld(S, l) == Cnt(inReq, S) + Cnt(outRep, S) + Cnt(ReadyReqs, S) + Cnt(BufPend[l], S)
CacheHeld(S)  == Has(requests, S) + Has(replies, S)

DirTok(n, l)   == DirFlow(Tok(n, l)) + DirHeld(Tok(n, l), l) + InExtra(n, l)
CacheTok(n, l) == CacheFlow(Tok(n, l)) + CacheHeld(Tok(n, l))

(* The caches that the transaction of line l has still to ask, and those   *)
(* that it has asked or will ask and that have not answered.               *)
Unsent(l) ==
  IF extra[l].ret_st = "ACK_REPLY"
  THEN IF req_partial = l THEN {extra[l].pend_req.node} ELSE {}
  ELSE extra[l].left
Flight(n, l) == Flow(Own(n, l)) + Flow(Fwd(n, l))
Asked(l) == Unsent(l) \cup {n \in Nodes : Flight(n, l) # 0}

(* Without a transaction no COHE is under way.  With one, each cache has   *)
(* at most one, none before it is sent; the counter is right; and COHEs    *)
(* are forwarded requests exactly if the request is to be forwarded.       *)
Quiet(l) ==
  req_partial # l /\ \A n \in Nodes : Flow(Own(n, l)) = 0 /\ Flow(Fwd(n, l)) = 0
InTransit(l) ==
  /\ \A n \in Nodes : Flight(n, l) <= IF n \in Unsent(l) THEN 0 ELSE 1
  /\ extra[l].counter = Cardinality(Asked(l)) + (IF extra[l].waiting THEN 1 ELSE 0)
  /\ req_partial = l => Unsent(l) # {}
  /\ extra[l].ret_st = "ACK_REPLY" =>
       /\ extra[l].counter = 1 /\ extra[l].pend_req.forward_to # NULL
       /\ \A n \in Nodes : Flow(Own(n, l)) = 0
  /\ extra[l].ret_st # "ACK_REPLY" => \A n \in Nodes : Flow(Fwd(n, l)) = 0
TransOK(l) == IF extra[l] = NULL THEN Quiet(l) ELSE InTransit(l)
TransInv == \A l \in Lines : TransOK(l)

(* A request is served only when no COHE of another is left to be sent.    *)
OneByOne == pc = "SERV" /\ sel \in {"REQ", "READY"} => req_partial = NULL

SetsFinite == IsFiniteSet(requests) /\ IsFiniteSet(replies) /\ IsFiniteSet(coheReps)

Waits(n, l) == mshrs[n][l] # NULL /\ ~mshrs[n][l].installed
OneEach ==
  \A n \in Nodes, l \in Lines :
    DirTok(n, l) + CacheTok(n, l) = IF Waits(n, l) THEN 1 ELSE 0

FlowInv == SetsFinite /\ OneByOne /\ TransInv /\ OneEach
RequestInv == ProtocolInv /\ FlowInv
-----------------------------------------------------------------------------
(***************************************************************************)
(* Types.                                                                  *)
(***************************************************************************)
LEMMA QueueTypes ==
  ASSUME ProtocolInv
  PROVE  /\ outCohe \in Seq(REQ) /\ outRep \in Seq(REQ) /\ OutboundReqs \in Seq(REQ)
         /\ inReq \in Seq(REQ) /\ inRep \in Seq(REQ) /\ ReadyReqs \in Seq(REQ)
         /\ BufPend \in [Lines -> Seq(REQ)]
         /\ coheIn \in [Nodes -> Seq(REQ)] /\ atL1 \in [Nodes -> Seq(REQ)]
         /\ requests \subseteq REQ /\ replies \subseteq REQ /\ coheReps \subseteq REQ
  BY DEF ProtocolInv, IInv, QueueInv, QueueTypeOK, PortTypeOK, L2Consistent, L2TypeOK

LEMMA Counts ==
  ASSUME ProtocolInv, SetsFinite, NEW S, NEW l \in Lines
  PROVE  /\ Cnt(outCohe, S) \in Nat /\ Cnt(OutboundReqs, S) \in Nat /\ Cnt(inRep, S) \in Nat
         /\ Cnt(inReq, S) \in Nat /\ Cnt(outRep, S) \in Nat /\ Cnt(ReadyReqs, S) \in Nat
         /\ Cnt(BufPend[l], S) \in Nat
         /\ Cells(coheIn, S) \in Nat /\ Cells(atL1, S) \in Nat
         /\ Has(coheReps, S) \in Nat /\ Has(requests, S) \in Nat /\ Has(replies, S) \in Nat
<1>1. BufPend[l] \in Seq(REQ)
  BY QueueTypes
<1> QED BY <1>1, QueueTypes, WhereFinite, CellsFinite, HasFinite DEF SetsFinite

LEMMA Sums ==
  ASSUME ProtocolInv, SetsFinite, NEW S, NEW l \in Lines
  PROVE  /\ DirFlow(S) \in Nat /\ CacheFlow(S) \in Nat /\ Flow(S) \in Nat
         /\ DirHeld(S, l) \in Nat /\ CacheHeld(S) \in Nat
  BY Counts DEF DirFlow, CacheFlow, Flow, DirHeld, CacheHeld

LEMMA OneType == ASSUME NEW m, NEW S PROVE One(m, S) \in {0, 1}
  BY DEF One

(* Tokens is the sum of what directory and caches hold.                    *)
LEMMA TokensAre ==
  ASSUME ProtocolInv, SetsFinite, NEW n \in Nodes, NEW l \in Lines
  PROVE  Tokens(n, l) = DirTok(n, l) + CacheTok(n, l)
<1> DEFINE T == Tok(n, l)
<1>1. ASSUME NEW q \in Seq(REQ) PROVE Holds(q, n, l) = Cnt(q, T)
  <2>1. {i \in DOMAIN q : IsToken(q[i], n, l)} = Where(q, T)
    BY DEF Where, Tok
  <2> QED BY <2>1 DEF Holds, Cnt
<1>2. ASSUME NEW s \in SUBSET REQ PROVE HeldIn(s, n, l) = Has(s, T)
  <2>1. {m \in s : IsToken(m, n, l)} = s \cap T
    BY DEF Tok
  <2> QED BY <2>1 DEF HeldIn, Has
<1>3. ASSUME NEW f \in [Nodes -> Seq(REQ)] PROVE HeldAt(f, n, l) = Cells(f, T)
  <2>1. \A k \in Nodes : {i \in DOMAIN f[k] : IsToken(f[k][i], n, l)} = Where(f[k], T)
    BY DEF Where, Tok
  <2>2. {{k} \X {i \in DOMAIN f[k] : IsToken(f[k][i], n, l)} : k \in Nodes}
          = {Row(f, k, T) : k \in Nodes}
    BY <2>1 DEF Row
  <2> QED BY <2>2 DEF HeldAt, Cells, Rows
<1>4. BufPend[l] \in Seq(REQ)
  BY QueueTypes
<1>5. InExtra(n, l) \in Nat
  BY DEF InExtra
<1> HIDE DEF T
<1>6. Tokens(n, l) = Has(requests, T) + Has(replies, T) + Has(coheReps, T)
        + Cnt(inReq, T) + Cnt(inRep, T) + Cnt(outCohe, T) + Cnt(outRep, T)
        + Cnt(ReadyReqs, T) + Cnt(OutboundReqs, T) + Cnt(BufPend[l], T)
        + Cells(coheIn, T) + Cells(atL1, T) + InExtra(n, l)
  <2>1. /\ HeldIn(requests, n, l) = Has(requests, T) /\ HeldIn(replies, n, l) = Has(replies, T)
        /\ HeldIn(coheReps, n, l) = Has(coheReps, T)
    BY <1>2, QueueTypes
  <2>2. /\ Holds(inReq, n, l) = Cnt(inReq, T) /\ Holds(inRep, n, l) = Cnt(inRep, T)
        /\ Holds(outCohe, n, l) = Cnt(outCohe, T) /\ Holds(outRep, n, l) = Cnt(outRep, T)
        /\ Holds(ReadyReqs, n, l) = Cnt(ReadyReqs, T)
        /\ Holds(OutboundReqs, n, l) = Cnt(OutboundReqs, T)
        /\ Holds(BufPend[l], n, l) = Cnt(BufPend[l], T)
    BY <1>1, <1>4, QueueTypes
  <2>3. HeldAt(coheIn, n, l) = Cells(coheIn, T) /\ HeldAt(atL1, n, l) = Cells(atL1, T)
    BY <1>3, QueueTypes
  <2> QED BY ONLY <2>1, <2>2, <2>3 DEF Tokens
<1>7. DirTok(n, l) + CacheTok(n, l)
        = (DirFlow(T) + DirHeld(T, l) + InExtra(n, l)) + (CacheFlow(T) + CacheHeld(T))
  BY DEF DirTok, CacheTok, T
<1> QED BY <1>5, <1>6, <1>7, Counts DEF DirFlow, DirHeld, CacheFlow, CacheHeld
-----------------------------------------------------------------------------
(***************************************************************************)
(* What the directory does with its queues.                                *)
(***************************************************************************)
LEMMA CommitCount ==
  ASSUME ProtocolInv, ServeReq, NEW m, m = Request, NEW S
  PROVE  /\ CommitReq => Cnt(inReq', S) + Cnt(ReadyReqs', S)
                         = Cnt(inReq, S) + Cnt(ReadyReqs, S) - One(m, S)
         /\ \A r \in REQ : LeaveReq(r) =>
              Cnt(inReq', S) + Cnt(ReadyReqs', S)
                = Cnt(inReq, S) + Cnt(ReadyReqs, S) - One(m, S) + One(r, S)
<1>1. inReq \in Seq(REQ) /\ ReadyReqs \in Seq(REQ)
  BY QueueTypes
<1>2. Cnt(inReq, S) \in Nat /\ Cnt(ReadyReqs, S) \in Nat /\ One(m, S) \in Nat
      /\ \A r \in REQ : One(r, S) \in Nat
  BY <1>1, WhereFinite, OneType
<1>3. CASE wasPending
  <2>1. ReadyReqs # <<>> /\ m = Head(ReadyReqs)
    BY <1>3 DEF ProtocolInv, IInv, CtlInv, PickedThere, ServeReq, wasPending, Request
  <2>2. /\ Cnt(Tail(ReadyReqs), S) = Cnt(ReadyReqs, S) - One(m, S)
        /\ \A r \in REQ : Cnt(<<r>> \o Tail(ReadyReqs), S)
                          = Cnt(ReadyReqs, S) - One(m, S) + One(r, S)
    BY <1>1, <2>1, CntTail
  <2>3. Cnt(ReadyReqs, S) - One(m, S) \in Int /\ Cnt(inReq, S) \in Int
    BY <1>2
  <2>4. ASSUME CommitReq
        PROVE  Cnt(ReadyReqs', S) = Cnt(ReadyReqs, S) - One(m, S) /\ Cnt(inReq', S) = Cnt(inReq, S)
    BY <1>3, <2>2, <2>4 DEF CommitReq
  <2>5. ASSUME NEW r \in REQ, LeaveReq(r)
        PROVE  /\ Cnt(ReadyReqs', S) = Cnt(ReadyReqs, S) - One(m, S) + One(r, S)
               /\ Cnt(inReq', S) = Cnt(inReq, S)
    BY <1>3, <2>2, <2>5 DEF LeaveReq
  <2> QED BY <1>2, <2>3, <2>4, <2>5
<1>4. CASE ~wasPending
  <2>1. inReq # <<>> /\ m = Head(inReq)
    BY <1>4 DEF ProtocolInv, IInv, CtlInv, PickedThere, ServeReq, wasPending, Request
  <2>2. /\ Cnt(Tail(inReq), S) = Cnt(inReq, S) - One(m, S)
        /\ \A r \in REQ : Cnt(<<r>> \o Tail(inReq), S)
                          = Cnt(inReq, S) - One(m, S) + One(r, S)
    BY <1>1, <2>1, CntTail
  <2>3. Cnt(inReq, S) - One(m, S) \in Int /\ Cnt(ReadyReqs, S) \in Int
    BY <1>2
  <2>4. ASSUME CommitReq
        PROVE  Cnt(inReq', S) = Cnt(inReq, S) - One(m, S) /\ Cnt(ReadyReqs', S) = Cnt(ReadyReqs, S)
    BY <1>4, <2>2, <2>4 DEF CommitReq
  <2>5. ASSUME NEW r \in REQ, LeaveReq(r)
        PROVE  /\ Cnt(inReq', S) = Cnt(inReq, S) - One(m, S) + One(r, S)
               /\ Cnt(ReadyReqs', S) = Cnt(ReadyReqs, S)
    BY <1>4, <2>2, <2>5 DEF LeaveReq
  <2> QED BY <1>2, <2>3, <2>4, <2>5
<1> QED BY <1>3, <1>4

LEMMA CommitRepCount ==
  ASSUME ProtocolInv, ServeRep, NEW m, m = Answer, CommitRep, NEW S
  PROVE  /\ Cnt(inRep', S) = Cnt(inRep, S) - One(m, S) /\ Cnt(inRep, S) >= One(m, S)
         /\ inReq' = inReq
<1>1. inRep \in Seq(REQ) /\ inRep # <<>>
  BY QueueTypes DEF ProtocolInv, IInv, CtlInv, PickedThere, ServeRep
<1> QED BY <1>1, CntTail DEF CommitRep, Answer

LEMMA AddCount ==
  ASSUME ProtocolInv, NEW m \in REQ, AddReq(m), NEW S
  PROVE  /\ Cnt(outCohe', S) = Cnt(outCohe, S) + (IF m.type = "COHE" THEN One(m, S) ELSE 0)
         /\ Cnt(outRep', S) = Cnt(outRep, S) + (IF m.type = "COHE" THEN 0 ELSE One(m, S))
<1>1. outCohe \in Seq(REQ) /\ outRep \in Seq(REQ)
  BY QueueTypes
<1>2. Cnt(outCohe, S) \in Nat /\ Cnt(outRep, S) \in Nat
  BY <1>1, WhereFinite
<1> QED BY <1>1, <1>2, CntAppend DEF AddReq

(* A COHE stays on the way of the COHEs; a reply leaves it, or is put on   *)
(* it where only requests count.                                           *)
LEMMA SendCount ==
  ASSUME ProtocolInv, NEW m \in REQ, SendOrQueue(m), NEW S
  PROVE  /\ Cnt(outCohe', S) + Cnt(OutboundReqs', S) + Cnt(outRep', S)
              = Cnt(outCohe, S) + Cnt(OutboundReqs, S) + Cnt(outRep, S) + One(m, S)
         /\ m.type = "COHE" \/ m \notin S =>
              Cnt(outCohe', S) + Cnt(OutboundReqs', S)
                = Cnt(outCohe, S) + Cnt(OutboundReqs, S) + One(m, S)
<1>1. outCohe \in Seq(REQ) /\ outRep \in Seq(REQ) /\ OutboundReqs \in Seq(REQ)
  BY QueueTypes
<1>2. Cnt(outCohe, S) \in Nat /\ Cnt(outRep, S) \in Nat /\ Cnt(OutboundReqs, S) \in Nat
      /\ One(m, S) \in Nat
  BY <1>1, WhereFinite, OneType
<1>3. m \notin S => One(m, S) = 0
  BY DEF One
<1>4. CASE PortFull(m)
  <2>1. OutboundReqs' = Append(OutboundReqs, m) /\ outCohe' = outCohe /\ outRep' = outRep
    BY <1>4 DEF SendOrQueue, outVars
  <2>2. Cnt(OutboundReqs', S) = Cnt(OutboundReqs, S) + One(m, S)
    BY <1>1, <2>1, CntAppend
  <2> QED BY <1>2, <2>1, <2>2
<1>5. CASE ~PortFull(m)
  <2>1. AddReq(m) /\ OutboundReqs' = OutboundReqs
    BY <1>5 DEF SendOrQueue
  <2> QED BY <1>2, <1>3, <2>1, AddCount
<1> QED BY <1>4, <1>5

(* The requests parked behind line l are those for line l.                 *)
LEMMA ParkedElsewhere ==
  ASSUME ProtocolInv, NEW l \in Lines, NEW k \in Lines, k # l, NEW n \in Nodes
  PROVE  Cnt(BufPend[l], Tok(n, k)) = 0
<1>1. BufPend[l] \in Seq(PlainOf(l))
  BY DEF ProtocolInv, Shapes, DirShapes
<1>2. PlainOf(l) \cap Tok(n, k) = {}
  BY DEF PlainOf, Tok, IsToken
<1> QED BY <1>1, <1>2, CntNone

LEMMA ReviveCount ==
  ASSUME ProtocolInv, NEW l \in Lines, NEW first \in Seq(REQ), DirCheckBuf(l, first),
         NEW n \in Nodes, NEW k \in Lines
  PROVE  Cnt(ReadyReqs', Tok(n, k)) + Cnt(BufPend'[k], Tok(n, k))
           = Cnt(ReadyReqs, Tok(n, k)) + Cnt(BufPend[k], Tok(n, k)) + Cnt(first, Tok(n, k))
<1> PICK S : S = Tok(n, k)
  OBVIOUS
<1>1. ReadyReqs \in Seq(REQ) /\ BufPend[l] \in Seq(REQ) /\ BufPend[k] \in Seq(REQ)
      /\ BufPend \in [Lines -> Seq(REQ)]
  BY QueueTypes
<1>2. /\ Cnt(ReadyReqs, S) \in Nat /\ Cnt(BufPend[l], S) \in Nat /\ Cnt(BufPend[k], S) \in Nat
      /\ Cnt(first, S) \in Nat
  BY <1>1, WhereFinite
<1>3. ReadyReqs \o first \in Seq(REQ)
  BY <1>1
<1>4. Cnt((ReadyReqs \o first) \o BufPend[l], S)
        = Cnt(ReadyReqs, S) + Cnt(first, S) + Cnt(BufPend[l], S)
  BY <1>1, <1>3, CntConcat
<1>5. Cnt(ReadyReqs', S) = Cnt(ReadyReqs, S) + Cnt(first, S) + Cnt(BufPend[l], S)
  BY <1>4 DEF DirCheckBuf
<1>6. CASE k = l
  <2>1. BufPend'[k] = <<>>
    BY <1>1, <1>6 DEF DirCheckBuf
  <2> QED BY <1>2, <1>5, <1>6, <2>1, CntEmpty
<1>7. CASE k # l
  <2>1. BufPend'[k] = BufPend[k] /\ Cnt(BufPend[l], S) = 0
    BY <1>1, <1>7, ParkedElsewhere DEF DirCheckBuf
  <2> QED BY <1>2, <1>5, <2>1
<1> QED BY <1>6, <1>7
-----------------------------------------------------------------------------
(***************************************************************************)
(* What a message counts as.                                               *)
(***************************************************************************)
(* A request, rewritten, is still the same processor's for the same line.  *)
SameRequest(m, r) ==
  /\ m \in REQ /\ r \in REQ /\ (r.isreq <=> m.isreq) /\ r.tag = m.tag /\ Owner(r) = Owner(m)
LEMMA SameTok ==
  ASSUME NEW m, NEW r, SameRequest(m, r), NEW n \in Nodes, NEW l \in Lines
  PROVE  One(r, Tok(n, l)) = One(m, Tok(n, l))
  BY DEF SameRequest, One, Tok, IsToken

(* A COHE or its answer, rewritten, belongs to the same transaction.       *)
SameCohe(m, r) ==
  /\ m \in REQ /\ r \in REQ
  /\ m.type \in {"COHE", "COHE_REPLY"} /\ r.type \in {"COHE", "COHE_REPLY"}
  /\ r.req_type = m.req_type /\ r.node = m.node /\ r.tag = m.tag
  /\ r.forward_to = m.forward_to
LEMMA SameColour ==
  ASSUME NEW m, NEW r, SameCohe(m, r), NEW n \in Nodes, NEW l \in Lines
  PROVE  /\ One(r, Own(n, l)) = One(m, Own(n, l))
         /\ One(r, Fwd(n, l)) = One(m, Fwd(n, l))
  BY DEF SameCohe, One, Own, Fwd, CoheAt

(* Requests, replies and write-backs are no COHEs; COHEs of other lines    *)
(* and nodes do not count for this one; the directory's own COHEs and what *)
(* answers them, and acknowledgments, are nobody's request.                *)
LEMMA NoColour ==
  ASSUME NEW m, m.type \in {"REQUEST", "REPLY"} \/ m.req_type \in WrbTypes,
         NEW n \in Nodes, NEW l \in Lines
  PROVE  /\ m \notin Own(n, l) /\ One(m, Own(n, l)) = 0
         /\ m \notin Fwd(n, l) /\ One(m, Fwd(n, l)) = 0
  BY DEF One, Own, Fwd, CoheAt

LEMMA OtherLine ==
  ASSUME NEW m, NEW n \in Nodes, NEW l \in Lines, m.tag # l
  PROVE  One(m, Own(n, l)) = 0 /\ One(m, Fwd(n, l)) = 0 /\ One(m, Tok(n, l)) = 0
  BY DEF One, Own, Fwd, CoheAt, Tok, IsToken

LEMMA NoToken ==
  ASSUME NEW m, ~m.isreq, NEW n \in Nodes, NEW l \in Lines
  PROVE  One(m, Tok(n, l)) = 0
  BY DEF One, Tok, IsToken

LEMMA ColourOf ==
  ASSUME NEW m \in REQ, m.type \in {"COHE", "COHE_REPLY"}, m.req_type \notin WrbTypes,
         NEW n \in Nodes
  PROVE  /\ One(m, Own(n, m.tag)) + One(m, Fwd(n, m.tag)) = IF n = m.node THEN 1 ELSE 0
         /\ m.forward_to = NULL => One(m, Fwd(n, m.tag)) = 0
         /\ m.forward_to # NULL => One(m, Own(n, m.tag)) = 0
  BY DEF One, Own, Fwd, CoheAt, REQ
-----------------------------------------------------------------------------
(***************************************************************************)
(* What keeps the transaction of a line as it is.                          *)
(***************************************************************************)
SameFlow(l) ==
  \A n \in Nodes : /\ Flow(Own(n, l))' = Flow(Own(n, l))
                   /\ Flow(Fwd(n, l))' = Flow(Fwd(n, l))
SameExtra(l) ==
  /\ extra'[l].counter = extra[l].counter /\ extra'[l].waiting = extra[l].waiting
  /\ extra'[l].ret_st = extra[l].ret_st /\ extra'[l].left = extra[l].left
  /\ extra'[l].pend_req = extra[l].pend_req

LEMMA TransKept ==
  ASSUME NEW l \in Lines, TransOK(l), SameFlow(l),
         extra'[l] = NULL <=> extra[l] = NULL, extra[l] # NULL => SameExtra(l),
         req_partial' = l <=> req_partial = l
  PROVE  TransOK(l)'
<1>1. \A n \in Nodes : Flight(n, l)' = Flight(n, l)
  BY DEF SameFlow, Flight
<1>2. CASE extra[l] = NULL
  BY <1>2 DEF TransOK, Quiet, SameFlow
<1>3. CASE extra[l] # NULL
  <2>1. Unsent(l)' = Unsent(l)
    BY <1>3 DEF Unsent, SameExtra
  <2>2. Asked(l)' = Asked(l)
    BY <1>1, <2>1 DEF Asked
  <2>3. InTransit(l)
    BY <1>3 DEF TransOK
  <2>4. InTransit(l)'
    BY <1>1, <1>3, <2>1, <2>2, <2>3 DEF InTransit, SameExtra, SameFlow
  <2> QED BY <1>3, <2>4 DEF TransOK
<1> QED BY <1>2, <1>3

(* Nothing that the invariant says of transactions changes.                *)
LEMMA AllKept ==
  ASSUME TransInv, \A l \in Lines : SameFlow(l), UNCHANGED <<extra, req_partial>>
  PROVE  TransInv'
<1> SUFFICES ASSUME NEW l \in Lines PROVE TransOK(l)'
  BY DEF TransInv
<1> QED BY TransKept DEF TransInv, SameExtra
(* Only the transaction of line l changes, or starts, or ends.             *)
LEMMA OneChanges ==
  ASSUME TransInv, NEW l \in Lines, TransOK(l)',
         \A k \in Lines : k # l => /\ SameFlow(k) /\ extra'[k] = extra[k]
                                   /\ req_partial' = k <=> req_partial = k
  PROVE  TransInv'
<1> SUFFICES ASSUME NEW k \in Lines, k # l PROVE TransOK(k)'
  BY DEF TransInv
<1>1. TransOK(k)
  BY DEF TransInv
<1>2. SameFlow(k) /\ extra'[k] = extra[k]
  OBVIOUS
<1>3. req_partial' = k <=> req_partial = k
  OBVIOUS
<1>4. SameExtra(k)
  BY <1>2 DEF SameExtra
<1> QED BY <1>1, <1>2, <1>3, <1>4, TransKept

(* The caches that a transaction waits for are some of the nodes.          *)
LEMMA AskedFinite ==
  ASSUME ProtocolInv, NEW l \in Lines, extra[l] # NULL
  PROVE  /\ Unsent(l) \subseteq Nodes /\ Asked(l) \subseteq Nodes
         /\ IsFiniteSet(Asked(l)) /\ Cardinality(Asked(l)) \in Nat
<1>1. extra[l] \in DirEP
  BY DEF ProtocolInv, IInv, LineInv, LineTypeOK
<1>2. Unsent(l) \subseteq Nodes
  BY <1>1 DEF Unsent, DirEP, REQ
<1>3. Asked(l) \in SUBSET Nodes
  BY <1>2 DEF Asked
<1> QED BY <1>2, <1>3, NodesAssumption, FS_Subset, FS_CardinalityType
-----------------------------------------------------------------------------
(***************************************************************************)
(* Directory and caches change one at a time.                              *)
(***************************************************************************)
LEMMA CachesIdle ==
  ASSUME UNCHANGED l2Vars, NEW S
  PROVE  CacheFlow(S)' = CacheFlow(S) /\ CacheHeld(S)' = CacheHeld(S) /\ SetsFinite' = SetsFinite
  BY DEF l2Vars, cacheVars, portVars, CacheFlow, CacheHeld, SetsFinite

LEMMA ExtraKept ==
  ASSUME NEW n \in Nodes, NEW l \in Lines, extra'[l] = NULL <=> extra[l] = NULL,
         extra[l] # NULL => extra'[l].pend_req = extra[l].pend_req,
         req_partial' = l <=> req_partial = l
  PROVE  InExtra(n, l)' = InExtra(n, l)
  BY DEF InExtra

LEMMA DirectoryIdle ==
  ASSUME UNCHANGED <<extra, req_partial, queueVars, inVars, outVars>>,
         NEW S, NEW n \in Nodes, NEW l \in Lines
  PROVE  /\ DirFlow(S)' = DirFlow(S) /\ DirHeld(S, l)' = DirHeld(S, l)
         /\ InExtra(n, l)' = InExtra(n, l)
  BY DEF queueVars, inVars, outVars, DirFlow, DirHeld, InExtra

-----------------------------------------------------------------------------
(***************************************************************************)
(* An activation moves a message from OutboundReqs to its port.            *)
(***************************************************************************)
LEMMA CountStart ==
  ASSUME ProtocolInv, SetsFinite, DirStart, NEW S, NEW l \in Lines
  PROVE  /\ S \cap ReplyMsg = {} => DirFlow(S)' = DirFlow(S)
         /\ DirFlow(S)' + DirHeld(S, l)' = DirFlow(S) + DirHeld(S, l)
<1>1. CASE DirOutbound
  <2>1. OutboundReqs \in Seq(CoheMsg \cup ReplyMsg) /\ OutboundReqs \in Seq(REQ)
        /\ OutboundReqs # <<>>
    BY <1>1, QueueTypes DEF ProtocolInv, Shapes, DirShapes, DirOutbound, OutboundDone
  <2> PICK m \in CoheMsg \cup ReplyMsg : m = Head(OutboundReqs)
    BY <2>1, SeqFacts
  <2>2. m \in REQ /\ Tail(OutboundReqs) \in Seq(REQ)
    BY <2>1, ShapesAreMessages
  <2>3. /\ Cnt(Tail(OutboundReqs), S) = Cnt(OutboundReqs, S) - One(m, S)
        /\ Cnt(Append(Tail(OutboundReqs), m), S) = Cnt(Tail(OutboundReqs), S) + One(m, S)
    BY <2>1, <2>2, CntTail, CntAppend
  <2>4. One(m, S) \in Nat /\ (m.type # "COHE" => m \in ReplyMsg)
    BY OneType DEF CoheMsg
  <2>5. UNCHANGED <<inReq, inRep, ReadyReqs, BufPend>>
    BY <1>1 DEF DirOutbound, inVars
  <2>6. CASE PortFull(m)
    <3>1. OutboundReqs' = Append(Tail(OutboundReqs), m) /\ UNCHANGED <<outCohe, outRep>>
      BY <1>1, <2>6 DEF DirOutbound, outVars
    <3>2. Cnt(OutboundReqs, S) \in Nat
      BY Counts
    <3>3. Cnt(Append(Tail(OutboundReqs), m), S) = Cnt(OutboundReqs, S)
      BY <2>3, <2>4, <3>2
    <3>4. Cnt(OutboundReqs', S) = Cnt(OutboundReqs, S)
      BY <3>1, <3>3
    <3> QED BY <2>5, <3>1, <3>4 DEF DirFlow, DirHeld
  <2>7. CASE ~PortFull(m)
    <3>1. OutboundReqs' = Tail(OutboundReqs) /\ AddReq(m)
      BY <1>1, <2>7 DEF DirOutbound
    <3>2. Cnt(OutboundReqs', S) = Cnt(OutboundReqs, S) - One(m, S)
      BY <2>3, <3>1
    <3>3. S \cap ReplyMsg = {} => m.type = "COHE" \/ One(m, S) = 0
      BY <2>4 DEF One
    <3>4. /\ Cnt(outCohe', S) = Cnt(outCohe, S) + (IF m.type = "COHE" THEN One(m, S) ELSE 0)
          /\ Cnt(outRep', S) = Cnt(outRep, S) + (IF m.type = "COHE" THEN 0 ELSE One(m, S))
      BY <2>2, <3>1, AddCount
    <3>5. DirFlow(S)' = DirFlow(S) + (IF m.type = "COHE" THEN 0 ELSE 0 - One(m, S))
      BY <2>4, <2>5, <3>2, <3>4, Counts DEF DirFlow
    <3>6. DirHeld(S, l)' = DirHeld(S, l) + (IF m.type = "COHE" THEN 0 ELSE One(m, S))
      BY <2>4, <2>5, <3>4, Counts DEF DirHeld
    <3> QED BY <2>4, <3>3, <3>5, <3>6, Sums
  <2> QED BY <2>6, <2>7
<1>2. CASE DirActivate \/ DirPick \/ DirNextPort
  <2>1. UNCHANGED <<queueVars, inVars, outVars>>
    BY <1>2 DEF DirActivate, DirPick, DirNextPort
  <2> QED BY <2>1 DEF queueVars, inVars, outVars, DirFlow, DirHeld
<1> QED BY <1>1, <1>2 DEF DirStart
-----------------------------------------------------------------------------
(***************************************************************************)
(* A request is served.                                                    *)
(***************************************************************************)
(* It is on no COHE's way.                                                 *)
LEMMA FlowReq ==
  ASSUME ProtocolInv, DirReq, NEW S
  PROVE  DirFlow(S)' = DirFlow(S)
<1>1. outCohe' = outCohe /\ UNCHANGED <<OutboundReqs, inRep>>
  BY DEF DirReq, DirReqError, YS__errmsg, DirReqBounce, DirReqRAR, DirReqPend, DirReqGrant,
     DirReqWaitForWRB, DirReqInval, DirReqForward, AddReq, outVars, queueVars, inVars
<1> QED BY <1>1 DEF DirFlow

(* A transaction that starts keeps the request.                            *)
LEMMA ExtraStarts ==
  ASSUME ProtocolInv, NEW l \in Lines, extra[l] = NULL, req_partial = NULL,
         NEW e \in DirEP, extra' = [extra EXCEPT ![l] = e],
         e.pend_req.type = "COHE" => req_partial' = l, req_partial' \in {NULL, l},
         NEW m, SameRequest(m, e.pend_req), m.tag = l, NEW n \in Nodes, NEW k \in Lines
  PROVE  InExtra(n, k)' = InExtra(n, k) + One(m, Tok(n, k))
<1>1. extra \in [Lines -> DirEP \cup {NULL}] /\ NULL \notin Lines
  BY NullAssumption DEF ProtocolInv, IInv, LineInv, LineTypeOK
<1>2. CASE k = l
  <2>1. InExtra(n, k) = 0 /\ extra'[k] = e /\ e # NULL
    BY <1>1, <1>2, ExtraAssumption DEF InExtra
  <2>2. InExtra(n, k)' = IF IsToken(e.pend_req, n, k) THEN 1 ELSE 0
    BY <1>2, <2>1 DEF InExtra
  <2>3. IsToken(e.pend_req, n, k) <=> m \in Tok(n, k)
    BY DEF SameRequest, IsToken, Tok
  <2> QED BY <2>1, <2>2, <2>3 DEF One
<1>3. CASE k # l
  <2>1. extra'[k] = extra[k] /\ req_partial # k /\ req_partial' # k
    BY <1>1, <1>3
  <2>2. InExtra(n, k)' = InExtra(n, k) /\ InExtra(n, k) \in Nat
    BY <2>1 DEF InExtra
  <2> QED BY <1>3, <2>2, OtherLine
<1> QED BY <1>2, <1>3

(* What starts a transaction: a write-back is waited for, invalidations    *)
(* are to be sent, or the request itself to the owner.                     *)
Starts(m, e) ==
  /\ extra' = [extra EXCEPT ![m.tag] = e] /\ extra[m.tag] = NULL
  /\ SameRequest(m, e.pend_req)
  /\ req_partial' = IF e.waiting THEN req_partial ELSE m.tag
  /\ CommitReq /\ UNCHANGED <<BufPend, outVars>>
  /\ \/ /\ e.waiting /\ e.left = {} /\ e.counter = 1 /\ e.ret_st = "DIR_REPLY"
        /\ e.pend_req.type # "COHE"
     \/ /\ ~e.waiting /\ e.left # {} /\ e.counter = Cardinality(e.left)
        /\ e.ret_st # "ACK_REPLY" /\ e.pend_req.type # "COHE"
     \/ /\ ~e.waiting /\ e.counter = 1 /\ e.ret_st = "ACK_REPLY"
        /\ e.pend_req.forward_to # NULL

(* The extra of a forwarded request is one.                                *)
LEMMA ForwardExtra ==
  ASSUME NEW r \in REQ, NEW o \in Nodes, NEW c \in CoheTypes
  PROVE  [NewExtra(r, 1, {o}) EXCEPT !.next_req_type = c, !.nack_st = "NACK_NOK",
                                     !.ret_st = "ACK_REPLY"] \in DirEP
  BY DEF NewExtra, DirEP, CoheTypes

(* Each of the three ways to start a transaction is of that kind.          *)
LEMMA StartFacts ==
  ASSUME ProtocolInv, DirReqWaitForWRB \/ DirReqInval \/ DirReqForward,
         NEW m \in RequestMsg, m = Request
  PROVE  \E e \in DirEP : Starts(m, e)
<1>1. IInv /\ DirShapes /\ LineTypeOK
  BY DEF ProtocolInv, Shapes, IInv, LineInv
<1>2. /\ m \in REQ /\ m.node \in Nodes /\ m.tag \in Lines /\ m.forward_to = NULL
      /\ m.req_type \in ReqTypes \cup DataTypes /\ m.type = "REQUEST"
  BY ShapesAreMessages DEF REQ, RequestMsg
<1>3. extra[m.tag] = NULL /\ CommitReq
  BY <1>1, <1>2
  DEF IInv, LineInv, PendIffExtra, DirReqWaitForWRB, DirReqInval, DirReqForward, Decides
<1>4. UNCHANGED <<BufPend, outVars>>
  BY DEF DirReqWaitForWRB, DirReqInval, DirReqForward
<1>5. CoheReqType(m) \in ReqTypes
  BY CoheReqTypeOK DEF DirReqWaitForWRB, DirReqInval, DirReqForward
<1>6. ASSUME NEW t \in ReqTypes \cup DataTypes
      PROVE  [m EXCEPT !.req_type = t] \in REQ /\ SameRequest(m, [m EXCEPT !.req_type = t])
             /\ [m EXCEPT !.req_type = t].type = "REQUEST"
  BY <1>2 DEF SameRequest, REQ, Owner
<1>7. CASE DirReqWaitForWRB
  <2> PICK r \in REQ : r = [m EXCEPT !.req_type = CoheReqType(m)]
    BY <1>5, <1>6
  <2>1. SameRequest(m, r) /\ r.type = "REQUEST" /\ r.tag = m.tag /\ r.node = m.node
    BY <1>2, <1>5, <1>6 DEF REQ
  <2> PICK e : e = [NewExtra(r, 1, {}) EXCEPT !.waiting = TRUE, !.WaitingFor = r.node]
    OBVIOUS
  <2>2. NewExtra(r, 1, {}) \in DirEP
    BY ExtraType
  <2>3. /\ e.pend_req = r /\ e.waiting /\ e.left = {} /\ e.counter = 1
        /\ e.ret_st = "DIR_REPLY"
    BY DEF NewExtra
  <2>4. e \in DirEP
    BY <1>2, <2>1, <2>2 DEF DirEP
  <2>5. extra' = [extra EXCEPT ![m.tag] = e] /\ req_partial' = req_partial
    BY <1>7, <2>1 DEF DirReqWaitForWRB
  <2>6. Starts(m, e)
    BY <1>3, <1>4, <2>1, <2>3, <2>5 DEF Starts
  <2> QED BY <2>4, <2>6
<1>8. CASE DirReqInval
  <2> PICK r \in REQ : r = [m EXCEPT !.req_type = GrantType(m)]
    BY <1>6, GrantTypeOK DEF DataTypes
  <2>1. SameRequest(m, r) /\ r.type = "REQUEST"
    BY <1>6, GrantTypeOK DEF DataTypes
  <2> PICK o : o = Others(m)
    OBVIOUS
  <2>2. o \in SUBSET Nodes /\ o # {} /\ Cardinality(o) \in Nat
    <3>1. o \in SUBSET Nodes /\ o # {}
      BY <1>1, <1>2, <1>8 DEF DirReqInval, Invalidates, Others, LineTypeOK
    <3> QED BY <3>1, NodesAssumption, FS_Subset, FS_CardinalityType
  <2> PICK e : e = [NewExtra(r, Cardinality(o), o) EXCEPT
                      !.ret_st = IF CoheReqType(m) = "UPGRADE"
                                 THEN "DIR_REPLY" ELSE "SPECIAL_REPLY"]
    OBVIOUS
  <2>3. NewExtra(r, Cardinality(o), o) \in DirEP
    BY <2>2, ExtraType
  <2>4. /\ e.pend_req = r /\ ~e.waiting /\ e.left = o
        /\ e.counter = Cardinality(o) /\ e.ret_st # "ACK_REPLY"
    BY DEF NewExtra
  <2>5. e \in DirEP
    BY <2>3 DEF DirEP
  <2>6. extra' = [extra EXCEPT ![m.tag] = e] /\ req_partial' = m.tag
    BY <1>8 DEF DirReqInval, StartCohe
  <2>7. Starts(m, e)
    BY <1>3, <1>4, <2>1, <2>2, <2>4, <2>6 DEF Starts
  <2> QED BY <2>5, <2>7
<1>9. CASE DirReqForward
  <2> PICK o : o = CHOOSE n \in vector[m.tag] : TRUE
    OBVIOUS
  <2>1. o \in Nodes
    <3>1. dirst[m.tag] = "DIR_PRIVATE"
      BY <1>9 DEF DirReqForward, Forwards
    <3> QED BY <1>1, <1>2, <3>1 DEF IInv, LineInv, VectorOK
  <2> PICK c \in CoheTypes : c = CopybackType(m)
    BY DEF CopybackType, CoheTypes
  <2> PICK r : r = [m EXCEPT !.type = "COHE", !.req_type = c,
                             !.nack_st = "NACK_NOK", !.reply = "REPLY", !.node = o,
                             !.forward_to = m.node]
    OBVIOUS
  <2>2. r \in REQ /\ SameRequest(m, r) /\ r.forward_to # NULL
    BY <1>2, <2>1, NullAssumption DEF SameRequest, REQ, Owner
  <2> PICK e : e = [NewExtra(r, 1, {o}) EXCEPT !.next_req_type = c, !.nack_st = "NACK_NOK",
                             !.ret_st = "ACK_REPLY"]
    OBVIOUS
  <2>3. e \in DirEP
    BY <2>1, <2>2, ForwardExtra
  <2>4. e.pend_req = r /\ ~e.waiting /\ e.counter = 1 /\ e.ret_st = "ACK_REPLY"
    BY DEF NewExtra
  <2>5. extra' = [extra EXCEPT ![m.tag] = e] /\ req_partial' = m.tag
    BY <1>9 DEF DirReqForward, StartCohe
  <2>6. Starts(m, e)
    BY <1>3, <1>4, <2>2, <2>4, <2>5 DEF Starts
  <2> QED BY <2>3, <2>6
<1> QED BY <1>7, <1>8, <1>9

(* No request is lost or made: what leaves a queue is put somewhere.       *)
Moves(S, n, k, a, b, c, d) ==
  /\ DirFlow(S)' = DirFlow(S)
  /\ Cnt(inReq', S) + Cnt(ReadyReqs', S) = Cnt(inReq, S) + Cnt(ReadyReqs, S) + a
  /\ Cnt(outRep', S) = Cnt(outRep, S) + b /\ Cnt(BufPend'[k], S) = Cnt(BufPend[k], S) + c
  /\ InExtra(n, k)' = InExtra(n, k) + d

LEMMA Balance ==
  ASSUME ProtocolInv, SetsFinite, ProtocolInv', NEW n \in Nodes, NEW k \in Lines,
         NEW S, S = Tok(n, k), NEW a \in Int, NEW b \in Int, NEW c \in Int, NEW d \in Int,
         Moves(S, n, k, a, b, c, d), a + b + c + d = 0
  PROVE  DirTok(n, k)' = DirTok(n, k)
<1>1. /\ inReq' \in Seq(REQ) /\ ReadyReqs' \in Seq(REQ) /\ outRep' \in Seq(REQ)
      /\ BufPend'[k] \in Seq(REQ)
  <2>1. /\ inReq' \in Seq(REQ) /\ ReadyReqs' \in Seq(REQ) /\ outRep' \in Seq(REQ)
        /\ BufPend' \in [Lines -> Seq(REQ)]
    BY DEF ProtocolInv, IInv, QueueInv, QueueTypeOK, PortTypeOK
  <2> QED BY <2>1
<1>2. /\ Cnt(inReq', S) \in Nat /\ Cnt(ReadyReqs', S) \in Nat /\ Cnt(outRep', S) \in Nat
      /\ Cnt(BufPend'[k], S) \in Nat
  BY <1>1, WhereFinite
<1>3. DirHeld(S, k)' = DirHeld(S, k) + a + b + c
  <2>1. DirHeld(S, k)' = Cnt(inReq', S) + Cnt(outRep', S) + Cnt(ReadyReqs', S) + Cnt(BufPend'[k], S)
    BY DEF DirHeld
  <2>2. DirHeld(S, k) = Cnt(inReq, S) + Cnt(outRep, S) + Cnt(ReadyReqs, S) + Cnt(BufPend[k], S)
    BY DEF DirHeld
  <2>3. /\ Cnt(inReq, S) \in Nat /\ Cnt(ReadyReqs, S) \in Nat /\ Cnt(outRep, S) \in Nat
        /\ Cnt(BufPend[k], S) \in Nat
    BY Counts
  <2>4. /\ Cnt(inReq', S) + Cnt(ReadyReqs', S) = Cnt(inReq, S) + Cnt(ReadyReqs, S) + a
        /\ Cnt(outRep', S) = Cnt(outRep, S) + b /\ Cnt(BufPend'[k], S) = Cnt(BufPend[k], S) + c
    BY DEF Moves
  <2> QED BY <1>2, <2>1, <2>2, <2>3, <2>4
<1>4. InExtra(n, k) \in Nat /\ DirFlow(S) \in Nat /\ DirHeld(S, k) \in Nat
  BY Sums DEF InExtra
<1>0. DirFlow(S)' = DirFlow(S) /\ InExtra(n, k)' = InExtra(n, k) + d
  BY DEF Moves
<1>5. DirTok(n, k)' = DirFlow(S)' + DirHeld(S, k)' + InExtra(n, k)'
  BY DEF DirTok
<1>6. DirTok(n, k) = DirFlow(S) + DirHeld(S, k) + InExtra(n, k)
  BY DEF DirTok
<1>7. a \in Int /\ b \in Int /\ c \in Int /\ d \in Int /\ a + b + c + d = 0
  OBVIOUS
<1> QED BY ONLY <1>0, <1>3, <1>4, <1>5, <1>6, <1>7

(* A request that is answered stays the same processor's.                  *)
LEMMA AnsweredAs ==
  ASSUME NEW m \in REQ, NEW c \in {"REPLY", "RAR"}
  PROVE  /\ [m EXCEPT !.type = "REPLY", !.reply = c] \in REQ
         /\ [m EXCEPT !.type = "REPLY", !.reply = c].type # "COHE"
         /\ SameRequest(m, [m EXCEPT !.type = "REPLY", !.reply = c])
  BY DEF SameRequest, Owner, REQ

(* The request that is served, of whatever kind the step.                  *)
LEMMA TokensReq ==
  ASSUME RequestInv, DirReq, ProtocolInv', NEW n \in Nodes, NEW k \in Lines
  PROVE  DirTok(n, k)' = DirTok(n, k)
<1>1. ProtocolInv /\ SetsFinite /\ OneByOne /\ TransInv
  BY DEF RequestInv, FlowInv
<1> PICK S : S = Tok(n, k)
  OBVIOUS
<1>2. DirFlow(S)' = DirFlow(S)
  BY <1>1, FlowReq
<1>3. CASE DirReqError
  <2>1. UNCHANGED <<extra, req_partial, queueVars, inVars, outVars>>
    BY <1>3 DEF DirReqError, YS__errmsg, lineVars
  <2> QED BY <2>1, DirectoryIdle DEF DirTok
<1> SUFFICES ASSUME ServeReq, ~DirReqError PROVE DirTok(n, k)' = DirTok(n, k)
  BY <1>3 DEF DirReq, DirReqError, DirReqBounce, DirReqRAR, DirReqPend, DirReqGrant,
     DirReqWaitForWRB, DirReqInval, DirReqForward, ServeCohe, Decides
<1>4. IInv /\ DirShapes
  BY <1>1 DEF ProtocolInv, Shapes
<1> PICK m \in RequestMsg : m = Request
  BY <1>4, RequestShape
<1>5. m \in REQ /\ m.tag \in Lines /\ m.type = "REQUEST" /\ m.forward_to = NULL /\ m.isreq
  BY ShapesAreMessages DEF RequestMsg, REQ
<1> PICK t : t = One(m, S)
  OBVIOUS
<1> PICK u : u = 0 - t
  OBVIOUS
<1>6. t \in Int /\ u \in Int /\ 0 \in Int /\ u + t = 0
  BY OneType
<1>7. ASSUME CommitReq
      PROVE  Cnt(inReq', S) + Cnt(ReadyReqs', S) = Cnt(inReq, S) + Cnt(ReadyReqs, S) + u
  <2>1. Cnt(inReq', S) + Cnt(ReadyReqs', S) = Cnt(inReq, S) + Cnt(ReadyReqs, S) - One(m, S)
    BY <1>1, <1>7, CommitCount
  <2>2. Cnt(inReq, S) \in Nat /\ Cnt(ReadyReqs, S) \in Nat
    BY <1>1, Counts
  <2> QED BY <1>6, <2>1, <2>2
<1>8. ASSUME NEW r \in REQ, AddReq(r), SameRequest(m, r), r.type # "COHE"
      PROVE  Cnt(outRep', S) = Cnt(outRep, S) + t
  <2>1. One(r, S) = t
    BY <1>8, SameTok
  <2> QED BY <1>1, <1>8, <2>1, AddCount
<1>9. Cnt(outRep, S) \in Nat /\ Cnt(BufPend[k], S) \in Nat /\ InExtra(n, k) \in Nat
      /\ Cnt(inReq, S) \in Nat /\ Cnt(ReadyReqs, S) \in Nat
  BY <1>1, Counts DEF InExtra
<1>10. ASSUME UNCHANGED <<BufPend, extra, req_partial>>
       PROVE  Cnt(BufPend'[k], S) = Cnt(BufPend[k], S) + 0 /\ InExtra(n, k)' = InExtra(n, k) + 0
  BY <1>9, <1>10 DEF InExtra
<1>11. ASSUME UNCHANGED <<BufPend, extra, req_partial>>, CommitReq,
              NEW r \in REQ, AddReq(r), SameRequest(m, r), r.type # "COHE"
       PROVE  DirTok(n, k)' = DirTok(n, k)
  <2>1. Moves(S, n, k, u, t, 0, 0)
    BY <1>2, <1>7, <1>8, <1>10, <1>11 DEF Moves
  <2> QED BY <1>1, <1>6, <2>1, Balance
<1>12. CASE DirReqBounce \/ DirReqRAR
  <2>1. UNCHANGED <<BufPend, extra, req_partial, OutboundReqs, inRep>>
    BY <1>12 DEF DirReqBounce, DirReqRAR, lineVars
  <2>2. CASE Full(outRep)
    <3>1. UNCHANGED <<queueVars, inVars, outVars>>
      BY <1>12, <2>1, <2>2 DEF DirReqBounce, DirReqRAR, queueVars, inVars
    <3> QED BY <2>1, <3>1, DirectoryIdle DEF DirTok
  <2>3. CASE ~Full(outRep)
    <3>1. CommitReq /\ \E c \in {"REPLY", "RAR"} :
            AddReq([m EXCEPT !.type = "REPLY", !.reply = c])
      BY <1>12, <2>3 DEF DirReqBounce, DirReqRAR
    <3> PICK c \in {"REPLY", "RAR"} : AddReq([m EXCEPT !.type = "REPLY", !.reply = c])
      BY <3>1
    <3> PICK r : r = [m EXCEPT !.type = "REPLY", !.reply = c]
      OBVIOUS
    <3>2. r \in REQ /\ SameRequest(m, r) /\ r.type # "COHE" /\ AddReq(r)
      BY <1>5, AnsweredAs
    <3> QED BY <1>11, <2>1, <3>1, <3>2
  <2> QED BY <2>2, <2>3
<1>13. CASE DirReqPend
  <2>1. /\ CommitReq /\ BufPend' = [BufPend EXCEPT ![m.tag] = Append(@, m)]
        /\ UNCHANGED <<extra, outRep, req_partial>>
    BY <1>13 DEF DirReqPend, lineVars, outVars
  <2>2. BufPend \in [Lines -> Seq(REQ)]
    BY <1>1, QueueTypes
  <2>3. Cnt(BufPend'[k], S) = Cnt(BufPend[k], S) + t
    <3>1. CASE k = m.tag
      <4>1. BufPend'[k] = Append(BufPend[k], m) /\ BufPend[k] \in Seq(REQ)
        BY <2>1, <2>2, <3>1
      <4>2. Cnt(Append(BufPend[k], m), S) = Cnt(BufPend[k], S) + One(m, S)
        BY <1>5, <4>1, CntAppend
      <4> QED BY <4>1, <4>2
    <3>2. CASE k # m.tag
      <4>1. BufPend'[k] = BufPend[k] /\ t = 0
        BY <2>1, <2>2, <3>2, OtherLine
      <4> QED BY <1>9, <4>1
    <3> QED BY <3>1, <3>2
  <2>4. Cnt(outRep', S) = Cnt(outRep, S) + 0 /\ InExtra(n, k)' = InExtra(n, k) + 0
    BY <1>9, <2>1 DEF InExtra
  <2>5. Moves(S, n, k, u, 0, t, 0)
    BY <1>2, <1>7, <2>1, <2>3, <2>4 DEF Moves
  <2> QED BY <1>1, <1>6, <2>5, Balance
<1>14. CASE DirReqGrant
  <2> PICK g \in DataTypes : g = GrantType(m)
    BY GrantTypeOK DEF DataTypes
  <2> PICK r \in REQ : r = [m EXCEPT !.req_type = g]
    BY <1>5 DEF REQ
  <2>1. SameRequest(m, r)
    BY <1>5 DEF SameRequest, Owner, REQ
  <2>2. UNCHANGED <<BufPend, extra, req_partial, OutboundReqs, inRep>>
    <3>1. extra[m.tag] = NULL /\ extra \in [Lines -> DirEP \cup {NULL}]
      BY <1>4, <1>5, <1>14 DEF DirReqGrant, Decides, IInv, LineInv, LineTypeOK, PendIffExtra
    <3> QED BY <1>5, <1>14, <3>1 DEF DirReqGrant
  <2>3. CASE Full(outRep)
    <3>1. LeaveReq(r) /\ UNCHANGED outVars
      BY <1>14, <2>3 DEF DirReqGrant
    <3>2. One(r, S) = t
      BY <2>1, SameTok
    <3>3. Cnt(inReq', S) + Cnt(ReadyReqs', S)
            = Cnt(inReq, S) + Cnt(ReadyReqs, S) - t + t
      BY <1>1, <3>1, <3>2, CommitCount
    <3>4. Cnt(inReq', S) + Cnt(ReadyReqs', S) = Cnt(inReq, S) + Cnt(ReadyReqs, S) + 0
      BY <1>6, <1>9, <3>3
    <3>5. Cnt(outRep', S) = Cnt(outRep, S) + 0
      BY <1>9, <3>1 DEF outVars
    <3> PICK z \in Int : z = 0
      OBVIOUS
    <3>6. Moves(S, n, k, z, z, z, z)
      BY <1>2, <1>10, <2>2, <3>4, <3>5 DEF Moves
    <3>7. z + z + z + z = 0
      OBVIOUS
    <3> HIDE DEF Moves
    <3> QED BY <1>1, <3>6, <3>7, Balance
  <2>4. CASE ~Full(outRep)
    <3>1. CommitReq /\ AddReq([r EXCEPT !.type = "REPLY", !.reply = "REPLY"])
      BY <1>14, <2>4 DEF DirReqGrant
    <3> PICK q : q = [r EXCEPT !.type = "REPLY", !.reply = "REPLY"]
      OBVIOUS
    <3>2. q \in REQ /\ SameRequest(r, q) /\ q.type # "COHE"
      BY AnsweredAs
    <3>3. SameRequest(m, q)
      BY <2>1, <3>2 DEF SameRequest
    <3> QED BY <1>11, <2>2, <3>1, <3>2, <3>3
  <2> QED BY <2>3, <2>4
<1>15. CASE DirReqWaitForWRB \/ DirReqInval \/ DirReqForward
  <2> PICK e \in DirEP : Starts(m, e)
    BY <1>1, <1>15, StartFacts
  <2> PICK l \in Lines : l = m.tag
    BY <1>5
  <2>1. req_partial = NULL /\ NULL \notin Lines
    BY <1>1, NullAssumption DEF OneByOne, ServeReq
  <2>2. /\ e \in DirEP /\ l \in Lines /\ n \in Nodes /\ k \in Lines /\ m.tag = l
        /\ extra[l] = NULL /\ extra' = [extra EXCEPT ![l] = e]
        /\ e.pend_req.type = "COHE" => req_partial' = l
        /\ req_partial' \in {NULL, l} /\ SameRequest(m, e.pend_req)
    BY <2>1 DEF Starts
  <2>3. InExtra(n, k)' = InExtra(n, k) + t
    <3>1. InExtra(n, k)' = InExtra(n, k) + One(m, Tok(n, k))
      BY <1>1, <2>1, <2>2, ExtraStarts, Zenon
    <3> QED BY <3>1
  <2>4. CommitReq /\ UNCHANGED <<BufPend, outRep>>
    BY DEF Starts, outVars
  <2>5. Cnt(outRep', S) = Cnt(outRep, S) + 0 /\ Cnt(BufPend'[k], S) = Cnt(BufPend[k], S) + 0
    BY <1>9, <2>4
  <2>6. Moves(S, n, k, u, 0, 0, t)
    BY <1>2, <1>7, <2>3, <2>4, <2>5 DEF Moves
  <2> QED BY <1>1, <1>6, <2>6, Balance
<1> QED BY <1>12, <1>13, <1>14, <1>15 DEF DirReq

(* It is no COHE yet: only a transaction that it starts is new.            *)
LEMMA TransReq ==
  ASSUME RequestInv, DirReq, UNCHANGED l2Vars PROVE TransInv'
<1>1. ProtocolInv /\ SetsFinite /\ OneByOne /\ TransInv
  BY DEF RequestInv, FlowInv
<1>2. ASSUME NEW l \in Lines PROVE SameFlow(l)
  BY <1>1, FlowReq, CachesIdle DEF SameFlow, Flow
<1>3. CASE UNCHANGED <<extra, req_partial>>
  BY <1>1, <1>2, <1>3, AllKept
<1>4. CASE DirReqWaitForWRB \/ DirReqInval \/ DirReqForward
  <2>1. ServeReq /\ IInv /\ DirShapes
    BY <1>1, <1>4 DEF DirReqWaitForWRB, DirReqInval, DirReqForward, Decides, ServeCohe,
       ProtocolInv, Shapes
  <2> PICK m \in RequestMsg : m = Request
    BY <2>1, RequestShape
  <2> PICK l \in Lines : l = m.tag
    BY ShapesAreMessages DEF REQ
  <2> PICK e \in DirEP : Starts(m, e)
    BY <1>1, <1>4, StartFacts
  <2>2. /\ extra \in [Lines -> DirEP \cup {NULL}] /\ extra[l] = NULL
        /\ extra' = [extra EXCEPT ![l] = e]
    BY <1>1 DEF Starts, ProtocolInv, IInv, LineInv, LineTypeOK
  <2>3. /\ extra'[l] = e /\ e # NULL
        /\ \A k \in Lines : k # l => extra'[k] = extra[k]
    BY <2>2, ExtraAssumption
  <2>4. /\ req_partial = NULL /\ NULL \notin Lines
        /\ req_partial' = IF e.waiting THEN NULL ELSE l
    BY <1>1, <2>1, NullAssumption DEF OneByOne, ServeReq, Starts
  <2>5. \A n \in Nodes : /\ Flow(Own(n, l))' = 0 /\ Flow(Fwd(n, l))' = 0
                         /\ Flight(n, l)' = 0
    <3>1. Quiet(l)
      BY <1>1, <2>2 DEF TransInv, TransOK
    <3> QED BY <1>2, <3>1 DEF Quiet, SameFlow, Flight
  <2>6. Asked(l)' = Unsent(l)'
    BY <2>5 DEF Asked
  <2>7. InTransit(l)'
    <3>1. CASE e.waiting
      <4>1. /\ e.left = {} /\ e.counter = 1 /\ e.ret_st # "ACK_REPLY" /\ req_partial' # l
        BY <2>4, <3>1 DEF Starts
      <4>2. Unsent(l)' = {} /\ Cardinality({}) = 0
        BY <2>3, <4>1, FS_EmptySet DEF Unsent
      <4> QED BY <2>3, <2>5, <2>6, <3>1, <4>1, <4>2 DEF InTransit
    <3>2. CASE ~e.waiting /\ e.ret_st # "ACK_REPLY"
      <4>1. e.left # {} /\ e.counter = Cardinality(e.left)
        BY <3>2 DEF Starts
      <4>2. Unsent(l)' = e.left /\ Cardinality(e.left) \in Nat
        <5>1. IsFiniteSet(e.left)
          BY NodesAssumption, FS_Subset DEF DirEP
        <5> QED BY <2>3, <3>2, <5>1, FS_CardinalityType DEF Unsent
      <4> QED BY <2>3, <2>5, <2>6, <3>2, <4>1, <4>2 DEF InTransit
    <3>3. CASE ~e.waiting /\ e.ret_st = "ACK_REPLY"
      <4>1. /\ e.counter = 1 /\ e.pend_req.forward_to # NULL /\ req_partial' = l
        BY <2>4, <3>3 DEF Starts
      <4>2. Unsent(l)' = {e.pend_req.node} /\ Cardinality({e.pend_req.node}) = 1
        BY <2>3, <3>3, <4>1, FS_Singleton DEF Unsent
      <4> QED BY <2>3, <2>5, <2>6, <3>3, <4>1, <4>2 DEF InTransit
    <3> QED BY <3>1, <3>2, <3>3
  <2>8. TransOK(l)'
    BY <2>3, <2>7 DEF TransOK
  <2> QED BY <1>1, <1>2, <2>3, <2>4, <2>8, OneChanges
<1>5. CASE DirReqError \/ DirReqBounce \/ DirReqRAR \/ DirReqPend
  BY <1>3, <1>5 DEF DirReqError, YS__errmsg, DirReqBounce, DirReqRAR, DirReqPend, lineVars
<1>6. CASE DirReqGrant
  <2>1. UNCHANGED <<extra, req_partial>>
    BY <1>1, <1>6, ShapesAreMessages, RequestShape
    DEF DirReqGrant, Decides, ServeCohe, ProtocolInv, Shapes, RequestMsg, REQ, IInv, LineInv,
        LineTypeOK, PendIffExtra
  <2> QED BY <1>3, <2>1
<1> QED BY <1>4, <1>5, <1>6 DEF DirReq
-----------------------------------------------------------------------------
(***************************************************************************)
(* The other steps of an activation.                                       *)
(***************************************************************************)
LEMMA OneByOneKept ==
  ASSUME OneByOne, DirStep \/ Arrival \/ Removal(outCohe) \/ Removal(outRep)
  PROVE  OneByOne'
<1>1. CASE DirStart
  BY <1>1 DEF DirStart, DirActivate, DirOutbound, DirPick, DirNextPort, Offer, Asleep, OneByOne
<1>2. CASE DirReq
  BY <1>2 DEF DirReq, DirReqError, YS__errmsg, DirReqBounce, DirReqRAR, DirReqPend,
     DirReqGrant, DirReqWaitForWRB, DirReqInval, DirReqForward, StartOver, StartCohe, OneByOne
<1>3. CASE DirSend
  <2>1. pc' # "SERV"
    BY <1>3 DEF DirSend, DirSendCoheNull, DirSendForward, DirSendInval, YS__errmsg, StartOver
  <2> QED BY <2>1 DEF OneByOne
<1>4. CASE DirCoheRep \/ DirWrb
  <2>1. pc' # "SERV"
    BY <1>4 DEF DirCoheRep, DirCoheRepError, DirNackRace, DirNackRetry, DirNackPendResend,
       DirAck, DirAckReply, DirAckForward, Answers, DirWrb, DirWrbError, DirWrbRevive,
       DirWrbWasHere, DirWrbPlain, WriteBack, YS__errmsg, StartOver
  <2> QED BY <2>1 DEF OneByOne
<1>5. CASE Arrival \/ Removal(outCohe) \/ Removal(outRep)
  BY <1>5 DEF Arrival, Removal, OneByOne
<1> QED BY <1>1, <1>2, <1>3, <1>4, <1>5 DEF DirStep

LEMMA StartKeeps ==
  ASSUME RequestInv, DirStart, UNCHANGED l2Vars
  PROVE  /\ TransInv'
         /\ \A n \in Nodes, k \in Lines : DirTok(n, k)' = DirTok(n, k)
<1>1. ProtocolInv /\ SetsFinite /\ TransInv
  BY DEF RequestInv, FlowInv
<1>2. UNCHANGED <<extra, req_partial>>
  BY DEF DirStart, DirActivate, DirOutbound, DirPick, DirNextPort, lineVars
<1>3. ASSUME NEW l \in Lines PROVE SameFlow(l)
  <2> SUFFICES ASSUME NEW n \in Nodes
               PROVE  Flow(Own(n, l))' = Flow(Own(n, l)) /\ Flow(Fwd(n, l))' = Flow(Fwd(n, l))
    BY DEF SameFlow
  <2>1. Own(n, l) \cap ReplyMsg = {} /\ Fwd(n, l) \cap ReplyMsg = {}
    BY DEF Own, Fwd, CoheAt, ReplyMsg
  <2>2. DirFlow(Own(n, l))' = DirFlow(Own(n, l)) /\ DirFlow(Fwd(n, l))' = DirFlow(Fwd(n, l))
    BY <1>1, <2>1, CountStart
  <2> QED BY <2>2, CachesIdle DEF Flow
<1>4. ASSUME NEW n \in Nodes, NEW k \in Lines PROVE DirTok(n, k)' = DirTok(n, k)
  <2>1. DirFlow(Tok(n, k))' + DirHeld(Tok(n, k), k)' = DirFlow(Tok(n, k)) + DirHeld(Tok(n, k), k)
    BY <1>1, CountStart
  <2>2. InExtra(n, k)' = InExtra(n, k)
    BY <1>2 DEF InExtra
  <2> QED BY <2>1, <2>2 DEF DirTok
<1> QED BY <1>1, <1>2, <1>3, <1>4, AllKept
-----------------------------------------------------------------------------
(***************************************************************************)
(* A COHE leaves.                                                          *)
(***************************************************************************)
(* The transaction has asked one cache more, and has one less to ask.      *)
Leaves(l, c) ==
  /\ extra[l] # NULL /\ extra'[l] # NULL
  /\ c \in CoheMsg /\ c.tag = l /\ c.node \in Unsent(l)
  /\ Unsent(l)' = Unsent(l) \ {c.node}
  /\ c.forward_to # NULL <=> extra[l].ret_st = "ACK_REPLY"
  /\ extra'[l].counter = extra[l].counter /\ extra'[l].waiting = extra[l].waiting
  /\ extra'[l].ret_st = extra[l].ret_st /\ extra'[l].pend_req = extra[l].pend_req
  /\ req_partial' = l => Unsent(l)' # {}

LEMMA CoheLeaves ==
  ASSUME ProtocolInv, SetsFinite, NEW l \in Lines, TransOK(l), NEW c, Leaves(l, c),
         \A n \in Nodes : /\ Flow(Own(n, l))' = Flow(Own(n, l)) + One(c, Own(n, l))
                          /\ Flow(Fwd(n, l))' = Flow(Fwd(n, l)) + One(c, Fwd(n, l))
  PROVE  TransOK(l)'
<1>1. InTransit(l) /\ c \in CoheMsg /\ c.tag = l /\ c.node \in Unsent(l)
  BY DEF TransOK, Leaves
<1>2. c \in REQ /\ c.type \in {"COHE", "COHE_REPLY"} /\ c.req_type \notin WrbTypes
  BY <1>1 DEF CoheMsg, CoheTypes, WrbTypes
<1>3. ASSUME NEW n \in Nodes
      PROVE  /\ One(c, Own(n, l)) + One(c, Fwd(n, l)) = IF n = c.node THEN 1 ELSE 0
             /\ c.forward_to = NULL => One(c, Fwd(n, l)) = 0
             /\ c.forward_to # NULL => One(c, Own(n, l)) = 0
             /\ One(c, Fwd(n, l)) \in Nat /\ One(c, Own(n, l)) \in Nat
             /\ Flow(Own(n, l)) \in Nat /\ Flow(Fwd(n, l)) \in Nat
  BY <1>1, <1>2, ColourOf, OneType, Sums
<1>4. ASSUME NEW n \in Nodes
      PROVE  Flight(n, l)' = Flight(n, l) + (IF n = c.node THEN 1 ELSE 0) /\ Flight(n, l) \in Nat
  BY <1>3 DEF Flight
<1>5. Unsent(l)' = Unsent(l) \ {c.node} /\ Unsent(l) \subseteq Nodes
  BY AskedFinite DEF Leaves
<1>6. \A n \in Nodes : Flight(n, l)' <= IF n \in Unsent(l)' THEN 0 ELSE 1
  <2> TAKE n \in Nodes
  <2>1. Flight(n, l) <= IF n \in Unsent(l) THEN 0 ELSE 1
    BY <1>1 DEF InTransit
  <2>2. CASE n = c.node
    BY <1>1, <1>4, <1>5, <2>1, <2>2
  <2>3. CASE n # c.node
    BY <1>4, <1>5, <2>1, <2>3
  <2> QED BY <2>2, <2>3
<1>7. Asked(l)' = Asked(l)
  <2>1. \A n \in Nodes : Flight(n, l)' # 0 <=> Flight(n, l) # 0 \/ n = c.node
    BY <1>4
  <2> QED BY <1>1, <1>5, <2>1 DEF Asked
<1>8. extra'[l].counter = Cardinality(Asked(l)') + (IF extra'[l].waiting THEN 1 ELSE 0)
  BY <1>1, <1>7 DEF InTransit, Leaves
<1>9. extra'[l].ret_st = "ACK_REPLY" =>
        /\ extra'[l].counter = 1 /\ extra'[l].pend_req.forward_to # NULL
        /\ \A n \in Nodes : Flow(Own(n, l))' = 0
  <2> SUFFICES ASSUME extra[l].ret_st = "ACK_REPLY"
               PROVE  /\ extra'[l].counter = 1 /\ extra'[l].pend_req.forward_to # NULL
                      /\ \A n \in Nodes : Flow(Own(n, l))' = 0
    BY DEF Leaves
  <2>1. \A n \in Nodes : Flow(Own(n, l)) = 0 /\ One(c, Own(n, l)) = 0
    BY <1>1, <1>3 DEF InTransit, Leaves
  <2> QED BY <1>1, <2>1 DEF InTransit, Leaves
<1>10. extra'[l].ret_st # "ACK_REPLY" => \A n \in Nodes : Flow(Fwd(n, l))' = 0
  <2>1. extra[l].ret_st # "ACK_REPLY" =>
          \A n \in Nodes : Flow(Fwd(n, l)) = 0 /\ One(c, Fwd(n, l)) = 0
    BY <1>1, <1>3 DEF InTransit, Leaves
  <2> QED BY <2>1 DEF Leaves
<1>11. req_partial' = l => Unsent(l)' # {}
  BY DEF Leaves
<1>12. InTransit(l)'
  BY <1>6, <1>8, <1>9, <1>10, <1>11 DEF InTransit
<1> QED BY <1>12 DEF TransOK, Leaves

LEMMA CoheAdded ==
  ASSUME ProtocolInv, SetsFinite, NEW c \in REQ, c.type = "COHE", AddReq(c),
         UNCHANGED <<queueVars, inVars>>, NEW S, NEW l \in Lines
  PROVE  DirFlow(S)' = DirFlow(S) + One(c, S) /\ DirHeld(S, l)' = DirHeld(S, l)
<1>1. Cnt(outCohe', S) = Cnt(outCohe, S) + One(c, S)
  BY AddCount
<1>2. Cnt(outRep', S) = Cnt(outRep, S)
  BY DEF AddReq
<1>3. UNCHANGED <<OutboundReqs, inRep, inReq, ReadyReqs, BufPend>>
  BY DEF queueVars, inVars
<1>4. DirHeld(S, l)' = DirHeld(S, l)
  BY <1>2, <1>3 DEF DirHeld
<1>5. Cnt(OutboundReqs', S) = Cnt(OutboundReqs, S) /\ Cnt(inRep', S) = Cnt(inRep, S)
  BY <1>3
<1>6. DirFlow(S)' = Cnt(outCohe', S) + Cnt(OutboundReqs', S) + Cnt(inRep', S)
  BY DEF DirFlow
<1>7. DirFlow(S) = Cnt(outCohe, S) + Cnt(OutboundReqs, S) + Cnt(inRep, S)
  BY DEF DirFlow
<1>8. /\ Cnt(outCohe, S) \in Nat /\ Cnt(OutboundReqs, S) \in Nat /\ Cnt(inRep, S) \in Nat
      /\ One(c, S) \in Nat
  BY Counts, OneType
<1> QED BY ONLY <1>1, <1>4, <1>5, <1>6, <1>7, <1>8

LEMMA SendKeeps ==
  ASSUME RequestInv, DirSend, UNCHANGED l2Vars
  PROVE  /\ TransInv'
         /\ \A n \in Nodes, k \in Lines : DirTok(n, k)' = DirTok(n, k)
<1>1. ProtocolInv /\ SetsFinite /\ TransInv
  BY DEF RequestInv, FlowInv
<1>2. ASSUME UNCHANGED <<extra, req_partial, queueVars, inVars, outVars>>
      PROVE  /\ TransInv'
             /\ \A n \in Nodes, k \in Lines : DirTok(n, k)' = DirTok(n, k)
  <2>1. \A l \in Lines : SameFlow(l)
    BY <1>2, DirectoryIdle, CachesIdle DEF SameFlow, Flow
  <2> QED BY <1>1, <1>2, <2>1, DirectoryIdle, AllKept DEF DirTok
<1>3. CASE DirSendCoheNull
  BY <1>2, <1>3 DEF DirSendCoheNull, YS__errmsg, lineVars
<1> PICK l : l = req_partial
  OBVIOUS
<1>4. ASSUME Sending
      PROVE  l \in Lines /\ extra[l] \in DirEP /\ PendReq(l, extra[l]) /\ InTransit(l)
  <2>1. l \in Lines
    BY <1>1, <1>4 DEF Sending, SendCohe, Offer, ProtocolInv, IInv, CtlInv, CtlTypeOK, PickedThere
  <2>2. extra[l] # NULL
    BY <1>4 DEF Sending
  <2>3. extra[l] \in DirEP /\ PendReq(l, extra[l])
    BY <1>1, <2>1, <2>2 DEF ProtocolInv, IInv, LineInv, LineTypeOK, Shapes, DirShapes, Kept
  <2> QED BY <1>1, <2>1, <2>2, <2>3 DEF TransInv, TransOK
(* What both kinds of COHE have in common.                                 *)
<1>5. ASSUME Sending, NEW c, Leaves(l, c), c.type = "COHE", AddReq(c),
             UNCHANGED <<queueVars, inVars>>,
             \A k \in Lines : k # l => extra'[k] = extra[k], req_partial' \in {NULL, l}
      PROVE  /\ TransInv'
             /\ \A S : \A k \in Lines : /\ DirFlow(S)' = DirFlow(S) + One(c, S)
                                        /\ DirHeld(S, k)' = DirHeld(S, k)
  <2>1. l \in Lines /\ c \in REQ /\ c.tag = l /\ NULL \notin Lines
    BY <1>4, <1>5, ShapesAreMessages, NullAssumption DEF Leaves
  <2>2. \A S : \A k \in Lines : /\ DirFlow(S)' = DirFlow(S) + One(c, S)
                                /\ DirHeld(S, k)' = DirHeld(S, k)
    BY <1>1, <1>5, <2>1, CoheAdded
  <2>3. ASSUME NEW S PROVE Flow(S)' = Flow(S) + One(c, S)
    <3>1. DirFlow(S)' = DirFlow(S) + One(c, S) /\ CacheFlow(S)' = CacheFlow(S)
      BY <2>1, <2>2, CachesIdle
    <3>2. DirFlow(S) \in Nat /\ CacheFlow(S) \in Nat /\ One(c, S) \in Nat
      BY <1>1, <2>1, Sums, OneType
    <3> QED BY <3>1, <3>2 DEF Flow
  <2>4. TransOK(l)'
    BY <1>1, <1>5, <2>1, <2>3, CoheLeaves DEF TransInv
  <2>5. ASSUME NEW k \in Lines, k # l PROVE SameFlow(k)
    <3>1. \A n \in Nodes : One(c, Own(n, k)) = 0 /\ One(c, Fwd(n, k)) = 0
      BY <2>1, <2>5, OtherLine
    <3>2. \A n \in Nodes : Flow(Own(n, k)) \in Nat /\ Flow(Fwd(n, k)) \in Nat
      BY <1>1, Sums
    <3> QED BY <2>3, <3>1, <3>2 DEF SameFlow
  <2>6. \A k \in Lines : k # l => (req_partial' = k <=> req_partial = k)
    BY <1>5, <2>1
  <2> QED BY <1>1, <1>5, <2>1, <2>2, <2>4, <2>5, <2>6, OneChanges
<1>6. CASE DirSendForward
  <2> PICK c : c = extra[l].pend_req
    OBVIOUS
  <2>1. Sending /\ c.type = "COHE" /\ UNCHANGED <<extra, queueVars, inVars>>
    BY <1>6 DEF DirSendForward, lineVars
  <2>2. l \in Lines /\ extra[l] \in DirEP /\ InTransit(l) /\ extra[l] # NULL
    BY <1>4, <2>1 DEF Sending
  <2>3. extra[l].ret_st = "ACK_REPLY" /\ c \in CoheMsg /\ c.tag = l
    BY <1>4, <2>1 DEF PendReq, PlainRequest, RequestMsg
  <2>4. CASE Full(outCohe)
    BY <1>2, <1>6, <2>1, <2>4 DEF DirSendForward
  <2>5. CASE ~Full(outCohe)
    <3>1. AddReq(c) /\ req_partial' = NULL /\ l # NULL
      BY <1>6, <2>2, <2>5, NullAssumption DEF DirSendForward
    <3>2. Unsent(l) = {c.node} /\ Unsent(l)' = {}
      BY <2>1, <2>3, <3>1 DEF Unsent
    <3>3. Leaves(l, c)
      BY <2>1, <2>2, <2>3, <3>1, <3>2 DEF Leaves, InTransit
    <3>4. /\ TransInv'
          /\ \A S : \A k \in Lines : /\ DirFlow(S)' = DirFlow(S) + One(c, S)
                                     /\ DirHeld(S, k)' = DirHeld(S, k)
      BY <1>5, <2>1, <3>1, <3>3
    <3>5. ASSUME NEW n \in Nodes, NEW k \in Lines PROVE DirTok(n, k)' = DirTok(n, k)
      <4>1. InExtra(n, k) = InExtra(n, k)' + One(c, Tok(n, k)) /\ InExtra(n, k)' \in Nat
        <5>1. CASE k = l
          <6>1. InExtra(n, k) = One(c, Tok(n, k))
            BY <2>2, <2>3, <5>1, ShapesAreMessages DEF InExtra, One, Tok
          <6>2. InExtra(n, k)' = 0
            BY <2>1, <3>1, <5>1 DEF InExtra
          <6> QED BY <6>1, <6>2, OneType
        <5>2. CASE k # l
          <6>1. InExtra(n, k)' = InExtra(n, k) /\ One(c, Tok(n, k)) = 0
            BY <2>1, <2>3, <3>1, <5>2, NullAssumption, OtherLine DEF InExtra
          <6> QED BY <6>1 DEF InExtra
        <5> QED BY <5>1, <5>2
      <4>2. /\ DirFlow(Tok(n, k))' = DirFlow(Tok(n, k)) + One(c, Tok(n, k))
            /\ DirHeld(Tok(n, k), k)' = DirHeld(Tok(n, k), k)
        BY <3>4
      <4>3. /\ DirFlow(Tok(n, k)) \in Nat /\ DirHeld(Tok(n, k), k) \in Nat
            /\ One(c, Tok(n, k)) \in Nat
        BY <1>1, Sums, OneType
      <4> QED BY <4>1, <4>2, <4>3 DEF DirTok
    <3> QED BY <3>4, <3>5
  <2> QED BY <2>4, <2>5
<1>7. CASE DirSendInval
  <2>1. Sending /\ UNCHANGED <<queueVars, inVars>> /\ extra[l].pend_req.type # "COHE"
    BY <1>7 DEF DirSendInval
  <2>2. l \in Lines /\ extra[l] \in DirEP /\ InTransit(l) /\ extra[l] # NULL
    BY <1>4, <2>1 DEF Sending
  <2>3. extra[l].ret_st # "ACK_REPLY" /\ extra[l].nack_st = "NACK_OK"
    BY <1>4, <2>1, <2>2 DEF PendReq, CoheMsg, DirEP
  <2>4. CASE Full(outCohe)
    BY <1>2, <1>7, <2>1, <2>4 DEF DirSendInval
  <2>5. CASE ~Full(outCohe)
    <3> PICK n \in extra[l].left :
          /\ AddReq(Invalidation(l, n))
          /\ extra' = [extra EXCEPT ![l].left = @ \ {n}]
          /\ req_partial' = IF extra[l].left = {n} THEN NULL ELSE req_partial
      BY <1>7, <2>5 DEF DirSendInval
    <3> PICK c : c = Invalidation(l, n)
      OBVIOUS
    <3>1. c \in CoheMsg /\ n \in Nodes
      BY <2>2, <2>3, InvalidationShape DEF DirEP
    <3>2. /\ c.tag = l /\ c.node = n /\ c.forward_to = NULL /\ ~c.isreq
          /\ c.type = "COHE"
      BY DEF Invalidation
    <3>3. /\ extra'[l] = [extra[l] EXCEPT !.left = @ \ {n}]
          /\ \A k \in Lines : k # l => extra'[k] = extra[k]
      BY <1>1, <2>2 DEF ProtocolInv, IInv, LineInv, LineTypeOK
    <3> PICK e : e = [extra[l] EXCEPT !.left = @ \ {n}]
      OBVIOUS
    <3>4. /\ e \in DirEP /\ e.left = extra[l].left \ {n} /\ e.counter = extra[l].counter
          /\ e.waiting = extra[l].waiting /\ e.ret_st = extra[l].ret_st
          /\ e.pend_req = extra[l].pend_req
      BY <2>2 DEF DirEP
    <3>5. extra'[l] # NULL
      BY <3>3, <3>4, ExtraAssumption
    <3>6. Unsent(l) = extra[l].left /\ Unsent(l)' = extra[l].left \ {n}
      BY <2>3, <3>3, <3>4 DEF Unsent
    <3>7. req_partial' = l => Unsent(l)' # {}
      <4> SUFFICES ASSUME extra[l].left \ {n} = {} PROVE req_partial' = NULL
        BY <2>2, <3>6, NullAssumption
      <4> QED OBVIOUS
    <3>8. Leaves(l, c)
      <4>1. /\ extra[l] # NULL /\ extra'[l] # NULL
            /\ c \in CoheMsg /\ c.tag = l /\ c.node \in Unsent(l)
            /\ Unsent(l)' = Unsent(l) \ {c.node}
        BY <2>2, <3>1, <3>2, <3>5, <3>6
      <4>2. c.forward_to # NULL <=> extra[l].ret_st = "ACK_REPLY"
        BY <2>3, <3>2
      <4>3. /\ extra'[l].counter = extra[l].counter /\ extra'[l].waiting = extra[l].waiting
            /\ extra'[l].ret_st = extra[l].ret_st /\ extra'[l].pend_req = extra[l].pend_req
        BY <3>3, <3>4
      <4> QED BY <3>7, <4>1, <4>2, <4>3 DEF Leaves
    <3>9. AddReq(c) /\ req_partial' \in {NULL, l}
      OBVIOUS
    <3>10. /\ TransInv'
           /\ \A S : \A k \in Lines : /\ DirFlow(S)' = DirFlow(S) + One(c, S)
                                      /\ DirHeld(S, k)' = DirHeld(S, k)
      BY <1>5, <2>1, <3>2, <3>3, <3>8, <3>9
    <3>11. ASSUME NEW i \in Nodes, NEW k \in Lines PROVE DirTok(i, k)' = DirTok(i, k)
      <4>1. InExtra(i, k)' = InExtra(i, k)
        <5>1. CASE k = l
          BY <2>1, <2>2, <3>3, <3>4, <3>5, <5>1 DEF InExtra
        <5>2. CASE k # l
          BY <3>3, <3>9, <5>2, NullAssumption DEF InExtra
        <5> QED BY <5>1, <5>2
      <4>2. One(c, Tok(i, k)) = 0
        BY <3>2, NoToken
      <4>3. /\ DirFlow(Tok(i, k))' = DirFlow(Tok(i, k))
            /\ DirHeld(Tok(i, k), k)' = DirHeld(Tok(i, k), k)
        BY <1>1, <3>10, <4>2, Sums
      <4> QED BY <4>1, <4>3 DEF DirTok
    <3> QED BY <3>10, <3>11
  <2> QED BY <2>4, <2>5
<1> QED BY <1>3, <1>6, <1>7 DEF DirSend
-----------------------------------------------------------------------------
(***************************************************************************)
(* An answer is served.                                                    *)
(***************************************************************************)
(* It answers a COHE of the transaction in flight, and its cache has been  *)
(* asked once.                                                             *)
Answering(l, m) ==
  /\ extra[l] # NULL /\ InTransit(l) /\ PendReq(l, extra[l])
  /\ m.node \in Nodes /\ m.node \notin Unsent(l) /\ Flight(m.node, l) = 1
  /\ m.forward_to # NULL <=> extra[l].ret_st = "ACK_REPLY"

LEMMA AnswerOf ==
  ASSUME RequestInv, ServeRep, NEW m \in AnswerMsg, m = Answer, m.req_type \notin WrbTypes,
         NEW l \in Lines, l = m.tag
  PROVE  Answering(l, m)
<1>1. ProtocolInv /\ SetsFinite /\ TransInv
  BY DEF RequestInv, FlowInv
<1>2. inRep \in Seq(REQ) /\ inRep # <<>> /\ m = Head(inRep)
  BY <1>1, QueueTypes DEF ServeRep, Answer, ProtocolInv, IInv, CtlInv, PickedThere
<1>3. m \in REQ /\ m.type = "COHE_REPLY" /\ m.node \in Nodes
  BY ShapesAreMessages DEF AnswerMsg, CoheRepMsg, REQ
<1>4. ASSUME NEW S PROVE Flow(S) >= One(m, S) /\ Flow(S) \in Nat
  <2>1. Cnt(inRep, S) >= One(m, S)
    BY <1>2, CntTail
  <2>2. One(m, S) \in Nat
    BY OneType
  <2> QED BY <1>1, <2>1, <2>2, Counts DEF Flow, DirFlow, CacheFlow
<1>5. /\ One(m, Own(m.node, l)) + One(m, Fwd(m.node, l)) = 1
      /\ m.forward_to = NULL => One(m, Fwd(m.node, l)) = 0
      /\ m.forward_to # NULL => One(m, Own(m.node, l)) = 0
  BY <1>3, ColourOf
<1>6. /\ Flow(Own(m.node, l)) \in Nat /\ Flow(Fwd(m.node, l)) \in Nat
      /\ Flow(Own(m.node, l)) >= One(m, Own(m.node, l))
      /\ Flow(Fwd(m.node, l)) >= One(m, Fwd(m.node, l))
      /\ One(m, Own(m.node, l)) \in Nat /\ One(m, Fwd(m.node, l)) \in Nat
  BY <1>4, OneType
<1>7. extra[l] # NULL
  <2> SUFFICES ASSUME Quiet(l) PROVE FALSE
    BY <1>1 DEF TransInv, TransOK
  <2>1. Flow(Own(m.node, l)) = 0 /\ Flow(Fwd(m.node, l)) = 0
    BY <1>3 DEF Quiet
  <2> QED BY <1>5, <1>6, <2>1
<1>8. InTransit(l) /\ PendReq(l, extra[l])
  BY <1>1, <1>7 DEF TransInv, TransOK, ProtocolInv, Shapes, DirShapes, Kept
<1>9. Flight(m.node, l) \in Nat /\ Flight(m.node, l) >= 1
  BY <1>5, <1>6 DEF Flight
<1>10. m.node \notin Unsent(l) /\ Flight(m.node, l) = 1
  BY <1>3, <1>8, <1>9 DEF InTransit
<1>11. m.forward_to # NULL <=> extra[l].ret_st = "ACK_REPLY"
  <2>1. ASSUME extra[l].ret_st = "ACK_REPLY", m.forward_to = NULL PROVE FALSE
    <3>1. Flow(Own(m.node, l)) = 0
      BY <1>3, <1>8, <2>1 DEF InTransit
    <3> QED BY <1>5, <1>6, <2>1, <3>1
  <2>2. ASSUME extra[l].ret_st # "ACK_REPLY", m.forward_to # NULL PROVE FALSE
    <3>1. Flow(Fwd(m.node, l)) = 0
      BY <1>3, <1>8, <2>2 DEF InTransit
    <3> QED BY <1>5, <1>6, <2>2, <3>1
  <2> QED BY <2>1, <2>2
<1> QED BY <1>3, <1>7, <1>8, <1>10, <1>11 DEF Answering

(* The last answer: nothing else is under way or to be sent.               *)
LEMMA LastAnswer ==
  ASSUME ProtocolInv, SetsFinite, NEW l \in Lines, NEW m, Answering(l, m),
         extra[l].counter = 1
  PROVE  /\ ~extra[l].waiting /\ Unsent(l) = {} /\ req_partial # l
         /\ \A n \in Nodes : n # m.node => Flight(n, l) = 0
<1>1. IsFiniteSet(Asked(l)) /\ Cardinality(Asked(l)) \in Nat
  BY AskedFinite DEF Answering
<1>2. m.node \in Asked(l) /\ m.node \in Nodes
  BY DEF Answering, Asked
<1>3. extra[l].counter = Cardinality(Asked(l)) + (IF extra[l].waiting THEN 1 ELSE 0)
  BY DEF Answering, InTransit
<1>4. Cardinality(Asked(l)) # 0
  BY <1>1, <1>2, FS_EmptySet
<1>5. Cardinality(Asked(l)) = 1 /\ ~extra[l].waiting
  BY <1>1, <1>3, <1>4
<1>6. Asked(l) = {m.node}
  <2>1. /\ IsFiniteSet(Asked(l) \ {m.node})
        /\ Cardinality(Asked(l) \ {m.node}) = Cardinality(Asked(l)) - 1
    BY <1>1, <1>2, FS_RemoveElement
  <2>2. Asked(l) \ {m.node} = {}
    BY <1>5, <2>1, FS_EmptySet
  <2> QED BY <1>2, <2>2
<1>7. Unsent(l) = {}
  BY <1>6 DEF Asked, Answering
<1>8. req_partial # l
  BY <1>7 DEF Answering, InTransit
<1> QED BY <1>5, <1>6, <1>7, <1>8 DEF Asked

(* What an answer does to the COHEs under way: it is gone, r is sent.      *)
LEMMA AnswerFlow ==
  ASSUME RequestInv, ServeRep, NEW m \in AnswerMsg, m = Answer, CommitRep, UNCHANGED l2Vars,
         NEW S, NEW b \in Int,
         Cnt(outCohe', S) + Cnt(OutboundReqs', S) = Cnt(outCohe, S) + Cnt(OutboundReqs, S) + b
  PROVE  Flow(S)' = Flow(S) - One(m, S) + b
<1>1. ProtocolInv /\ SetsFinite
  BY DEF RequestInv, FlowInv
<1> PICK l \in Lines : l = m.tag
  BY ShapesAreMessages DEF REQ
<1>2. Cnt(inRep', S) = Cnt(inRep, S) - One(m, S)
  BY <1>1, CommitRepCount
<1>3. CacheFlow(S)' = CacheFlow(S)
  BY CachesIdle
<1>4. /\ Cnt(outCohe, S) \in Nat /\ Cnt(OutboundReqs, S) \in Nat /\ Cnt(inRep, S) \in Nat
      /\ CacheFlow(S) \in Nat /\ One(m, S) \in Nat
  BY <1>1, Counts, Sums, OneType
<1>5. Flow(S)' = (Cnt(outCohe', S) + Cnt(OutboundReqs', S) + Cnt(inRep', S)) + CacheFlow(S)'
  BY DEF Flow, DirFlow
<1>6. Flow(S) = (Cnt(outCohe, S) + Cnt(OutboundReqs, S) + Cnt(inRep, S)) + CacheFlow(S)
  BY DEF Flow, DirFlow
<1>7. Cnt(outCohe', S) + Cnt(OutboundReqs', S) = Cnt(outCohe, S) + Cnt(OutboundReqs, S) + b
  OBVIOUS
<1>8. b \in Int
  OBVIOUS
<1>9. (Cnt(outCohe', S) + Cnt(OutboundReqs', S)) + Cnt(inRep', S)
        = Cnt(outCohe, S) + Cnt(OutboundReqs, S) + b + (Cnt(inRep, S) - One(m, S))
  BY ONLY <1>2, <1>7
<1> QED BY ONLY <1>3, <1>4, <1>5, <1>6, <1>8, <1>9

(* And to the requests: it, or the one that the transaction keeps, is put  *)
(* somewhere, if it is one.                                                *)
Turns(S, n, k, a, b, d) ==
  /\ Cnt(outCohe', S) + Cnt(OutboundReqs', S) + Cnt(outRep', S)
       = Cnt(outCohe, S) + Cnt(OutboundReqs, S) + Cnt(outRep, S) + a
  /\ Cnt(ReadyReqs', S) + Cnt(BufPend'[k], S) = Cnt(ReadyReqs, S) + Cnt(BufPend[k], S) + b
  /\ InExtra(n, k)' = InExtra(n, k) + d

LEMMA AnswerBalance ==
  ASSUME RequestInv, ServeRep, NEW m \in AnswerMsg, m = Answer, CommitRep, ProtocolInv',
         NEW n \in Nodes, NEW k \in Lines, NEW S, S = Tok(n, k), NEW a \in Int, NEW b \in Int,
         NEW d \in Int, Turns(S, n, k, a, b, d), a + b + d = One(m, S)
  PROVE  DirTok(n, k)' = DirTok(n, k)
<1>1. ProtocolInv /\ SetsFinite
  BY DEF RequestInv, FlowInv
<1>2. Cnt(inRep', S) = Cnt(inRep, S) - One(m, S) /\ inReq' = inReq
  BY <1>1, CommitRepCount
<1>3. /\ Cnt(outCohe', S) + Cnt(OutboundReqs', S) + Cnt(outRep', S)
           = Cnt(outCohe, S) + Cnt(OutboundReqs, S) + Cnt(outRep, S) + a
      /\ Cnt(ReadyReqs', S) + Cnt(BufPend'[k], S) = Cnt(ReadyReqs, S) + Cnt(BufPend[k], S) + b
      /\ InExtra(n, k)' = InExtra(n, k) + d
  BY DEF Turns
<1>4. /\ Cnt(outCohe, S) \in Nat /\ Cnt(OutboundReqs, S) \in Nat /\ Cnt(inRep, S) \in Nat
      /\ Cnt(inReq, S) \in Nat /\ Cnt(outRep, S) \in Nat /\ Cnt(ReadyReqs, S) \in Nat
      /\ Cnt(BufPend[k], S) \in Nat /\ InExtra(n, k) \in Nat /\ One(m, S) \in Nat
  BY <1>1, Counts, OneType DEF InExtra
<1>5. DirTok(n, k)' = (Cnt(outCohe', S) + Cnt(OutboundReqs', S) + Cnt(inRep', S))
        + (Cnt(inReq', S) + Cnt(outRep', S) + Cnt(ReadyReqs', S) + Cnt(BufPend'[k], S))
        + InExtra(n, k)'
  BY DEF DirTok, DirFlow, DirHeld
<1>6. DirTok(n, k) = (Cnt(outCohe, S) + Cnt(OutboundReqs, S) + Cnt(inRep, S))
        + (Cnt(inReq, S) + Cnt(outRep, S) + Cnt(ReadyReqs, S) + Cnt(BufPend[k], S))
        + InExtra(n, k)
  BY DEF DirTok, DirFlow, DirHeld
<1>7. Cnt(inReq', S) = Cnt(inReq, S)
  BY <1>2
<1>8. a + b + d = One(m, S) /\ a \in Int /\ b \in Int /\ d \in Int
  OBVIOUS
<1>9. (Cnt(outCohe', S) + Cnt(OutboundReqs', S) + Cnt(inRep', S))
        + (Cnt(inReq', S) + Cnt(outRep', S) + Cnt(ReadyReqs', S) + Cnt(BufPend'[k], S))
      = (Cnt(outCohe', S) + Cnt(OutboundReqs', S) + Cnt(outRep', S))
        + (Cnt(ReadyReqs', S) + Cnt(BufPend'[k], S)) + Cnt(inRep', S) + Cnt(inReq', S)
  <2>1. /\ outCohe' \in Seq(REQ) /\ OutboundReqs' \in Seq(REQ) /\ inRep' \in Seq(REQ)
        /\ inReq' \in Seq(REQ) /\ outRep' \in Seq(REQ) /\ ReadyReqs' \in Seq(REQ)
        /\ BufPend' \in [Lines -> Seq(REQ)]
    BY DEF ProtocolInv, IInv, QueueInv, QueueTypeOK, PortTypeOK
  <2>2. BufPend'[k] \in Seq(REQ)
    BY <2>1
  <2>3. /\ Cnt(outCohe', S) \in Nat /\ Cnt(OutboundReqs', S) \in Nat /\ Cnt(inRep', S) \in Nat
        /\ Cnt(inReq', S) \in Nat /\ Cnt(outRep', S) \in Nat /\ Cnt(ReadyReqs', S) \in Nat
        /\ Cnt(BufPend'[k], S) \in Nat
    BY <2>1, <2>2, WhereFinite
  <2> QED BY ONLY <2>3
<1> QED BY ONLY <1>2, <1>3, <1>4, <1>5, <1>6, <1>7, <1>8, <1>9

(* The line settles, with the last answer to its transaction.              *)
LEMMA TransSettles ==
  ASSUME RequestInv, ServeRep, NEW m \in AnswerMsg, m = Answer, m.req_type \notin WrbTypes,
         NEW l \in Lines, l = m.tag, Answering(l, m), extra[l].counter = 1,
         Settle(l), req_partial' = req_partial,
         \A S : S \cap ReplyMsg = {} => Flow(S)' = Flow(S) - One(m, S)
  PROVE  TransInv'
<1>1. ProtocolInv /\ SetsFinite /\ TransInv
  BY DEF RequestInv, FlowInv
<1>2. extra' = [extra EXCEPT ![l] = NULL] /\ extra \in [Lines -> DirEP \cup {NULL}]
  BY <1>1 DEF Settle, ProtocolInv, IInv, LineInv, LineTypeOK
<1>3. \A n \in Nodes, k \in Lines :
        Own(n, k) \cap ReplyMsg = {} /\ Fwd(n, k) \cap ReplyMsg = {}
  BY DEF Own, Fwd, CoheAt, ReplyMsg
<1>4. \A n \in Nodes, k \in Lines :
        /\ Flow(Own(n, k))' = Flow(Own(n, k)) - One(m, Own(n, k))
        /\ Flow(Fwd(n, k))' = Flow(Fwd(n, k)) - One(m, Fwd(n, k))
        /\ Flow(Own(n, k)) \in Nat /\ Flow(Fwd(n, k)) \in Nat
  BY <1>1, <1>3, Sums
<1>5. /\ req_partial # l
      /\ \A n \in Nodes : n # m.node => Flight(n, l) = 0
  BY <1>1, LastAnswer
<1>6. m \in REQ /\ m.type \in {"COHE", "COHE_REPLY"}
  BY ShapesAreMessages DEF AnswerMsg, CoheRepMsg
<1>7. \A n \in Nodes : Flow(Own(n, l))' = 0 /\ Flow(Fwd(n, l))' = 0
  <2> TAKE n \in Nodes
  <2>1. /\ One(m, Own(n, l)) + One(m, Fwd(n, l)) = IF n = m.node THEN 1 ELSE 0
        /\ m.forward_to = NULL => One(m, Fwd(n, l)) = 0
        /\ m.forward_to # NULL => One(m, Own(n, l)) = 0
        /\ One(m, Own(n, l)) \in Nat /\ One(m, Fwd(n, l)) \in Nat
    BY <1>6, ColourOf, OneType
  <2>2. CASE n # m.node
    <3>1. Flow(Own(n, l)) + Flow(Fwd(n, l)) = 0
      BY <1>5, <2>2 DEF Flight
    <3> QED BY <1>4, <2>1, <2>2, <3>1
  <2>3. CASE n = m.node
    <3>1. Flow(Own(n, l)) + Flow(Fwd(n, l)) = 1
      BY <2>3 DEF Answering, Flight
    <3>2. m.forward_to # NULL => Flow(Own(n, l)) = 0
      BY DEF Answering, InTransit
    <3>3. m.forward_to = NULL => Flow(Fwd(n, l)) = 0
      BY DEF Answering, InTransit
    <3> QED BY <1>4, <2>1, <2>3, <3>1, <3>2, <3>3
  <2> QED BY <2>2, <2>3
<1>8. TransOK(l)'
  <2>1. extra'[l] = NULL /\ req_partial' # l
    BY <1>2, <1>5
  <2> QED BY <1>7, <2>1 DEF TransOK, Quiet
<1>9. ASSUME NEW k \in Lines, k # l PROVE SameFlow(k) /\ extra'[k] = extra[k]
  <2>1. \A n \in Nodes : One(m, Own(n, k)) = 0 /\ One(m, Fwd(n, k)) = 0
    BY <1>9, OtherLine
  <2> QED BY <1>2, <1>4, <1>9, <2>1 DEF SameFlow
<1> QED BY <1>1, <1>8, <1>9, OneChanges

(* It is not the last.                                                     *)
LEMMA TransAck ==
  ASSUME RequestInv, ServeRep, NEW m \in AnswerMsg, m = Answer, m.req_type \notin WrbTypes,
         NEW l \in Lines, l = m.tag, Answering(l, m), extra[l].counter # 1,
         extra' = [extra EXCEPT ![l].counter = @ - 1], req_partial' = req_partial,
         \A S : Flow(S)' = Flow(S) - One(m, S)
  PROVE  TransInv'
<1>1. ProtocolInv /\ SetsFinite /\ TransInv
  BY DEF RequestInv, FlowInv
<1>2. extra \in [Lines -> DirEP \cup {NULL}] /\ extra[l] # NULL /\ InTransit(l)
  BY <1>1 DEF Answering, ProtocolInv, IInv, LineInv, LineTypeOK
<1>3. /\ extra'[l] = [extra[l] EXCEPT !.counter = @ - 1]
      /\ \A k \in Lines : k # l => extra'[k] = extra[k]
  BY <1>2
<1>4. /\ extra'[l].counter = extra[l].counter - 1 /\ extra'[l].waiting = extra[l].waiting
      /\ extra'[l].ret_st = extra[l].ret_st /\ extra'[l].left = extra[l].left
      /\ extra'[l].pend_req = extra[l].pend_req /\ extra[l].counter \in Nat
  BY <1>2, <1>3 DEF DirEP
<1>5. extra'[l] # NULL
  <2>1. extra[l].counter >= 1 /\ extra[l] \in DirEP
    BY <1>1, <1>2 DEF ProtocolInv, IInv, LineInv, CounterOK
  <2>2. extra'[l] \in DirEP
    BY <1>3, <1>4, <2>1 DEF DirEP
  <2> QED BY <2>2, ExtraAssumption
<1>6. extra[l].ret_st # "ACK_REPLY" /\ m.forward_to = NULL
  BY <1>2 DEF InTransit, Answering
<1>7. m \in REQ /\ m.type \in {"COHE", "COHE_REPLY"}
  BY ShapesAreMessages DEF AnswerMsg, CoheRepMsg
<1>8. ASSUME NEW n \in Nodes
      PROVE  /\ Flow(Fwd(n, l))' = 0
             /\ Flight(n, l)' = IF n = m.node THEN 0 ELSE Flight(n, l)
  <2>1. /\ One(m, Own(n, l)) + One(m, Fwd(n, l)) = IF n = m.node THEN 1 ELSE 0
        /\ One(m, Fwd(n, l)) = 0
    BY <1>6, <1>7, ColourOf
  <2>2. Flow(Own(n, l)) \in Nat /\ Flow(Fwd(n, l)) = 0 /\ One(m, Own(n, l)) \in Nat
    BY <1>1, <1>2, <1>6, Sums, OneType DEF InTransit
  <2>3. Flow(Own(n, l))' = Flow(Own(n, l)) - One(m, Own(n, l)) /\ Flow(Fwd(n, l))' = 0
    BY <2>1, <2>2
  <2>4. n = m.node => Flight(n, l) = 1
    BY DEF Answering
  <2> QED BY <2>1, <2>2, <2>3, <2>4 DEF Flight
<1>9. Unsent(l)' = Unsent(l) /\ m.node \notin Unsent(l) /\ m.node \in Nodes
  BY <1>4 DEF Unsent, Answering
<1>10. Asked(l)' = Asked(l) \ {m.node}
  BY <1>8, <1>9 DEF Asked
<1>11. Cardinality(Asked(l)') = Cardinality(Asked(l)) - 1 /\ Cardinality(Asked(l)) \in Nat
  <2> PICK A : A = Asked(l)
    OBVIOUS
  <2>1. IsFiniteSet(A) /\ Cardinality(A) \in Nat
    BY <1>1, <1>2, AskedFinite
  <2>2. m.node \in A
    BY <1>9 DEF Asked, Answering
  <2>3. Cardinality(A \ {m.node}) = Cardinality(A) - 1
    BY <2>1, <2>2, FS_RemoveElement
  <2> QED BY <1>10, <2>1, <2>3
<1>12. extra'[l].counter = Cardinality(Asked(l)') + (IF extra'[l].waiting THEN 1 ELSE 0)
  <2>1. extra[l].counter = Cardinality(Asked(l)) + (IF extra[l].waiting THEN 1 ELSE 0)
    BY <1>2 DEF InTransit
  <2> QED BY <1>4, <1>11, <2>1
<1>13. \A n \in Nodes : Flight(n, l)' <= IF n \in Unsent(l)' THEN 0 ELSE 1
  <2> TAKE n \in Nodes
  <2>1. Flight(n, l) <= IF n \in Unsent(l) THEN 0 ELSE 1
    BY <1>2 DEF InTransit
  <2> QED BY <1>8, <1>9, <2>1
<1>14. InTransit(l)'
  BY <1>2, <1>4, <1>6, <1>8, <1>9, <1>12, <1>13 DEF InTransit
<1>15. ASSUME NEW k \in Lines, k # l PROVE SameFlow(k) /\ extra'[k] = extra[k]
  <2>1. \A n \in Nodes : One(m, Own(n, k)) = 0 /\ One(m, Fwd(n, k)) = 0
    BY <1>15, OtherLine
  <2>2. \A n \in Nodes : Flow(Own(n, k)) \in Nat /\ Flow(Fwd(n, k)) \in Nat
    BY <1>1, Sums
  <2> QED BY <1>3, <1>15, <2>1, <2>2 DEF SameFlow
<1> QED BY <1>1, <1>5, <1>14, <1>15, OneChanges DEF TransOK

(* A line that settles keeps no request.                                   *)
LEMMA SettledExtra ==
  ASSUME ProtocolInv, NEW l \in Lines, Settle(l), req_partial' = req_partial,
         NEW n \in Nodes, NEW k \in Lines
  PROVE  InExtra(n, k)' = IF k = l THEN 0 ELSE InExtra(n, k)
<1>1. extra' = [extra EXCEPT ![l] = NULL] /\ extra \in [Lines -> DirEP \cup {NULL}]
  BY DEF Settle, ProtocolInv, IInv, LineInv, LineTypeOK
<1>2. CASE k = l
  BY <1>1, <1>2 DEF InExtra
<1>3. CASE k # l
  <2>1. extra'[k] = extra[k]
    BY <1>1, <1>3
  <2> QED BY <1>3, <2>1 DEF InExtra
<1> QED BY <1>2, <1>3

(* No COHE leaves: what is sent, if anything, is a reply.                  *)
LEMMA AnsweredFlow ==
  ASSUME RequestInv, ServeRep, NEW m \in AnswerMsg, m = Answer, CommitRep, UNCHANGED l2Vars,
         (\E r \in ReplyMsg : SendOrQueue(r)) \/ UNCHANGED <<OutboundReqs, outVars>>
  PROVE  \A S : S \cap ReplyMsg = {} => Flow(S)' = Flow(S) - One(m, S)
<1> SUFFICES ASSUME NEW S, S \cap ReplyMsg = {} PROVE Flow(S)' = Flow(S) - One(m, S)
  OBVIOUS
<1>1. ProtocolInv /\ SetsFinite
  BY DEF RequestInv, FlowInv
<1> PICK l \in Lines : l = m.tag
  BY ShapesAreMessages DEF REQ
<1>2. /\ Cnt(outCohe, S) \in Nat /\ Cnt(OutboundReqs, S) \in Nat /\ Flow(S) \in Nat
      /\ One(m, S) \in Nat
  BY <1>1, Counts, Sums, OneType
<1> PICK z \in Int : z = 0
  OBVIOUS
<1>3. Cnt(outCohe', S) + Cnt(OutboundReqs', S) = Cnt(outCohe, S) + Cnt(OutboundReqs, S) + z
  <2>1. CASE \E r \in ReplyMsg : SendOrQueue(r)
    <3> PICK r \in ReplyMsg : SendOrQueue(r)
      BY <2>1
    <3>1. r \in REQ /\ r \notin S /\ One(r, S) = 0
      BY ShapesAreMessages DEF One
    <3>2. Cnt(outCohe', S) + Cnt(OutboundReqs', S)
            = Cnt(outCohe, S) + Cnt(OutboundReqs, S) + One(r, S)
      BY <1>1, <3>1, SendCount
    <3> QED BY <3>1, <3>2
  <2>2. CASE UNCHANGED <<OutboundReqs, outVars>>
    BY <1>2, <2>2 DEF outVars
  <2> QED BY <2>1, <2>2
<1>4. Flow(S)' = Flow(S) - One(m, S) + z
  BY <1>3, AnswerFlow
<1> QED BY <1>2, <1>4

(* The request that comes with the last answer, and the one that the       *)
(* transaction has kept.                                                   *)
LEMMA CoheRepKeeps ==
  ASSUME RequestInv, DirCoheRep, ProtocolInv', UNCHANGED l2Vars
  PROVE  /\ TransInv'
         /\ \A n \in Nodes, k \in Lines : DirTok(n, k)' = DirTok(n, k)
<1>1. ProtocolInv /\ SetsFinite /\ TransInv
  BY DEF RequestInv, FlowInv
<1>2. CASE DirCoheRepError
  <2>1. UNCHANGED <<extra, req_partial, queueVars, inVars, outVars>>
    BY <1>2 DEF DirCoheRepError, YS__errmsg, lineVars
  <2>2. \A l \in Lines : SameFlow(l)
    BY <2>1, DirectoryIdle, CachesIdle DEF SameFlow, Flow
  <2> QED BY <1>1, <2>1, <2>2, DirectoryIdle, AllKept DEF DirTok
<1> SUFFICES ASSUME ~DirCoheRepError
             PROVE  /\ TransInv'
                    /\ \A n \in Nodes, k \in Lines : DirTok(n, k)' = DirTok(n, k)
  BY <1>2
<1>3. /\ ServeRep /\ CommitRep /\ AnswerError(Answer) = "none" /\ req_partial' = req_partial
      /\ Answer.req_type \notin WrbTypes
  BY DEF DirCoheRep, DirNackRace, DirNackRetry, DirNackPendResend, DirAck, DirAckReply,
     DirAckForward, Answers
<1>4. IInv /\ DirShapes
  BY <1>1 DEF ProtocolInv, Shapes
<1> PICK m \in AnswerMsg : m = Answer
  BY <1>3, <1>4, AnswerShape
<1> PICK l \in Lines : l = m.tag
  BY <1>3, <1>4, AnswerShape
<1>5. Answering(l, m)
  BY <1>3, AnswerOf
<1>6. m \in REQ
  BY ShapesAreMessages
<1>7. ASSUME NEW n \in Nodes, NEW k \in Lines
      PROVE  /\ One(m, Tok(n, k)) \in Int /\ InExtra(n, k) \in Int
             /\ Cnt(outCohe, Tok(n, k)) \in Nat /\ Cnt(OutboundReqs, Tok(n, k)) \in Nat
             /\ Cnt(outRep, Tok(n, k)) \in Nat /\ Cnt(ReadyReqs, Tok(n, k)) \in Nat
             /\ Cnt(BufPend[k], Tok(n, k)) \in Nat /\ Cnt(<<>>, Tok(n, k)) = 0
  BY <1>1, Counts, OneType, CntEmpty DEF InExtra
(* A forwarded request has left its transaction.                           *)
<1>8. m.forward_to # NULL =>
        extra[l].counter = 1 /\ \A n \in Nodes : InExtra(n, l) = 0
  <2> SUFFICES ASSUME m.forward_to # NULL
               PROVE  extra[l].counter = 1 /\ \A n \in Nodes : InExtra(n, l) = 0
    OBVIOUS
  <2>1. extra[l].ret_st = "ACK_REPLY" /\ extra[l].counter = 1
    BY <1>5 DEF Answering, InTransit
  <2>2. req_partial # l
    BY <1>1, <1>5, <2>1, LastAnswer
  <2>3. extra[l].pend_req \in CoheMsg
    BY <1>5, <2>1 DEF Answering, PendReq
  <2>4. extra[l].pend_req.type = "COHE"
    BY <2>3 DEF CoheMsg
  <2> QED BY <2>1, <2>2, <2>4 DEF InExtra
(* The request of a NACK is sent back, to its processor or to the queue.   *)
<1>9. CASE DirNackRace
  <2>1. m.reply = "NACK" /\ m.isreq /\ m.forward_to # NULL
    BY <1>3, <1>9, AnswerSays DEF DirNackRace, Answers, AnswerMsg
  <2> PICK r \in ReplyMsg :
        r = [m EXCEPT !.type = "REPLY", !.reply = "RAR",
                      !.req_type = FixForwardRARs(m.req_type), !.nack_st = "NACK_OK",
                      !.node = m.forward_to, !.forward_to = NULL]
    BY <2>1, RefusedCohe
  <2>2. Settle(l) /\ DirCheckBuf(l, <<>>) /\ SendOrQueue(r)
    BY <1>9, <2>1 DEF DirNackRace
  <2>3. r \in REQ /\ SameRequest(m, r)
    BY <1>6, <2>1, ShapesAreMessages DEF SameRequest, Owner, REQ
  <2>4. TransInv'
    BY <1>3, <1>5, <1>8, <2>1, <2>2, AnsweredFlow, TransSettles
  <2>5. ASSUME NEW n \in Nodes, NEW k \in Lines PROVE DirTok(n, k)' = DirTok(n, k)
    <3> PICK S : S = Tok(n, k)
      OBVIOUS
    <3> PICK a \in Int : a = One(m, S)
      BY <1>7
    <3> PICK z \in Int : z = 0
      OBVIOUS
    <3>1. One(r, S) = a
      BY <2>3, SameTok
    <3>2. Cnt(outCohe', S) + Cnt(OutboundReqs', S) + Cnt(outRep', S)
            = Cnt(outCohe, S) + Cnt(OutboundReqs, S) + Cnt(outRep, S) + a
      BY <1>1, <2>2, <2>3, <3>1, SendCount
    <3>3. Cnt(ReadyReqs', S) + Cnt(BufPend'[k], S)
            = Cnt(ReadyReqs, S) + Cnt(BufPend[k], S) + z
      <4>1. <<>> \in Seq(REQ)
        OBVIOUS
      <4>2. Cnt(ReadyReqs', S) + Cnt(BufPend'[k], S)
              = Cnt(ReadyReqs, S) + Cnt(BufPend[k], S) + Cnt(<<>>, S)
        BY <1>1, <2>2, <4>1, ReviveCount
      <4> QED BY <1>7, <4>2
    <3>4. InExtra(n, k)' = InExtra(n, k) + z
      <4>1. InExtra(n, k)' = IF k = l THEN 0 ELSE InExtra(n, k)
        BY <1>1, <1>3, <2>2, SettledExtra
      <4>2. k = l => InExtra(n, k) = 0
        BY <1>8, <2>1
      <4> QED BY <1>7, <4>1, <4>2
    <3>5. Turns(S, n, k, a, z, z) /\ a + z + z = One(m, S)
      BY <3>2, <3>3, <3>4 DEF Turns
    <3> QED BY <1>3, <3>5, AnswerBalance
  <2> QED BY <2>4, <2>5
<1>10. CASE DirNackRetry
  <2>1. m.reply # "REPLY" /\ m.forward_to # NULL
    BY <1>3, <1>10, AnswerSays DEF DirNackRetry, Answers
  <2> PICK r \in PlainRequest :
        r = [m EXCEPT !.type = "REQUEST", !.reply = "REPLY",
                      !.req_type = FixForwardRARs(m.req_type), !.nack_st = "NACK_OK",
                      !.node = m.forward_to, !.forward_to = NULL]
    BY <2>1, RefusedCohe
  <2>2. Settle(l) /\ DirCheckBuf(l, <<r>>) /\ UNCHANGED <<OutboundReqs, outVars>>
    BY <1>10 DEF DirNackRetry
  <2>3. r \in REQ /\ SameRequest(m, r)
    BY <1>6, <2>1, ShapesAreMessages DEF SameRequest, Owner, REQ
  <2>4. TransInv'
    BY <1>3, <1>5, <1>8, <2>1, <2>2, AnsweredFlow, TransSettles
  <2>5. ASSUME NEW n \in Nodes, NEW k \in Lines PROVE DirTok(n, k)' = DirTok(n, k)
    <3> PICK S : S = Tok(n, k)
      OBVIOUS
    <3> PICK a \in Int : a = One(m, S)
      BY <1>7
    <3> PICK z \in Int : z = 0
      OBVIOUS
    <3>1. Cnt(<<r>>, S) = a
      BY <2>3, SameTok, CntSingle
    <3>2. Cnt(outCohe', S) + Cnt(OutboundReqs', S) + Cnt(outRep', S)
            = Cnt(outCohe, S) + Cnt(OutboundReqs, S) + Cnt(outRep, S) + z
      BY <1>7, <2>2 DEF outVars
    <3>3. Cnt(ReadyReqs', S) + Cnt(BufPend'[k], S)
            = Cnt(ReadyReqs, S) + Cnt(BufPend[k], S) + a
      <4>2. <<r>> \in Seq(REQ)
        BY <2>3
      <4> PICK q \in Seq(REQ) : q = <<r>>
        BY <4>2
      <4>1. Cnt(ReadyReqs', S) + Cnt(BufPend'[k], S)
              = Cnt(ReadyReqs, S) + Cnt(BufPend[k], S) + Cnt(q, S)
        BY <1>1, <2>2, ReviveCount
      <4> QED BY <3>1, <4>1
    <3>4. InExtra(n, k)' = InExtra(n, k) + z
      <4>1. InExtra(n, k)' = IF k = l THEN 0 ELSE InExtra(n, k)
        BY <1>1, <1>3, <2>2, SettledExtra
      <4>2. k = l => InExtra(n, k) = 0
        BY <1>8, <2>1
      <4> QED BY <1>7, <4>1, <4>2
    <3>5. Turns(S, n, k, z, a, z) /\ z + a + z = One(m, S)
      BY <3>2, <3>3, <3>4 DEF Turns
    <3> QED BY <1>3, <3>5, AnswerBalance
  <2> QED BY <2>4, <2>5
(* A COHE that is refused with NACK_PEND is sent again.                    *)
<1>11. CASE DirNackPendResend
  <2>1. m.reply = "NACK_PEND"
    BY <1>3, <1>11, AnswerSays DEF DirNackPendResend, Answers
  <2> PICK r \in CoheMsg : r = [m EXCEPT !.type = "COHE"]
    BY <2>1, RefusedCohe
  <2>2. SendOrQueue(r) /\ UNCHANGED <<extra, BufPend, ReadyReqs>>
    BY <1>11 DEF DirNackPendResend, lineVars
  <2>3. r \in REQ /\ r.type = "COHE" /\ SameRequest(m, r) /\ SameCohe(m, r)
    BY <1>3, <1>6, ShapesAreMessages
    DEF SameRequest, SameCohe, Owner, REQ, AnswerMsg, CoheRepMsg
  <2>4. ASSUME NEW S, One(r, S) = One(m, S) PROVE Flow(S)' = Flow(S)
    <3> PICK b \in Int : b = One(r, S)
      BY OneType
    <3>1. Cnt(outCohe', S) + Cnt(OutboundReqs', S) = Cnt(outCohe, S) + Cnt(OutboundReqs, S) + b
      BY <1>1, <2>2, <2>3, SendCount
    <3>2. Flow(S)' = Flow(S) - One(m, S) + b
      BY <1>3, <3>1, AnswerFlow
    <3>3. Flow(S) \in Nat
      BY <1>1, Sums
    <3> QED BY <2>4, <3>2, <3>3
  <2>5. \A k \in Lines : SameFlow(k)
    BY <2>3, <2>4, SameColour DEF SameFlow
  <2>6. TransInv'
    BY <1>1, <1>3, <2>2, <2>5, AllKept
  <2>7. ASSUME NEW n \in Nodes, NEW k \in Lines PROVE DirTok(n, k)' = DirTok(n, k)
    <3> PICK S : S = Tok(n, k)
      OBVIOUS
    <3> PICK a \in Int : a = One(m, S)
      BY <1>7
    <3> PICK z \in Int : z = 0
      OBVIOUS
    <3>1. One(r, S) = a
      BY <2>3, SameTok
    <3>2. Cnt(outCohe', S) + Cnt(OutboundReqs', S) + Cnt(outRep', S)
            = Cnt(outCohe, S) + Cnt(OutboundReqs, S) + Cnt(outRep, S) + a
      BY <1>1, <2>2, <2>3, <3>1, SendCount
    <3>3. Cnt(ReadyReqs', S) + Cnt(BufPend'[k], S)
            = Cnt(ReadyReqs, S) + Cnt(BufPend[k], S) + z
      BY <1>7, <2>2
    <3>4. InExtra(n, k)' = InExtra(n, k) + z
      BY <1>3, <1>7, <2>2 DEF InExtra
    <3>5. Turns(S, n, k, a, z, z) /\ a + z + z = One(m, S)
      BY <3>2, <3>3, <3>4 DEF Turns
    <3> QED BY <1>3, <3>5, AnswerBalance
  <2> QED BY <2>6, <2>7
(* An acknowledgment is nobody's request.                                  *)
<1>12. ASSUME AnswerClass(m) = "ACK" PROVE ~m.isreq
  <2> SUFFICES ASSUME m.isreq PROVE FALSE
    OBVIOUS
  <2>1. m.forward_to # NULL /\ m.reply \in {"NACK", "NACK_PEND"}
    BY <1>6 DEF AnswerMsg, CoheRepMsg, REQ
  <2>2. extra[l].nack_st = "NACK_NOK"
    BY <1>5, <2>1 DEF Answering, PendReq
  <2> QED BY <1>12, <2>1, <2>2 DEF AnswerClass
<1>13. CASE DirAck
  <2>1. /\ extra[l].counter # 1 /\ extra' = [extra EXCEPT ![l].counter = @ - 1]
        /\ UNCHANGED <<OutboundReqs, outVars, BufPend, ReadyReqs>> /\ ~m.isreq
    BY <1>12, <1>13 DEF DirAck, Answers, queueVars
  <2>2. ASSUME NEW S PROVE Flow(S)' = Flow(S) - One(m, S)
    <3> PICK z \in Int : z = 0
      OBVIOUS
    <3>1. /\ Cnt(outCohe, S) \in Nat /\ Cnt(OutboundReqs, S) \in Nat /\ Flow(S) \in Nat
          /\ One(m, S) \in Nat
      BY <1>1, Counts, Sums, OneType
    <3>2. Cnt(outCohe', S) + Cnt(OutboundReqs', S) = Cnt(outCohe, S) + Cnt(OutboundReqs, S) + z
      BY <2>1, <3>1 DEF outVars
    <3>3. Flow(S)' = Flow(S) - One(m, S) + z
      BY <1>3, <3>2, AnswerFlow
    <3> QED BY <3>1, <3>3
  <2>3. TransInv'
    BY <1>3, <1>5, <2>1, <2>2, TransAck
  <2>4. ASSUME NEW n \in Nodes, NEW k \in Lines PROVE DirTok(n, k)' = DirTok(n, k)
    <3> PICK S : S = Tok(n, k)
      OBVIOUS
    <3> PICK z \in Int : z = 0
      OBVIOUS
    <3>1. One(m, S) = z
      BY <2>1, NoToken
    <3>2. Cnt(outCohe', S) + Cnt(OutboundReqs', S) + Cnt(outRep', S)
            = Cnt(outCohe, S) + Cnt(OutboundReqs, S) + Cnt(outRep, S) + z
      BY <1>7, <2>1 DEF outVars
    <3>3. Cnt(ReadyReqs', S) + Cnt(BufPend'[k], S)
            = Cnt(ReadyReqs, S) + Cnt(BufPend[k], S) + z
      BY <1>7, <2>1
    <3>4. InExtra(n, k)' = InExtra(n, k) + z
      <4>1. extra \in [Lines -> DirEP \cup {NULL}] /\ extra[l] # NULL
        BY <1>1, <1>5 DEF Answering, ProtocolInv, IInv, LineInv, LineTypeOK
      <4>3. CASE k # l
        BY <1>3, <1>7, <2>1, <4>1, <4>3 DEF InExtra
      <4>4. CASE k = l
        <5>1. extra[l] \in DirEP /\ extra'[l] = [extra[l] EXCEPT !.counter = @ - 1]
          BY <2>1, <4>1
        <5>2. extra'[l].pend_req = extra[l].pend_req
          BY <5>1 DEF DirEP
        <5>3. extra'[l] \in DirEP
          <6>1. extra[l].counter \in Nat /\ extra[l].counter >= 1
            BY <1>1, <4>1, <5>1 DEF ProtocolInv, IInv, LineInv, CounterOK, DirEP
          <6> QED BY <5>1, <6>1 DEF DirEP
        <5>4. extra'[l] # NULL
          BY <5>3, ExtraAssumption
        <5> QED BY <1>3, <1>7, <4>1, <4>4, <5>2, <5>4 DEF InExtra
      <4> QED BY <4>3, <4>4
    <3>5. Turns(S, n, k, z, z, z) /\ z + z + z = One(m, S)
      BY <3>1, <3>2, <3>3, <3>4 DEF Turns
    <3> QED BY <1>3, <3>5, AnswerBalance
  <2> QED BY <2>3, <2>4
(* With the last acknowledgment the request that was kept is answered.     *)
<1>14. CASE DirAckReply
  <2> PICK p : p = extra[l].pend_req
    OBVIOUS
  <2> PICK r : r = [p EXCEPT !.type = "REPLY", !.reply = "REPLY"]
    OBVIOUS
  <2>1. /\ extra[l].counter = 1 /\ extra[l].ret_st # "ACK_REPLY" /\ Settle(l)
        /\ DirCheckBuf(l, <<>>) /\ SendOrQueue(r) /\ ~m.isreq
    BY <1>12, <1>14 DEF DirAckReply, Answers
  <2>2. p \in PlainRequest /\ p.req_type \in ReqTypes \cup DataTypes /\ p.type = "REQUEST"
        /\ p \in REQ /\ p.tag = l
    BY <1>5, <2>1, ShapesAreMessages DEF Answering, PendReq, PlainRequest, RequestMsg
  <2>3. r \in ReplyMsg /\ r \in REQ /\ SameRequest(p, r)
    BY <2>2, AnsweredRequest, AnsweredAs, ShapesAreMessages
  <2>4. TransInv'
    BY <1>3, <1>5, <2>1, <2>3, AnsweredFlow, TransSettles
  <2>5. ASSUME NEW n \in Nodes, NEW k \in Lines PROVE DirTok(n, k)' = DirTok(n, k)
    <3> PICK S : S = Tok(n, k)
      OBVIOUS
    <3> PICK a \in Int : a = One(p, S)
      BY OneType
    <3> PICK d \in Int : d = 0 - a
      OBVIOUS
    <3> PICK z \in Int : z = 0
      OBVIOUS
    <3>1. One(r, S) = a /\ One(m, S) = z
      BY <2>1, <2>3, SameTok, NoToken
    <3>2. Cnt(outCohe', S) + Cnt(OutboundReqs', S) + Cnt(outRep', S)
            = Cnt(outCohe, S) + Cnt(OutboundReqs, S) + Cnt(outRep, S) + a
      BY <1>1, <2>1, <2>3, <3>1, SendCount
    <3>3. Cnt(ReadyReqs', S) + Cnt(BufPend'[k], S)
            = Cnt(ReadyReqs, S) + Cnt(BufPend[k], S) + z
      <4>1. <<>> \in Seq(REQ)
        OBVIOUS
      <4>2. Cnt(ReadyReqs', S) + Cnt(BufPend'[k], S)
              = Cnt(ReadyReqs, S) + Cnt(BufPend[k], S) + Cnt(<<>>, S)
        BY <1>1, <2>1, <4>1, ReviveCount
      <4> QED BY <1>7, <4>2
    <3>4. InExtra(n, k)' = InExtra(n, k) + d
      <4>1. InExtra(n, k)' = IF k = l THEN 0 ELSE InExtra(n, k)
        BY <1>1, <1>3, <2>1, SettledExtra
      <4>2. k = l => InExtra(n, k) = a
        BY <1>5, <2>2 DEF InExtra, Answering, One, Tok
      <4>3. k # l => a = 0
        BY <2>2, OtherLine
      <4> QED BY <1>7, <4>1, <4>2, <4>3
    <3>5. Turns(S, n, k, a, z, d) /\ a + z + d = One(m, S)
      BY <3>1, <3>2, <3>3, <3>4 DEF Turns
    <3> QED BY <1>3, <3>5, AnswerBalance
  <2> QED BY <2>4, <2>5
(* The request of a transfer is with its processor already.                *)
<1>15. CASE DirAckForward
  <2>1. /\ extra[l].counter = 1 /\ extra[l].ret_st = "ACK_REPLY" /\ Settle(l)
        /\ DirCheckBuf(l, <<>>) /\ UNCHANGED <<OutboundReqs, outVars>> /\ ~m.isreq
    BY <1>12, <1>15 DEF DirAckForward, Answers
  <2>2. TransInv'
    BY <1>3, <1>5, <2>1, AnsweredFlow, TransSettles
  <2>3. ASSUME NEW n \in Nodes, NEW k \in Lines PROVE DirTok(n, k)' = DirTok(n, k)
    <3> PICK S : S = Tok(n, k)
      OBVIOUS
    <3> PICK z \in Int : z = 0
      OBVIOUS
    <3>1. One(m, S) = z
      BY <2>1, NoToken
    <3>2. Cnt(outCohe', S) + Cnt(OutboundReqs', S) + Cnt(outRep', S)
            = Cnt(outCohe, S) + Cnt(OutboundReqs, S) + Cnt(outRep, S) + z
      BY <1>7, <2>1 DEF outVars
    <3>3. Cnt(ReadyReqs', S) + Cnt(BufPend'[k], S)
            = Cnt(ReadyReqs, S) + Cnt(BufPend[k], S) + z
      <4>1. <<>> \in Seq(REQ)
        OBVIOUS
      <4>2. Cnt(ReadyReqs', S) + Cnt(BufPend'[k], S)
              = Cnt(ReadyReqs, S) + Cnt(BufPend[k], S) + Cnt(<<>>, S)
        BY <1>1, <2>1, <4>1, ReviveCount
      <4> QED BY <1>7, <4>2
    <3>4. InExtra(n, k)' = InExtra(n, k) + z
      <4>1. InExtra(n, k)' = IF k = l THEN 0 ELSE InExtra(n, k)
        BY <1>1, <1>3, <2>1, SettledExtra
      <4>2. k = l => InExtra(n, k) = 0
        BY <1>5, <1>8, <2>1 DEF Answering
      <4> QED BY <1>7, <4>1, <4>2
    <3>5. Turns(S, n, k, z, z, z) /\ z + z + z = One(m, S)
      BY <3>1, <3>2, <3>3, <3>4 DEF Turns
    <3> QED BY <1>3, <3>5, AnswerBalance
  <2> QED BY <2>2, <2>3
<1> QED BY <1>9, <1>10, <1>11, <1>13, <1>14, <1>15 DEF DirCoheRep

(* A write-back is no COHE and no request; the one that a request waits    *)
(* for frees its line.                                                     *)
LEMMA WrbKeeps ==
  ASSUME RequestInv, DirWrb, ProtocolInv', UNCHANGED l2Vars
  PROVE  /\ TransInv'
         /\ \A n \in Nodes, k \in Lines : DirTok(n, k)' = DirTok(n, k)
<1>1. ProtocolInv /\ SetsFinite /\ TransInv
  BY DEF RequestInv, FlowInv
<1>2. CASE DirWrbError
  <2>1. UNCHANGED <<extra, req_partial, queueVars, inVars, outVars>>
    BY <1>2 DEF DirWrbError, YS__errmsg, lineVars
  <2>2. \A l \in Lines : SameFlow(l)
    BY <2>1, DirectoryIdle, CachesIdle DEF SameFlow, Flow
  <2> QED BY <1>1, <2>1, <2>2, DirectoryIdle, AllKept DEF DirTok
<1> SUFFICES ASSUME ~DirWrbError
             PROVE  /\ TransInv'
                    /\ \A n \in Nodes, k \in Lines : DirTok(n, k)' = DirTok(n, k)
  BY <1>2
<1>3. /\ ServeRep /\ CommitRep /\ req_partial' = req_partial /\ Answer.req_type \in WrbTypes
      /\ UNCHANGED <<OutboundReqs, outVars>>
  BY DEF DirWrb, DirWrbRevive, DirWrbWasHere, DirWrbPlain, WriteBack
<1>4. IInv /\ DirShapes
  BY <1>1 DEF ProtocolInv, Shapes
<1> PICK m \in AnswerMsg : m = Answer
  BY <1>3, <1>4, AnswerShape
<1> PICK l \in Lines : l = m.tag
  BY <1>3, <1>4, AnswerShape
<1>5. ~m.isreq
  BY <1>3 DEF AnswerMsg, CoheRepMsg
<1>6. ASSUME NEW n \in Nodes, NEW k \in Lines
      PROVE  /\ One(m, Tok(n, k)) = 0 /\ One(m, Own(n, k)) = 0 /\ One(m, Fwd(n, k)) = 0
             /\ InExtra(n, k) \in Int
             /\ Cnt(outCohe, Tok(n, k)) \in Nat /\ Cnt(OutboundReqs, Tok(n, k)) \in Nat
             /\ Cnt(outRep, Tok(n, k)) \in Nat /\ Cnt(ReadyReqs, Tok(n, k)) \in Nat
             /\ Cnt(BufPend[k], Tok(n, k)) \in Nat /\ Cnt(<<>>, Tok(n, k)) = 0
             /\ Flow(Own(n, k)) \in Nat /\ Flow(Fwd(n, k)) \in Nat
  <2>1. One(m, Tok(n, k)) = 0
    BY <1>5, NoToken
  <2>2. One(m, Own(n, k)) = 0 /\ One(m, Fwd(n, k)) = 0
    BY <1>3, NoColour
  <2>3. InExtra(n, k) \in Int /\ Cnt(<<>>, Tok(n, k)) = 0
    BY CntEmpty DEF InExtra
  <2>4. Flow(Own(n, k)) \in Nat /\ Flow(Fwd(n, k)) \in Nat
    BY <1>1, Sums
  <2> QED BY <1>1, <2>1, <2>2, <2>3, <2>4, Counts
<1>7. \A k \in Lines : SameFlow(k)
  <2>1. ASSUME NEW n \in Nodes, NEW k \in Lines
        PROVE  /\ Flow(Own(n, k))' = Flow(Own(n, k)) - One(m, Own(n, k))
               /\ Flow(Fwd(n, k))' = Flow(Fwd(n, k)) - One(m, Fwd(n, k))
    <3>1. Own(n, k) \cap ReplyMsg = {} /\ Fwd(n, k) \cap ReplyMsg = {}
      BY DEF Own, Fwd, CoheAt, ReplyMsg
    <3> QED BY <1>3, <3>1, AnsweredFlow
  <2> QED BY <1>6, <2>1 DEF SameFlow
<1>8. ASSUME NEW n \in Nodes, NEW k \in Lines, NEW S, S = Tok(n, k), NEW b \in Int,
             Cnt(ReadyReqs', S) + Cnt(BufPend'[k], S) = Cnt(ReadyReqs, S) + Cnt(BufPend[k], S) + b,
             InExtra(n, k)' = InExtra(n, k) - b
      PROVE  DirTok(n, k)' = DirTok(n, k)
  <2> PICK z \in Int : z = 0
    OBVIOUS
  <2> PICK d \in Int : d = 0 - b
    OBVIOUS
  <2>1. Cnt(outCohe', S) + Cnt(OutboundReqs', S) + Cnt(outRep', S)
          = Cnt(outCohe, S) + Cnt(OutboundReqs, S) + Cnt(outRep, S) + z
    BY <1>3, <1>6, <1>8 DEF outVars
  <2>2. InExtra(n, k)' = InExtra(n, k) + d
    BY <1>6, <1>8
  <2>3. Turns(S, n, k, z, b, d) /\ z + b + d = One(m, S)
    BY <1>6, <1>8, <2>1, <2>2 DEF Turns
  <2> QED BY <1>3, <1>8, <2>3, AnswerBalance
(* What was waiting for it is a request that has left no COHE behind.      *)
<1>9. CASE DirWrbRevive
  <2> PICK p : p = extra[l].pend_req
    OBVIOUS
  <2>1. extra[l] # NULL /\ extra[l].waiting /\ Settle(l) /\ DirCheckBuf(l, <<p>>)
    BY <1>9 DEF DirWrbRevive, Expected
  <2>2. InTransit(l) /\ PendReq(l, extra[l]) /\ extra[l].counter = 1
    BY <1>1, <2>1 DEF TransInv, TransOK, ProtocolInv, Shapes, DirShapes, Kept, IInv, LineInv,
       CounterOK
  <2>3. p \in PlainRequest /\ p.tag = l
    BY <2>1, <2>2 DEF PendReq
  <2>4. p \in REQ /\ p.type # "COHE" /\ p.tag = l
    BY <2>3, ShapesAreMessages DEF PlainRequest, RequestMsg
  <2>5. Asked(l) = {}
    <3>1. IsFiniteSet(Asked(l)) /\ Cardinality(Asked(l)) \in Nat
      BY <1>1, <2>1, AskedFinite
    <3>2. 1 = Cardinality(Asked(l)) + 1
      BY <2>1, <2>2 DEF InTransit
    <3> QED BY <3>1, <3>2, FS_EmptySet
  <2>6. Unsent(l) = {} /\ req_partial # l
    BY <2>2, <2>5 DEF Asked, InTransit
  <2>7. \A n \in Nodes : Flow(Own(n, l)) = 0 /\ Flow(Fwd(n, l)) = 0
    <3> TAKE n \in Nodes
    <3>1. Flow(Own(n, l)) + Flow(Fwd(n, l)) = 0
      BY <2>5 DEF Asked, Flight
    <3> QED BY <1>6, <3>1
  <2>8. extra' = [extra EXCEPT ![l] = NULL] /\ extra \in [Lines -> DirEP \cup {NULL}]
    BY <1>1, <2>1 DEF Settle, ProtocolInv, IInv, LineInv, LineTypeOK
  <2>9. TransOK(l)'
    <3>1. extra'[l] = NULL /\ req_partial' # l
      BY <1>3, <2>6, <2>8
    <3> QED BY <1>7, <2>7, <3>1 DEF TransOK, Quiet, SameFlow
  <2>10. \A k \in Lines : k # l => extra'[k] = extra[k]
    BY <2>8
  <2>11. TransInv'
    BY <1>1, <1>3, <1>7, <2>9, <2>10, OneChanges
  <2>12. ASSUME NEW n \in Nodes, NEW k \in Lines PROVE DirTok(n, k)' = DirTok(n, k)
    <3> PICK S : S = Tok(n, k)
      OBVIOUS
    <3> PICK b \in Int : b = One(p, S)
      BY OneType
    <3>1. Cnt(ReadyReqs', S) + Cnt(BufPend'[k], S)
            = Cnt(ReadyReqs, S) + Cnt(BufPend[k], S) + b
      <4>1. <<p>> \in Seq(REQ) /\ Cnt(<<p>>, S) = b
        BY <2>4, CntSingle
      <4> PICK q \in Seq(REQ) : q = <<p>>
        BY <4>1
      <4>2. Cnt(ReadyReqs', S) + Cnt(BufPend'[k], S)
              = Cnt(ReadyReqs, S) + Cnt(BufPend[k], S) + Cnt(q, S)
        BY <1>1, <2>1, ReviveCount
      <4> QED BY <4>1, <4>2
    <3>2. InExtra(n, k)' = InExtra(n, k) - b
      <4>1. InExtra(n, k)' = IF k = l THEN 0 ELSE InExtra(n, k)
        BY <1>1, <1>3, <2>1, SettledExtra
      <4>2. k = l => InExtra(n, k) = b
        BY <2>1, <2>4 DEF InExtra, One, Tok
      <4>3. k # l => b = 0
        BY <2>4, OtherLine
      <4> QED BY <1>6, <4>1, <4>2, <4>3
    <3> QED BY <1>8, <3>1, <3>2
  <2> QED BY <2>11, <2>12
<1>10. CASE DirWrbWasHere
  <2>1. /\ extra[l] # NULL /\ extra' = [extra EXCEPT ![l].WasHere = m.node]
        /\ UNCHANGED <<BufPend, ReadyReqs>> /\ extra \in [Lines -> DirEP \cup {NULL}]
    BY <1>1, <1>10 DEF DirWrbWasHere, ProtocolInv, IInv, LineInv, LineTypeOK
  <2>2. /\ extra'[l] = [extra[l] EXCEPT !.WasHere = m.node] /\ extra[l] \in DirEP
        /\ \A k \in Lines : k # l => extra'[k] = extra[k]
    BY <2>1
  <2>3. extra'[l] # NULL /\ SameExtra(l)
    <3>1. SameExtra(l)
      BY <2>2 DEF SameExtra, DirEP
    <3>2. extra'[l] \in DirEP
      <4>1. m.node \in Nodes
        BY ShapesAreMessages DEF AnswerMsg, CoheRepMsg, REQ
      <4> QED BY <2>2, <4>1 DEF DirEP
    <3> QED BY <3>1, <3>2, ExtraAssumption
  <2>4. TransOK(l)'
    BY <1>1, <1>3, <1>7, <2>1, <2>3, TransKept DEF TransInv
  <2>5. TransInv'
    BY <1>1, <1>3, <1>7, <2>2, <2>4, OneChanges
  <2>6. ASSUME NEW n \in Nodes, NEW k \in Lines PROVE DirTok(n, k)' = DirTok(n, k)
    <3> PICK S : S = Tok(n, k)
      OBVIOUS
    <3> PICK b \in Int : b = 0
      OBVIOUS
    <3>1. InExtra(n, k)' = InExtra(n, k)
      <4>1. /\ extra'[k] = NULL <=> extra[k] = NULL
            /\ extra[k] # NULL => extra'[k].pend_req = extra[k].pend_req
        BY <2>1, <2>2, <2>3 DEF SameExtra
      <4> QED BY <1>3, <4>1, ExtraKept
    <3>2. Cnt(ReadyReqs', S) + Cnt(BufPend'[k], S)
            = Cnt(ReadyReqs, S) + Cnt(BufPend[k], S) + b
      BY <1>6, <2>1
    <3>3. InExtra(n, k)' = InExtra(n, k) - b
      BY <1>6, <3>1
    <3> QED BY <1>8, <3>2, <3>3
  <2> QED BY <2>5, <2>6
<1>11. CASE DirWrbPlain
  <2>1. DirCheckBuf(l, <<>>) /\ UNCHANGED extra
    BY <1>11 DEF DirWrbPlain
  <2>2. TransInv'
    BY <1>1, <1>3, <1>7, <2>1, AllKept
  <2>3. ASSUME NEW n \in Nodes, NEW k \in Lines PROVE DirTok(n, k)' = DirTok(n, k)
    <3> PICK S : S = Tok(n, k)
      OBVIOUS
    <3> PICK b \in Int : b = 0
      OBVIOUS
    <3>1. InExtra(n, k)' = InExtra(n, k)
      BY <1>3, <2>1, ExtraKept
    <3>2. Cnt(ReadyReqs', S) + Cnt(BufPend'[k], S)
            = Cnt(ReadyReqs, S) + Cnt(BufPend[k], S) + b
      <4>1. <<>> \in Seq(REQ)
        OBVIOUS
      <4>2. Cnt(ReadyReqs', S) + Cnt(BufPend'[k], S)
              = Cnt(ReadyReqs, S) + Cnt(BufPend[k], S) + Cnt(<<>>, S)
        BY <1>1, <2>1, <4>1, ReviveCount
      <4> QED BY <1>6, <4>2
    <3>3. InExtra(n, k)' = InExtra(n, k) - b
      BY <1>6, <3>1
    <3> QED BY <1>8, <3>2, <3>3
  <2> QED BY <2>2, <2>3
<1> QED BY <1>9, <1>10, <1>11 DEF DirWrb

(* So every step of the directory's event keeps the invariant.             *)
LEMMA DirectoryKeeps ==
  ASSUME RequestInv, DirStep, UNCHANGED l2Vars, ProtocolInv' PROVE FlowInv'
<1>1. TransInv' /\ \A n \in Nodes, k \in Lines : DirTok(n, k)' = DirTok(n, k)
  <2>1. CASE DirReq
    BY <2>1, TransReq, TokensReq
  <2> QED BY <2>1, StartKeeps, SendKeeps, CoheRepKeeps, WrbKeeps DEF DirStep
<1>2. OneByOne' /\ SetsFinite'
  BY OneByOneKept, CachesIdle DEF RequestInv, FlowInv
<1>3. ASSUME NEW n \in Nodes, NEW k \in Lines
      PROVE  DirTok(n, k)' + CacheTok(n, k)' = IF Waits(n, k)' THEN 1 ELSE 0
  <2>1. DirTok(n, k) + CacheTok(n, k) = IF Waits(n, k) THEN 1 ELSE 0
    BY DEF RequestInv, FlowInv, OneEach
  <2>2. CacheFlow(Tok(n, k))' = CacheFlow(Tok(n, k)) /\ CacheHeld(Tok(n, k))' = CacheHeld(Tok(n, k))
    BY CachesIdle
  <2>3. CacheTok(n, k)' = CacheTok(n, k)
    BY <2>2 DEF CacheTok
  <2>4. Waits(n, k)' = Waits(n, k)
    BY DEF Waits, l2Vars, cacheVars
  <2> QED BY <1>1, <2>1, <2>3, <2>4
<1> QED BY <1>1, <1>2, <1>3 DEF FlowInv, OneEach
-----------------------------------------------------------------------------
(***************************************************************************)
(* The networks and the caches.  What they do to the requests of n for     *)
(* line l is in two numbers: those on the way of the COHEs, Flow, and      *)
(* those that the ports and the networks hold otherwise, Held.             *)
(***************************************************************************)
Held(S) == Cnt(inReq, S) + Cnt(outRep, S) + CacheHeld(S)
Rest(S, n, l) == Cnt(ReadyReqs, S) + Cnt(BufPend[l], S) + InExtra(n, l)

LEMMA Total ==
  ASSUME ProtocolInv, SetsFinite, NEW n \in Nodes, NEW l \in Lines, NEW S, S = Tok(n, l)
  PROVE  /\ DirTok(n, l) + CacheTok(n, l) = Flow(S) + Held(S) + Rest(S, n, l)
         /\ Flow(S) \in Nat /\ Held(S) \in Nat /\ Rest(S, n, l) \in Nat
<1>1. /\ DirFlow(S) \in Nat /\ CacheFlow(S) \in Nat /\ CacheHeld(S) \in Nat
      /\ Cnt(inReq, S) \in Nat /\ Cnt(outRep, S) \in Nat /\ Cnt(ReadyReqs, S) \in Nat
      /\ Cnt(BufPend[l], S) \in Nat
  BY Sums, Counts
<1>2. InExtra(n, l) \in Nat
  BY DEF InExtra
<1>3. /\ DirTok(n, l) = DirFlow(S) + (Cnt(inReq, S) + Cnt(outRep, S) + Cnt(ReadyReqs, S)
                                      + Cnt(BufPend[l], S)) + InExtra(n, l)
      /\ CacheTok(n, l) = CacheFlow(S) + CacheHeld(S)
      /\ Flow(S) = DirFlow(S) + CacheFlow(S)
      /\ Held(S) = Cnt(inReq, S) + Cnt(outRep, S) + CacheHeld(S)
      /\ Rest(S, n, l) = Cnt(ReadyReqs, S) + Cnt(BufPend[l], S) + InExtra(n, l)
  BY DEF DirTok, DirHeld, CacheTok, Flow, Held, Rest
<1> QED BY ONLY <1>1, <1>2, <1>3

(* The same after a step.                                                  *)
LEMMA TotalNext ==
  ASSUME ProtocolInv', SetsFinite', NEW n \in Nodes, NEW l \in Lines, NEW S, S = Tok(n, l)
  PROVE  DirTok(n, l)' + CacheTok(n, l)' = Flow(S)' + Held(S)' + Rest(S, n, l)'
<1>1. /\ outCohe' \in Seq(REQ) /\ OutboundReqs' \in Seq(REQ) /\ inRep' \in Seq(REQ)
      /\ inReq' \in Seq(REQ) /\ outRep' \in Seq(REQ) /\ ReadyReqs' \in Seq(REQ)
      /\ BufPend' \in [Lines -> Seq(REQ)]
      /\ coheIn' \in [Nodes -> Seq(REQ)] /\ atL1' \in [Nodes -> Seq(REQ)]
  BY DEF ProtocolInv, IInv, QueueInv, QueueTypeOK, PortTypeOK, L2Consistent, L2TypeOK
<1>2. BufPend'[l] \in Seq(REQ)
  BY <1>1
<1>3. /\ Cnt(outCohe', S) \in Nat /\ Cnt(OutboundReqs', S) \in Nat /\ Cnt(inRep', S) \in Nat
      /\ Cnt(inReq', S) \in Nat /\ Cnt(outRep', S) \in Nat /\ Cnt(ReadyReqs', S) \in Nat
      /\ Cnt(BufPend'[l], S) \in Nat
      /\ Cells(coheIn', S) \in Nat /\ Cells(atL1', S) \in Nat
  BY <1>1, <1>2, WhereFinite, CellsFinite
<1>4. Has(coheReps', S) \in Nat /\ Has(requests', S) \in Nat /\ Has(replies', S) \in Nat
  BY HasFinite DEF SetsFinite
<1>5. InExtra(n, l)' \in Nat
  BY DEF InExtra
<1>6. /\ DirTok(n, l)' = (Cnt(outCohe', S) + Cnt(OutboundReqs', S) + Cnt(inRep', S))
           + (Cnt(inReq', S) + Cnt(outRep', S) + Cnt(ReadyReqs', S) + Cnt(BufPend'[l], S))
           + InExtra(n, l)'
      /\ CacheTok(n, l)' = (Cells(coheIn', S) + Cells(atL1', S) + Has(coheReps', S))
           + (Has(requests', S) + Has(replies', S))
      /\ Flow(S)' = (Cnt(outCohe', S) + Cnt(OutboundReqs', S) + Cnt(inRep', S))
           + (Cells(coheIn', S) + Cells(atL1', S) + Has(coheReps', S))
      /\ Held(S)' = Cnt(inReq', S) + Cnt(outRep', S) + (Has(requests', S) + Has(replies', S))
      /\ Rest(S, n, l)' = Cnt(ReadyReqs', S) + Cnt(BufPend'[l], S) + InExtra(n, l)'
  BY DEF DirTok, DirFlow, DirHeld, CacheTok, CacheFlow, CacheHeld, Flow, Held, Rest
<1> QED BY ONLY <1>3, <1>4, <1>5, <1>6

(* Nothing is there twice.                                                 *)
LEMMA Singles ==
  ASSUME RequestInv, NEW n \in Nodes, NEW l \in Lines
  PROVE  /\ Flow(Own(n, l)) \in Nat /\ Flow(Fwd(n, l)) \in Nat
         /\ Flow(Own(n, l)) <= 1 /\ Flow(Fwd(n, l)) <= 1
         /\ Flow(Tok(n, l)) \in Nat /\ Held(Tok(n, l)) \in Nat
         /\ Flow(Tok(n, l)) + Held(Tok(n, l)) <= 1
         /\ ~Waits(n, l) => Flow(Tok(n, l)) + Held(Tok(n, l)) = 0
<1>1. ProtocolInv /\ SetsFinite /\ TransOK(l)
  BY DEF RequestInv, FlowInv, TransInv
<1>2. Flow(Own(n, l)) \in Nat /\ Flow(Fwd(n, l)) \in Nat
  BY <1>1, Sums
<1>3. Flow(Own(n, l)) <= 1 /\ Flow(Fwd(n, l)) <= 1
  <2>1. CASE Quiet(l)
    BY <2>1 DEF Quiet
  <2>2. CASE InTransit(l)
    <3>1. Flight(n, l) <= IF n \in Unsent(l) THEN 0 ELSE 1
      BY <2>2 DEF InTransit
    <3> QED BY <1>2, <3>1 DEF Flight
  <2> QED BY <1>1, <2>1, <2>2 DEF TransOK
<1> PICK S : S = Tok(n, l)
  OBVIOUS
<1>4. /\ DirTok(n, l) + CacheTok(n, l) = Flow(S) + Held(S) + Rest(S, n, l)
      /\ Flow(S) \in Nat /\ Held(S) \in Nat /\ Rest(S, n, l) \in Nat
  BY <1>1, Total
<1>5. DirTok(n, l) + CacheTok(n, l) = IF Waits(n, l) THEN 1 ELSE 0
  BY DEF RequestInv, FlowInv, OneEach
<1> QED BY <1>2, <1>3, <1>4, <1>5

(* A step that moves no request out of the directory's own queues.         *)
Stays == UNCHANGED <<extra, req_partial, queueVars>>
LEMMA MovesKeep ==
  ASSUME RequestInv, ProtocolInv', Stays, OneByOne', SetsFinite', \A l \in Lines : SameFlow(l),
         \A n \in Nodes, l \in Lines :
           Flow(Tok(n, l))' + Held(Tok(n, l))'
             = Flow(Tok(n, l)) + Held(Tok(n, l))
               + (IF Waits(n, l)' THEN 1 ELSE 0) - (IF Waits(n, l) THEN 1 ELSE 0)
  PROVE  FlowInv'
<1>1. ProtocolInv /\ SetsFinite /\ TransInv
  BY DEF RequestInv, FlowInv
<1>2. TransInv'
  BY <1>1, AllKept DEF Stays
<1>3. ASSUME NEW n \in Nodes, NEW l \in Lines
      PROVE  DirTok(n, l)' + CacheTok(n, l)' = IF Waits(n, l)' THEN 1 ELSE 0
  <2> PICK S : S = Tok(n, l)
    OBVIOUS
  <2>1. /\ DirTok(n, l) + CacheTok(n, l) = Flow(S) + Held(S) + Rest(S, n, l)
        /\ Flow(S) \in Nat /\ Held(S) \in Nat /\ Rest(S, n, l) \in Nat
    BY <1>1, Total
  <2>2. DirTok(n, l)' + CacheTok(n, l)' = Flow(S)' + Held(S)' + Rest(S, n, l)'
    BY TotalNext
  <2>3. Rest(S, n, l)' = Rest(S, n, l)
    BY DEF Stays, Rest, InExtra, queueVars
  <2>4. DirTok(n, l) + CacheTok(n, l) = IF Waits(n, l) THEN 1 ELSE 0
    BY DEF RequestInv, FlowInv, OneEach
  <2>5. Flow(S)' + Held(S)' = Flow(S) + Held(S)
          + (IF Waits(n, l)' THEN 1 ELSE 0) - (IF Waits(n, l) THEN 1 ELSE 0)
    OBVIOUS
  <2> QED BY ONLY <2>1, <2>2, <2>3, <2>4, <2>5
<1> QED BY <1>2, <1>3 DEF FlowInv, OneEach

LEMMA PortsSame ==
  ASSUME NEW S
  PROVE  /\ UNCHANGED <<outCohe, OutboundReqs, inRep, coheIn, atL1, coheReps>>
              => Flow(S)' = Flow(S)
         /\ UNCHANGED <<inReq, outRep, requests, replies>> => Held(S)' = Held(S)
  BY DEF Flow, DirFlow, CacheFlow, Held, CacheHeld

(* No MSHR begins or ends to wait.                                         *)
LEMMA EvenKeeps ==
  ASSUME RequestInv, ProtocolInv', Stays, OneByOne', SetsFinite', \A l \in Lines : SameFlow(l),
         \A n \in Nodes, l \in Lines :
           /\ Waits(n, l)' = Waits(n, l)
           /\ Flow(Tok(n, l))' + Held(Tok(n, l))' = Flow(Tok(n, l)) + Held(Tok(n, l))
  PROVE  FlowInv'
<1>1. ASSUME NEW n \in Nodes, NEW l \in Lines
      PROVE  Flow(Tok(n, l))' + Held(Tok(n, l))'
               = Flow(Tok(n, l)) + Held(Tok(n, l))
                 + (IF Waits(n, l)' THEN 1 ELSE 0) - (IF Waits(n, l) THEN 1 ELSE 0)
  <2> PICK S : S = Tok(n, l)
    OBVIOUS
  <2>1. Flow(S)' + Held(S)' = Flow(S) + Held(S) /\ Flow(S) \in Nat /\ Held(S) \in Nat
    BY Singles
  <2>2. Waits(n, l)' = Waits(n, l)
    OBVIOUS
  <2> QED BY <2>1, <2>2
<1> QED BY <1>1, MovesKeep

(* A request, or an answer, reaches the directory.                         *)
LEMMA RequestKeeps ==
  ASSUME RequestInv, NEW n \in Nodes, DeliverRequest(n), ProtocolInv' PROVE FlowInv'
<1>1. ProtocolInv /\ SetsFinite /\ OneByOne
  BY DEF RequestInv, FlowInv
<1> PICK m \in requests : /\ ArriveReq(m) /\ requests' = requests \ {m}
                          /\ UNCHANGED <<cacheVars, coheIn, replies, coheReps, l2fatal>>
  BY DEF DeliverRequest
<1>2. /\ Arrival /\ inReq' = Append(inReq, m) /\ UNCHANGED <<inRep, outVars, queueVars>>
      /\ Stays
  BY DEF ArriveReq, Arrival, Stays, lineVars
<1>3. m \in REQ /\ inReq \in Seq(REQ)
  BY <1>1, QueueTypes
<1>4. SetsFinite'
  BY <1>1, HasRemove DEF SetsFinite
<1>5. ASSUME NEW S PROVE Flow(S)' = Flow(S)
  BY <1>2, PortsSame DEF outVars, queueVars, cacheVars
<1>6. ASSUME NEW k \in Nodes, NEW l \in Lines, NEW S PROVE Held(S)' = Held(S)
  <2>1. Cnt(inReq', S) = Cnt(inReq, S) + One(m, S)
    BY <1>2, <1>3, CntAppend
  <2>2. Has(requests', S) = Has(requests, S) - One(m, S)
    BY <1>1, HasRemove DEF SetsFinite
  <2>3. /\ Cnt(inReq, S) \in Nat /\ Has(requests, S) \in Nat /\ Cnt(outRep, S) \in Nat
        /\ Has(replies, S) \in Nat /\ One(m, S) \in Nat
    BY <1>1, Counts, OneType
  <2>4. Cnt(outRep', S) = Cnt(outRep, S) /\ Has(replies', S) = Has(replies, S)
    BY <1>2 DEF outVars
  <2>5. /\ Held(S) = Cnt(inReq, S) + Cnt(outRep, S) + (Has(requests, S) + Has(replies, S))
        /\ Held(S)' = Cnt(inReq', S) + Cnt(outRep', S) + (Has(requests', S) + Has(replies', S))
    BY DEF Held, CacheHeld
  <2> QED BY ONLY <2>1, <2>2, <2>3, <2>4, <2>5
<1>7. \A l \in Lines : SameFlow(l)
  BY <1>5 DEF SameFlow
<1>8. \A k \in Nodes, l \in Lines :
        /\ Waits(k, l)' = Waits(k, l)
        /\ Flow(Tok(k, l))' + Held(Tok(k, l))' = Flow(Tok(k, l)) + Held(Tok(k, l))
  BY <1>5, <1>6 DEF Waits, cacheVars
<1>9. OneByOne'
  BY <1>1, <1>2, OneByOneKept
<1> QED BY <1>2, <1>4, <1>7, <1>8, <1>9, EvenKeeps

LEMMA AnswerKeeps ==
  ASSUME RequestInv, NEW n \in Nodes, DeliverCoheReply(n), ProtocolInv' PROVE FlowInv'
<1>1. ProtocolInv /\ SetsFinite /\ OneByOne
  BY DEF RequestInv, FlowInv
<1> PICK m \in coheReps : /\ ArriveRep(m) /\ coheReps' = coheReps \ {m}
                          /\ UNCHANGED <<cacheVars, coheIn, replies, requests, l2fatal>>
  BY DEF DeliverCoheReply, DeliverCoheRep
<1>2. /\ Arrival /\ inRep' = Append(inRep, m) /\ UNCHANGED <<inReq, outVars, queueVars>>
      /\ Stays
  BY DEF ArriveRep, Arrival, Stays, lineVars
<1>3. m \in REQ /\ inRep \in Seq(REQ)
  BY <1>1, QueueTypes
<1>4. SetsFinite'
  BY <1>1, HasRemove DEF SetsFinite
<1>5. ASSUME NEW S PROVE Held(S)' = Held(S)
  BY <1>2, PortsSame DEF outVars
<1>6. ASSUME NEW k \in Nodes, NEW l \in Lines, NEW S PROVE Flow(S)' = Flow(S)
  <2>1. Cnt(inRep', S) = Cnt(inRep, S) + One(m, S)
    BY <1>2, <1>3, CntAppend
  <2>2. Has(coheReps', S) = Has(coheReps, S) - One(m, S)
    BY <1>1, HasRemove DEF SetsFinite
  <2>3. /\ Cnt(outCohe, S) \in Nat /\ Cnt(OutboundReqs, S) \in Nat /\ Cnt(inRep, S) \in Nat
        /\ Cells(coheIn, S) \in Nat /\ Cells(atL1, S) \in Nat /\ Has(coheReps, S) \in Nat
        /\ One(m, S) \in Nat
    BY <1>1, Counts, OneType
  <2>4. /\ Cnt(outCohe', S) = Cnt(outCohe, S) /\ Cnt(OutboundReqs', S) = Cnt(OutboundReqs, S)
        /\ Cells(coheIn', S) = Cells(coheIn, S) /\ Cells(atL1', S) = Cells(atL1, S)
    BY <1>2 DEF outVars, queueVars, cacheVars
  <2>5. /\ Flow(S) = (Cnt(outCohe, S) + Cnt(OutboundReqs, S) + Cnt(inRep, S))
                       + (Cells(coheIn, S) + Cells(atL1, S) + Has(coheReps, S))
        /\ Flow(S)' = (Cnt(outCohe', S) + Cnt(OutboundReqs', S) + Cnt(inRep', S))
                       + (Cells(coheIn', S) + Cells(atL1', S) + Has(coheReps', S))
    BY DEF Flow, DirFlow, CacheFlow
  <2> QED BY ONLY <2>1, <2>2, <2>3, <2>4, <2>5
<1>7. \A l \in Lines : SameFlow(l)
  BY <1>6 DEF SameFlow
<1>8. \A k \in Nodes, l \in Lines :
        /\ Waits(k, l)' = Waits(k, l)
        /\ Flow(Tok(k, l))' + Held(Tok(k, l))' = Flow(Tok(k, l)) + Held(Tok(k, l))
  BY <1>5, <1>6 DEF Waits, cacheVars
<1>9. OneByOne'
  BY <1>1, <1>2, OneByOneKept
<1> QED BY <1>2, <1>4, <1>7, <1>8, <1>9, EvenKeeps

(* A COHE reaches its cache, a REPLY its node.                             *)
LEMMA CoheKeeps ==
  ASSUME RequestInv, DeliverCohe, ProtocolInv' PROVE FlowInv'
<1>1. ProtocolInv /\ SetsFinite /\ OneByOne
  BY DEF RequestInv, FlowInv
<1>2. /\ Removal(outCohe) /\ outCohe # <<>> /\ outCohe' = Tail(outCohe)
      /\ UNCHANGED <<outRep, inVars, queueVars, cacheVars>> /\ Stays
      /\ CoheArrives(Head(outCohe))
  BY DEF DeliverCohe, TakeCohe, Removal, Stays, lineVars
<1>3. outCohe \in Seq(REQ) /\ coheIn \in [Nodes -> Seq(REQ)]
  BY <1>1, QueueTypes
<1> PICK m \in REQ : m = Head(outCohe)
  BY <1>2, <1>3, SeqFacts
<1> PICK n \in Nodes : n = m.node
  BY DEF REQ
<1> PICK q \in Seq(REQ) : q = Append(coheIn[n], m)
  BY <1>3, SeqFacts
<1>4. /\ coheIn' = [coheIn EXCEPT ![n] = q]
      /\ UNCHANGED <<replies, requests, coheReps>>
  BY <1>2 DEF CoheArrives
<1>5. ASSUME NEW S PROVE Held(S)' = Held(S)
  BY <1>2, <1>4, PortsSame DEF inVars
<1>6. ASSUME NEW k \in Nodes, NEW l \in Lines, NEW S PROVE Flow(S)' = Flow(S)
  <2>1. Cnt(outCohe', S) = Cnt(outCohe, S) - One(m, S)
    BY <1>2, <1>3, CntTail
  <2>2. Cells(coheIn', S) = Cells(coheIn, S) + One(m, S)
    <3>1. Cells(coheIn', S) = Cells(coheIn, S) - Cnt(coheIn[n], S) + Cnt(q, S)
      BY <1>3, <1>4, CellsOne
    <3>2. coheIn[n] \in Seq(REQ)
      BY <1>3
    <3>3. Cnt(q, S) = Cnt(coheIn[n], S) + One(m, S) /\ Cnt(coheIn[n], S) \in Nat
      BY <3>2, CntAppend, WhereFinite
    <3>4. Cells(coheIn, S) \in Nat /\ One(m, S) \in Nat
      BY <1>3, CellsFinite, OneType
    <3> QED BY ONLY <3>1, <3>3, <3>4
  <2>3. /\ Cnt(outCohe, S) \in Nat /\ Cnt(OutboundReqs, S) \in Nat /\ Cnt(inRep, S) \in Nat
        /\ Cells(coheIn, S) \in Nat /\ Cells(atL1, S) \in Nat /\ Has(coheReps, S) \in Nat
        /\ One(m, S) \in Nat
    BY <1>1, Counts, OneType
  <2>4. /\ Cnt(inRep', S) = Cnt(inRep, S) /\ Cnt(OutboundReqs', S) = Cnt(OutboundReqs, S)
        /\ Has(coheReps', S) = Has(coheReps, S) /\ Cells(atL1', S) = Cells(atL1, S)
    BY <1>2, <1>4 DEF inVars, queueVars, cacheVars
  <2>5. /\ Flow(S) = (Cnt(outCohe, S) + Cnt(OutboundReqs, S) + Cnt(inRep, S))
                       + (Cells(coheIn, S) + Cells(atL1, S) + Has(coheReps, S))
        /\ Flow(S)' = (Cnt(outCohe', S) + Cnt(OutboundReqs', S) + Cnt(inRep', S))
                       + (Cells(coheIn', S) + Cells(atL1', S) + Has(coheReps', S))
    BY DEF Flow, DirFlow, CacheFlow
  <2> QED BY ONLY <2>1, <2>2, <2>3, <2>4, <2>5
<1>7. \A l \in Lines : SameFlow(l)
  BY <1>6 DEF SameFlow
<1>8. \A k \in Nodes, l \in Lines :
        /\ Waits(k, l)' = Waits(k, l)
        /\ Flow(Tok(k, l))' + Held(Tok(k, l))' = Flow(Tok(k, l)) + Held(Tok(k, l))
  BY <1>2, <1>5, <1>6 DEF Waits, cacheVars
<1>9. OneByOne' /\ SetsFinite'
  BY <1>1, <1>2, <1>4, OneByOneKept DEF SetsFinite
<1> QED BY <1>2, <1>7, <1>8, <1>9, EvenKeeps

LEMMA ReplyKeeps ==
  ASSUME RequestInv, DeliverReply, ProtocolInv' PROVE FlowInv'
<1>1. ProtocolInv /\ SetsFinite /\ OneByOne
  BY DEF RequestInv, FlowInv
<1>2. /\ Removal(outRep) /\ outRep # <<>> /\ outRep' = Tail(outRep)
      /\ UNCHANGED <<outCohe, inVars, queueVars, cacheVars>> /\ Stays
      /\ ReplyArrives(Head(outRep))
  BY DEF DeliverReply, TakeRep, Removal, Stays, lineVars
<1>3. outRep \in Seq(REQ)
  BY <1>1, QueueTypes
<1> PICK m \in REQ : m = Head(outRep)
  BY <1>2, <1>3, SeqFacts
<1>4. replies' = replies \cup {m} /\ UNCHANGED <<coheIn, requests, coheReps>>
  BY <1>2 DEF ReplyArrives
<1>5. ASSUME NEW S PROVE Flow(S)' = Flow(S)
  BY <1>2, <1>4, PortsSame DEF inVars, queueVars, cacheVars
<1>6. ASSUME NEW k \in Nodes, NEW l \in Lines, NEW S, S = Tok(k, l)
      PROVE  Held(S)' = Held(S)
  <2>1. Cnt(outRep', S) = Cnt(outRep, S) - One(m, S) /\ Cnt(outRep, S) >= One(m, S)
    BY <1>2, <1>3, CntTail
  <2>2. /\ Cnt(inReq, S) \in Nat /\ Has(requests, S) \in Nat /\ Cnt(outRep, S) \in Nat
        /\ Has(replies, S) \in Nat /\ One(m, S) \in Nat
    BY <1>1, Counts, OneType
  <2>3. Cnt(inReq', S) = Cnt(inReq, S) /\ Has(requests', S) = Has(requests, S)
    BY <1>2, <1>4 DEF inVars
  <2>4. /\ Held(S) = Cnt(inReq, S) + Cnt(outRep, S) + (Has(requests, S) + Has(replies, S))
        /\ Held(S)' = Cnt(inReq', S) + Cnt(outRep', S) + (Has(requests', S) + Has(replies', S))
    BY DEF Held, CacheHeld
  <2>5. m \in S => m \notin replies
    <3> SUFFICES ASSUME m \in S, m \in replies PROVE FALSE
      OBVIOUS
    <3>1. Has(replies, S) >= One(m, S) /\ One(m, S) = 1
      BY <1>1, HasRemove DEF SetsFinite, One
    <3>2. Flow(S) + Held(S) <= 1 /\ Flow(S) \in Nat
      BY <1>6, Singles
    <3> QED BY ONLY <2>1, <2>2, <2>4, <3>1, <3>2
  <2>6. Has(replies', S) = Has(replies, S) + One(m, S)
    BY <1>1, <1>4, <2>5, HasAdd DEF SetsFinite
  <2> QED BY ONLY <2>1, <2>2, <2>3, <2>4, <2>6
<1>7. \A l \in Lines : SameFlow(l)
  BY <1>5 DEF SameFlow
<1>8. \A k \in Nodes, l \in Lines :
        /\ Waits(k, l)' = Waits(k, l)
        /\ Flow(Tok(k, l))' + Held(Tok(k, l))' = Flow(Tok(k, l)) + Held(Tok(k, l))
  BY <1>2, <1>5, <1>6 DEF Waits, cacheVars
<1>9. OneByOne'
  BY <1>1, <1>2, OneByOneKept
<1>10. SetsFinite'
  BY <1>1, <1>4, FS_AddElement DEF SetsFinite
<1> QED BY <1>2, <1>7, <1>8, <1>9, <1>10, EvenKeeps

(* A step of a cache leaves the directory alone.                           *)
LEMMA CacheAlone ==
  ASSUME RequestInv, UNCHANGED dirVars
  PROVE  Stays /\ UNCHANGED <<inVars, outVars, OutboundReqs>> /\ OneByOne'
<1>1. UNCHANGED <<pc, sel, req_partial, extra, queueVars, inVars, outVars>>
  BY DEF dirVars, lineVars, ctlVars
<1> QED BY <1>1 DEF Stays, queueVars, RequestInv, FlowInv, OneByOne

(* An access that misses sends a request, the only one for its MSHR.       *)
LEMMA MissKeeps ==
  ASSUME RequestInv, UNCHANGED dirVars, NEW n \in Nodes, NEW l \in Lines, NEW t \in PrcrTypes,
         L2Miss(n, l, t), ProtocolInv'
  PROVE  FlowInv'
<1>1. ProtocolInv /\ SetsFinite
  BY DEF RequestInv, FlowInv
<1>2. Stays /\ UNCHANGED <<inVars, outVars, OutboundReqs>> /\ OneByOne'
  BY CacheAlone
<1> PICK r : r = Request0(n, l, NxtModReq(t, st[n][l]))
  OBVIOUS
<1>3. /\ requests' = requests \cup {r} /\ mshrs[n][l] = NULL
      /\ UNCHANGED <<atL1, coheIn, replies, coheReps>>
  BY DEF L2Miss
<1>4. r.isreq /\ r.tag = l /\ r.node = n /\ r.forward_to = NULL
  BY DEF Request0
<1>5. requests' \subseteq REQ
  BY DEF ProtocolInv, L2Consistent, L2TypeOK
<1>6. \A k \in Nodes, j \in Lines : One(r, Tok(k, j)) = IF k = n /\ j = l THEN 1 ELSE 0
  BY <1>3, <1>4, <1>5 DEF One, Tok, IsToken, Owner
<1>7. \A k \in Nodes, j \in Lines :
        Waits(k, j)' = IF k = n /\ j = l THEN TRUE ELSE Waits(k, j)
  <2> PICK h : h = [excl |-> t # "READ", writes_present |-> t = "WRITE",
                    pend_cohe_type |-> "NONE", installed |-> FALSE]
    OBVIOUS
  <2>2. mshrs' = [mshrs EXCEPT ![n][l] = h] /\ h \in MSHR /\ ~h.installed
    BY DEF L2Miss, Set, MSHR
  <2>1. mshrs \in [Nodes -> [Lines -> MSHR \cup {NULL}]]
    BY <1>1 DEF ProtocolInv, L2Consistent, L2TypeOK
  <2> QED BY <2>1, <2>2, MSHRAssumption DEF Waits
<1>8. ~Waits(n, l)
  BY <1>3 DEF Waits
<1>9. SetsFinite'
  BY <1>1, <1>3, FS_AddElement DEF SetsFinite
<1>10. ASSUME NEW S PROVE Flow(S)' = Flow(S)
  BY <1>2, <1>3, PortsSame DEF inVars, outVars
<1>11. ASSUME NEW k \in Nodes, NEW j \in Lines, NEW S, S = Tok(k, j)
       PROVE  Held(S)' = Held(S) + One(r, S)
  <2>1. /\ Cnt(inReq, S) \in Nat /\ Has(requests, S) \in Nat /\ Cnt(outRep, S) \in Nat
        /\ Has(replies, S) \in Nat /\ One(r, S) \in Nat
    BY <1>1, Counts, OneType
  <2>2. /\ Cnt(inReq', S) = Cnt(inReq, S) /\ Cnt(outRep', S) = Cnt(outRep, S)
        /\ Has(replies', S) = Has(replies, S)
    BY <1>2, <1>3 DEF inVars, outVars
  <2>3. /\ Held(S) = Cnt(inReq, S) + Cnt(outRep, S) + (Has(requests, S) + Has(replies, S))
        /\ Held(S)' = Cnt(inReq', S) + Cnt(outRep', S) + (Has(requests', S) + Has(replies', S))
    BY DEF Held, CacheHeld
  <2>4. r \in S => r \notin requests
    <3> SUFFICES ASSUME r \in S, r \in requests PROVE FALSE
      OBVIOUS
    <3>1. Has(requests, S) >= One(r, S) /\ One(r, S) = 1
      BY <1>1, HasRemove DEF SetsFinite, One
    <3>2. k = n /\ j = l
      BY <1>4, <1>11 DEF Tok, IsToken, Owner
    <3>3. Flow(S) + Held(S) = 0 /\ Flow(S) \in Nat
      BY <1>8, <1>11, <3>2, Singles
    <3> QED BY ONLY <2>1, <2>3, <3>1, <3>3
  <2>5. Has(requests', S) = Has(requests, S) + One(r, S)
    BY <1>1, <1>3, <2>4, HasAdd DEF SetsFinite
  <2> QED BY ONLY <2>1, <2>2, <2>3, <2>5
<1>12. \A j \in Lines : SameFlow(j)
  BY <1>10 DEF SameFlow
<1>13. ASSUME NEW k \in Nodes, NEW j \in Lines
       PROVE  Flow(Tok(k, j))' + Held(Tok(k, j))'
                = Flow(Tok(k, j)) + Held(Tok(k, j))
                  + (IF Waits(k, j)' THEN 1 ELSE 0) - (IF Waits(k, j) THEN 1 ELSE 0)
  <2> PICK S : S = Tok(k, j)
    OBVIOUS
  <2>1. /\ Flow(S)' = Flow(S) /\ Held(S)' = Held(S) + One(r, S)
        /\ Flow(S) \in Nat /\ Held(S) \in Nat
    BY <1>10, <1>11, Singles
  <2>2. CASE k = n /\ j = l
    <3>1. One(r, S) = 1 /\ Waits(k, j)' /\ ~Waits(k, j)
      BY <1>6, <1>7, <1>8, <2>2
    <3> QED BY <2>1, <3>1
  <2>3. CASE ~(k = n /\ j = l)
    <3>1. One(r, S) = 0 /\ Waits(k, j)' = Waits(k, j)
      BY <1>6, <1>7, <2>3
    <3> QED BY <2>1, <3>1
  <2> QED BY <2>2, <2>3
<1> QED BY <1>2, <1>9, <1>12, <1>13, MovesKeep

(* What a cache does on its own otherwise sends at most a write-back.      *)
LEMMA AloneKeeps ==
  ASSUME RequestInv, UNCHANGED dirVars, NEW n \in Nodes, NEW l \in Lines,
         \/ L2WriteHit(n, l) \/ L2WriteCoalesce(n, l)
         \/ L2Evict(n, l) \/ L2SendWRB(n, l) \/ L2RemoveMSHR(n, l),
         ProtocolInv'
  PROVE  FlowInv'
<1>1. ProtocolInv /\ SetsFinite
  BY DEF RequestInv, FlowInv
<1>2. Stays /\ UNCHANGED <<inVars, outVars, OutboundReqs>> /\ OneByOne'
  BY CacheAlone
<1>3. UNCHANGED <<coheIn, atL1, replies, requests>>
  BY DEF L2WriteHit, L2WriteCoalesce, L2Evict, L2SendWRB, L2RemoveMSHR, portVars
<1>4. \A k \in Nodes, j \in Lines : Waits(k, j)' = Waits(k, j)
  <2>1. mshrs \in [Nodes -> [Lines -> MSHR \cup {NULL}]]
    BY <1>1 DEF ProtocolInv, L2Consistent, L2TypeOK
  <2>2. CASE UNCHANGED mshrs
    BY <2>2 DEF Waits
  <2>3. CASE L2WriteCoalesce(n, l)
    <3>1. mshrs' = [mshrs EXCEPT ![n][l].writes_present = TRUE] /\ mshrs[n][l] # NULL
      BY <2>3 DEF L2WriteCoalesce
    <3> PICK h : h = [mshrs[n][l] EXCEPT !.writes_present = TRUE]
      OBVIOUS
    <3>2. h \in MSHR /\ h.installed = mshrs[n][l].installed
      <4>1. mshrs[n][l] \in MSHR
        BY <2>1, <3>1
      <4> QED BY <4>1 DEF MSHR
    <3>3. mshrs' = [mshrs EXCEPT ![n][l] = h]
      BY <2>1, <3>1
    <3>4. \A k \in Nodes, j \in Lines :
            mshrs'[k][j] = IF k = n /\ j = l THEN h ELSE mshrs[k][j]
      BY <2>1, <3>3
    <3>5. h # NULL
      BY <3>2, MSHRAssumption
    <3> QED BY <3>1, <3>2, <3>4, <3>5 DEF Waits
  <2>4. CASE L2RemoveMSHR(n, l)
    <3>1. mshrs' = [mshrs EXCEPT ![n][l] = NULL] /\ mshrs[n][l].installed
      BY <2>4 DEF L2RemoveMSHR, Set
    <3> QED BY <2>1, <3>1 DEF Waits
  <2> QED BY <2>2, <2>3, <2>4 DEF L2WriteHit, L2Evict, L2SendWRB
<1>5. ASSUME NEW k \in Nodes, NEW j \in Lines, NEW S, S \in {Own(k, j), Fwd(k, j), Tok(k, j)}
      PROVE  Has(coheReps', S) = Has(coheReps, S)
  <2>1. CASE UNCHANGED coheReps
    BY <2>1
  <2>2. CASE coheReps' = coheReps \cup {WriteBackOf(n, l)} /\ wrb_buf[n][l] \in WrbTypes
    <3> PICK w : w = WriteBackOf(n, l)
      OBVIOUS
    <3>1. w.req_type \in WrbTypes /\ ~w.isreq
      BY <2>2 DEF WriteBackOf
    <3>2. w \notin S
      <4>1. w \notin Own(k, j) /\ w \notin Fwd(k, j)
        BY <3>1, NoColour
      <4>2. w \notin Tok(k, j)
        BY <3>1 DEF Tok, IsToken
      <4> QED BY <1>5, <4>1, <4>2
    <3>3. (coheReps \cup {w}) \cap S = coheReps \cap S
      BY <3>2
    <3> QED BY <2>2, <3>3 DEF Has
  <2>3. wrb_buf[n][l] \in {"NONE", "INVL", "WRB", "REPL"}
    BY <1>1 DEF ProtocolInv, L2Consistent, L2TypeOK
  <2> QED BY <2>1, <2>2, <2>3 DEF L2WriteHit, L2WriteCoalesce, L2Evict, L2SendWRB,
          L2RemoveMSHR, portVars, SendCoheRep, WrbTypes
<1>6. SetsFinite'
  <2>1. coheReps' = coheReps \/ coheReps' = coheReps \cup {WriteBackOf(n, l)}
    BY DEF L2WriteHit, L2WriteCoalesce, L2Evict, L2SendWRB, L2RemoveMSHR, portVars, SendCoheRep
  <2> QED BY <1>1, <1>3, <2>1, FS_AddElement DEF SetsFinite
<1>7. ASSUME NEW k \in Nodes, NEW j \in Lines, NEW S, S \in {Own(k, j), Fwd(k, j), Tok(k, j)}
      PROVE  Flow(S)' = Flow(S) /\ Held(S)' = Held(S)
  <2>1. Has(coheReps', S) = Has(coheReps, S)
    BY <1>5, <1>7
  <2>2. DirFlow(S)' = DirFlow(S) /\ Cells(coheIn', S) = Cells(coheIn, S)
        /\ Cells(atL1', S) = Cells(atL1, S)
    BY <1>2, <1>3 DEF DirFlow, inVars, outVars
  <2>3. Flow(S)' = DirFlow(S)' + (Cells(coheIn', S) + Cells(atL1', S) + Has(coheReps', S))
    BY DEF Flow, CacheFlow
  <2>4. Flow(S)' = Flow(S)
    BY <2>1, <2>2, <2>3 DEF Flow, CacheFlow
  <2> QED BY <1>2, <1>3, <2>4, PortsSame DEF inVars, outVars
<1>8. \A j \in Lines : SameFlow(j)
  BY <1>7 DEF SameFlow
<1>9. \A k \in Nodes, j \in Lines :
        /\ Waits(k, j)' = Waits(k, j)
        /\ Flow(Tok(k, j))' + Held(Tok(k, j))' = Flow(Tok(k, j)) + Held(Tok(k, j))
  BY <1>4, <1>7
<1> QED BY <1>2, <1>6, <1>8, <1>9, EvenKeeps

(* A reply is the request of an MSHR that waits.                           *)
LEMMA ReplyIsWaitedFor ==
  ASSUME RequestInv, NEW m \in replies
  PROVE  /\ m \in REQ /\ m \in ReplyMsg /\ m.node \in Nodes /\ m.tag \in Lines
         /\ \A n \in Nodes, l \in Lines : m \in Tok(n, l) <=> n = m.node /\ l = m.tag
         /\ Waits(m.node, m.tag)
<1>1. ProtocolInv /\ SetsFinite
  BY DEF RequestInv, FlowInv
<1>2. m \in ReplyMsg /\ m \in REQ
  BY <1>1, ShapesAreMessages DEF ProtocolInv, Shapes, CacheShapes
<1>3. m.isreq /\ m.forward_to = NULL /\ m.node \in Nodes /\ m.tag \in Lines
  BY <1>2 DEF ReplyMsg, REQ
<1>4. \A n \in Nodes, l \in Lines : m \in Tok(n, l) <=> n = m.node /\ l = m.tag
  BY <1>2, <1>3 DEF Tok, IsToken, Owner
<1> PICK n \in Nodes, l \in Lines : n = m.node /\ l = m.tag
  BY <1>3
<1> PICK S : S = Tok(n, l)
  OBVIOUS
<1>5. Has(replies, S) >= 1
  <2>1. Has(replies, S) >= One(m, S)
    BY <1>1, HasRemove DEF SetsFinite
  <2>2. One(m, S) = 1
    BY <1>4 DEF One
  <2> QED BY <2>1, <2>2
<1>6. /\ Cnt(inReq, S) \in Nat /\ Has(requests, S) \in Nat /\ Cnt(outRep, S) \in Nat
      /\ Has(replies, S) \in Nat
  BY <1>1, Counts
<1>7. Held(S) = Cnt(inReq, S) + Cnt(outRep, S) + (Has(requests, S) + Has(replies, S))
  BY DEF Held, CacheHeld
<1>8. /\ Flow(S) \in Nat /\ Held(S) \in Nat
      /\ ~Waits(n, l) => Flow(S) + Held(S) = 0
  BY Singles
<1>9. Waits(n, l)
  BY <1>5, <1>6, <1>7, <1>8
<1> QED BY <1>2, <1>3, <1>4, <1>9

(* Nothing moves.                                                          *)
LEMMA NothingMoves ==
  ASSUME RequestInv, UNCHANGED <<dirVars, cacheVars, portVars>>, ProtocolInv' PROVE FlowInv'
<1>1. ProtocolInv /\ SetsFinite
  BY DEF RequestInv, FlowInv
<1>2. Stays /\ UNCHANGED <<inVars, outVars, OutboundReqs>> /\ OneByOne'
  BY CacheAlone
<1>3. UNCHANGED <<mshrs, coheIn, atL1, replies, requests, coheReps>>
  BY DEF cacheVars, portVars
<1>4. ASSUME NEW S PROVE Flow(S)' = Flow(S) /\ Held(S)' = Held(S)
  BY <1>2, <1>3, PortsSame DEF inVars, outVars
<1>5. SetsFinite' /\ \A j \in Lines : SameFlow(j)
  BY <1>1, <1>3, <1>4 DEF SetsFinite, SameFlow
<1>6. \A k \in Nodes, j \in Lines :
        /\ Waits(k, j)' = Waits(k, j)
        /\ Flow(Tok(k, j))' + Held(Tok(k, j))' = Flow(Tok(k, j)) + Held(Tok(k, j))
  BY <1>3, <1>4 DEF Waits
<1> QED BY <1>2, <1>5, <1>6, EvenKeeps

(* A reply goes back as a request.                                         *)
LEMMA ReturnKeeps ==
  ASSUME RequestInv, UNCHANGED dirVars, NEW m \in replies, NEW r, SameRequest(m, r),
         replies' = replies \ {m}, requests' = requests \cup {r},
         UNCHANGED <<cacheVars, coheIn, coheReps>>, ProtocolInv'
  PROVE  FlowInv'
<1>1. ProtocolInv /\ SetsFinite
  BY DEF RequestInv, FlowInv
<1>2. Stays /\ UNCHANGED <<inVars, outVars, OutboundReqs>> /\ OneByOne'
  BY CacheAlone
<1>3. ASSUME NEW S PROVE Flow(S)' = Flow(S)
  BY <1>2, PortsSame DEF inVars, outVars, cacheVars
<1>4. ASSUME NEW k \in Nodes, NEW j \in Lines, NEW S, S = Tok(k, j)
      PROVE  Held(S)' = Held(S)
  <2>1. /\ Cnt(inReq, S) \in Nat /\ Has(requests, S) \in Nat /\ Cnt(outRep, S) \in Nat
        /\ Has(replies, S) \in Nat /\ One(m, S) \in Nat
    BY <1>1, Counts, OneType
  <2>2. Cnt(inReq', S) = Cnt(inReq, S) /\ Cnt(outRep', S) = Cnt(outRep, S)
    BY <1>2 DEF inVars, outVars
  <2>3. /\ Held(S) = Cnt(inReq, S) + Cnt(outRep, S) + (Has(requests, S) + Has(replies, S))
        /\ Held(S)' = Cnt(inReq', S) + Cnt(outRep', S) + (Has(requests', S) + Has(replies', S))
    BY DEF Held, CacheHeld
  <2>4. /\ Has(replies', S) = Has(replies, S) - One(m, S)
        /\ Has(replies, S) >= One(m, S)
    BY <1>1, HasRemove DEF SetsFinite
  <2>5. One(r, S) = One(m, S)
    BY <1>4, SameTok
  <2>6. r \in S => r \notin requests
    <3> SUFFICES ASSUME r \in S, r \in requests PROVE FALSE
      OBVIOUS
    <3>1. Has(requests, S) >= One(r, S) /\ One(r, S) = 1
      BY <1>1, HasRemove DEF SetsFinite, One
    <3>2. Flow(S) + Held(S) <= 1 /\ Flow(S) \in Nat
      BY <1>4, Singles
    <3> QED BY ONLY <2>1, <2>3, <2>4, <2>5, <3>1, <3>2
  <2>7. Has(requests', S) = Has(requests, S) + One(r, S)
    BY <1>1, <2>6, HasAdd DEF SetsFinite
  <2> QED BY ONLY <2>1, <2>2, <2>3, <2>4, <2>5, <2>7
<1>5. SetsFinite'
  BY <1>1, FS_AddElement, FS_RemoveElement DEF SetsFinite
<1>6. \A j \in Lines : SameFlow(j)
  BY <1>3 DEF SameFlow
<1>7. \A k \in Nodes, j \in Lines :
        /\ Waits(k, j)' = Waits(k, j)
        /\ Flow(Tok(k, j))' + Held(Tok(k, j))' = Flow(Tok(k, j)) + Held(Tok(k, j))
  BY <1>3, <1>4 DEF Waits, cacheVars
<1> QED BY <1>2, <1>5, <1>6, <1>7, EvenKeeps

(* A reply sets the line, and its MSHR waits no longer.                    *)
LEMMA InstallKeeps ==
  ASSUME RequestInv, UNCHANGED dirVars, NEW m \in replies, NEW held,
         L2Install(m, held), ReplyError(m) = "none", ProtocolInv'
  PROVE  FlowInv'
<1>1. ProtocolInv /\ SetsFinite
  BY DEF RequestInv, FlowInv
<1>2. Stays /\ UNCHANGED <<inVars, outVars, OutboundReqs>> /\ OneByOne'
  BY CacheAlone
<1>3. replies' = replies \ {m} /\ UNCHANGED <<atL1, coheIn, requests, coheReps>>
  BY DEF L2Install
<1> PICK n \in Nodes, l \in Lines : n = m.node /\ l = m.tag
  BY ReplyIsWaitedFor
<1>4. /\ m \in REQ /\ Waits(n, l)
      /\ \A k \in Nodes, j \in Lines : One(m, Tok(k, j)) = IF k = n /\ j = l THEN 1 ELSE 0
  BY ReplyIsWaitedFor DEF One
<1>5. \A k \in Nodes, j \in Lines :
        Waits(k, j)' = IF k = n /\ j = l THEN FALSE ELSE Waits(k, j)
  <2>1. mshrs \in [Nodes -> [Lines -> MSHR \cup {NULL}]]
    BY <1>1 DEF ProtocolInv, L2Consistent, L2TypeOK
  <2>2. CASE mshrs' = [mshrs EXCEPT ![n][l] = NULL]
    BY <2>1, <2>2 DEF Waits
  <2>3. CASE mshrs' = [mshrs EXCEPT ![n][l].installed = TRUE]
    <3>1. mshrs[n][l] \in MSHR
      BY <1>4, <2>1 DEF Waits
    <3> PICK h : h = [mshrs[n][l] EXCEPT !.installed = TRUE]
      OBVIOUS
    <3>2. h.installed
      BY <3>1 DEF MSHR
    <3>3. \A k \in Nodes, j \in Lines :
            mshrs'[k][j] = IF k = n /\ j = l THEN h ELSE mshrs[k][j]
      BY <2>1, <2>3
    <3> QED BY <3>2, <3>3 DEF Waits
  <2>4. mshrs' = IF held THEN [mshrs EXCEPT ![n][l].installed = TRUE]
                         ELSE [mshrs EXCEPT ![n][l] = NULL]
    BY DEF L2Install, Set
  <2> QED BY <2>2, <2>3, <2>4
<1>6. ASSUME NEW S PROVE Flow(S)' = Flow(S)
  BY <1>2, <1>3, PortsSame DEF inVars, outVars
<1>7. ASSUME NEW k \in Nodes, NEW j \in Lines, NEW S PROVE Held(S)' = Held(S) - One(m, S)
  <2>1. /\ Cnt(inReq, S) \in Nat /\ Has(requests, S) \in Nat /\ Cnt(outRep, S) \in Nat
        /\ Has(replies, S) \in Nat /\ One(m, S) \in Nat
    BY <1>1, Counts, OneType
  <2>2. /\ Cnt(inReq', S) = Cnt(inReq, S) /\ Cnt(outRep', S) = Cnt(outRep, S)
        /\ Has(requests', S) = Has(requests, S)
    BY <1>2, <1>3 DEF inVars, outVars
  <2>3. /\ Held(S) = Cnt(inReq, S) + Cnt(outRep, S) + (Has(requests, S) + Has(replies, S))
        /\ Held(S)' = Cnt(inReq', S) + Cnt(outRep', S) + (Has(requests', S) + Has(replies', S))
    BY DEF Held, CacheHeld
  <2>4. Has(replies', S) = Has(replies, S) - One(m, S)
    BY <1>1, <1>3, HasRemove DEF SetsFinite
  <2> QED BY ONLY <2>1, <2>2, <2>3, <2>4
<1>8. SetsFinite' /\ \A j \in Lines : SameFlow(j)
  BY <1>1, <1>3, <1>6, FS_RemoveElement DEF SetsFinite, SameFlow
<1>9. ASSUME NEW k \in Nodes, NEW j \in Lines
      PROVE  Flow(Tok(k, j))' + Held(Tok(k, j))'
               = Flow(Tok(k, j)) + Held(Tok(k, j))
                 + (IF Waits(k, j)' THEN 1 ELSE 0) - (IF Waits(k, j) THEN 1 ELSE 0)
  <2> PICK S : S = Tok(k, j)
    OBVIOUS
  <2>1. /\ Flow(S)' = Flow(S) /\ Held(S)' = Held(S) - One(m, S)
        /\ Flow(S) \in Nat /\ Held(S) \in Nat
    BY <1>6, <1>7, Singles
  <2>2. CASE k = n /\ j = l
    <3>1. One(m, S) = 1 /\ ~Waits(k, j)' /\ Waits(k, j)
      BY <1>4, <1>5, <2>2
    <3> QED BY <2>1, <3>1
  <2>3. CASE ~(k = n /\ j = l)
    <3>1. One(m, S) = 0 /\ Waits(k, j)' = Waits(k, j)
      BY <1>4, <1>5, <2>3
    <3> QED BY <2>1, <3>1
  <2> QED BY <2>2, <2>3
<1> QED BY <1>2, <1>8, <1>9, MovesKeep

(* All that a reply may do.                                                *)
LEMMA ReplyHandled ==
  ASSUME RequestInv, UNCHANGED dirVars, NEW n \in Nodes, HandleReply(n) \/ HoldReply(n),
         ProtocolInv'
  PROVE  FlowInv'
<1>1. ASSUME NEW c, L2Errmsg(c) PROVE FlowInv'
  BY <1>1, NothingMoves DEF L2Errmsg
<1>2. ASSUME NEW m \in replies, L2Retry(m) \/ L2Bounce(m) PROVE FlowInv'
  <2>1. m \in REQ /\ m \in ReplyMsg /\ Waits(m.node, m.tag)
    BY ReplyIsWaitedFor
  <2>2. m.forward_to = NULL
    BY <2>1 DEF ReplyMsg
  <2>3. CASE L2Retry(m)
    <3> PICK r : r = [m EXCEPT !.type = "REQUEST", !.reply = "REPLY"]
      OBVIOUS
    <3>1. /\ replies' = replies \ {m} /\ requests' = requests \cup {r}
          /\ UNCHANGED <<cacheVars, coheIn, coheReps>>
      BY <2>1, <2>3 DEF L2Retry, Waits
    <3>2. SameRequest(m, r)
      BY <2>1, <2>2 DEF SameRequest, Owner, REQ
    <3> QED BY <3>1, <3>2, ReturnKeeps
  <2>4. CASE L2Bounce(m)
    <3> PICK r : r = [m EXCEPT !.type = "REQUEST", !.preprocessed = TRUE]
      OBVIOUS
    <3>1. /\ replies' = replies \ {m} /\ requests' = requests \cup {r}
          /\ UNCHANGED <<cacheVars, coheIn, coheReps>>
      BY <2>4 DEF L2Bounce
    <3>2. SameRequest(m, r)
      BY <2>1, <2>2 DEF SameRequest, Owner, REQ
    <3> QED BY <3>1, <3>2, ReturnKeeps
  <2> QED BY <1>2, <2>3, <2>4
<1>3. ASSUME NEW m \in replies, NEW h, L2Install(m, h) PROVE FlowInv'
  <2>1. CASE ReplyError(m) # "none"
    BY <1>1, <1>3, <2>1 DEF L2Install
  <2>2. CASE ReplyError(m) = "none"
    BY <1>3, <2>2, InstallKeeps
  <2> QED BY <2>1, <2>2
<1> QED BY <1>2, <1>3 DEF HandleReply, HoldReply, ReplyAt

(* A COHE leaves its queue, or goes up to the first level.                 *)
LEMMA CellsTail ==
  ASSUME NEW S, NEW f \in [Nodes -> Seq(REQ)], NEW n \in Nodes, f[n] # <<>>
  PROVE  /\ Cells([f EXCEPT ![n] = Tail(@)], S) = Cells(f, S) - One(Head(f[n]), S)
         /\ Cells(f, S) >= One(Head(f[n]), S)
<1>1. f[n] \in Seq(REQ)
  OBVIOUS
<1> PICK q \in Seq(REQ) : q = f[n] /\ q # <<>>
  BY <1>1
<1>6. Tail(q) \in Seq(REQ)
  OBVIOUS
<1> PICK r \in Seq(REQ) : r = Tail(q)
  BY <1>6
<1>2. Cnt(r, S) = Cnt(q, S) - One(Head(q), S) /\ Cnt(q, S) >= One(Head(q), S)
  BY CntTail
<1>3. /\ Cells([f EXCEPT ![n] = r], S) = Cells(f, S) - Cnt(f[n], S) + Cnt(r, S)
      /\ Cells(f, S) >= Cnt(f[n], S)
  BY CellsOne
<1>4. [f EXCEPT ![n] = Tail(@)] = [f EXCEPT ![n] = r] /\ Cnt(f[n], S) = Cnt(q, S)
      /\ Head(f[n]) = Head(q)
  OBVIOUS
<1>5. Cells(f, S) \in Nat /\ Cnt(q, S) \in Nat /\ One(Head(q), S) \in Nat
  BY CellsFinite, WhereFinite, OneType
<1> QED BY <1>2, <1>3, <1>4, <1>5

LEMMA CellsAppend ==
  ASSUME NEW S, NEW f \in [Nodes -> Seq(REQ)], NEW n \in Nodes, NEW m \in REQ
  PROVE  Cells([f EXCEPT ![n] = Append(@, m)], S) = Cells(f, S) + One(m, S)
<1>1. f[n] \in Seq(REQ)
  OBVIOUS
<1> PICK q \in Seq(REQ) : q = f[n]
  BY <1>1
<1> PICK r \in Seq(REQ) : r = Append(q, m)
  BY SeqFacts
<1>2. Cnt(r, S) = Cnt(q, S) + One(m, S)
  BY CntAppend
<1>3. Cells([f EXCEPT ![n] = r], S) = Cells(f, S) - Cnt(f[n], S) + Cnt(r, S)
  BY CellsOne
<1>4. [f EXCEPT ![n] = Append(@, m)] = [f EXCEPT ![n] = r] /\ Cnt(f[n], S) = Cnt(q, S)
  OBVIOUS
<1>5. Cells(f, S) \in Nat
  BY CellsFinite
<1>6. Cnt(q, S) \in Nat /\ One(m, S) \in Nat
  BY WhereFinite, OneType
<1> QED BY <1>2, <1>3, <1>4, <1>5, <1>6

(* A COHE m is turned round, from either queue: its answer is a.           *)
TurnsRound(n, m, a) ==
  /\ coheReps' = coheReps \cup {a} /\ UNCHANGED requests
  /\ \/ /\ coheIn[n] # <<>> /\ m = Head(coheIn[n])
        /\ coheIn' = [coheIn EXCEPT ![n] = Tail(@)] /\ UNCHANGED atL1
     \/ /\ atL1[n] # <<>> /\ m = Head(atL1[n])
        /\ atL1' = [atL1 EXCEPT ![n] = Tail(@)] /\ UNCHANGED coheIn

LEMMA FlowTurns ==
  ASSUME RequestInv, UNCHANGED dirVars, NEW n \in Nodes, NEW m \in REQ, NEW a \in REQ,
         TurnsRound(n, m, a), NEW k \in Nodes, NEW l \in Lines,
         NEW S, S \in {Own(k, l), Fwd(k, l), Tok(k, l)}, One(a, S) \in {0, One(m, S)}
  PROVE  /\ Flow(S)' = Flow(S) - One(m, S) + One(a, S)
         /\ Flow(S) \in Nat /\ Flow(S) >= One(m, S)
<1>1. ProtocolInv /\ SetsFinite
  BY DEF RequestInv, FlowInv
<1>2. /\ Cnt(outCohe, S) \in Nat /\ Cnt(OutboundReqs, S) \in Nat /\ Cnt(inRep, S) \in Nat
      /\ Cells(coheIn, S) \in Nat /\ Cells(atL1, S) \in Nat /\ Has(coheReps, S) \in Nat
      /\ One(m, S) \in {0, 1} /\ One(a, S) \in {0, 1}
  BY <1>1, Counts, OneType
<1>3. coheIn \in [Nodes -> Seq(REQ)] /\ atL1 \in [Nodes -> Seq(REQ)]
  BY <1>1, QueueTypes
<1>4. /\ Cells(coheIn', S) + Cells(atL1', S) = Cells(coheIn, S) + Cells(atL1, S) - One(m, S)
      /\ Cells(coheIn, S) + Cells(atL1, S) >= One(m, S)
  <2>1. CASE /\ coheIn[n] # <<>> /\ m = Head(coheIn[n])
             /\ coheIn' = [coheIn EXCEPT ![n] = Tail(@)] /\ UNCHANGED atL1
    <3>1. /\ Cells(coheIn', S) = Cells(coheIn, S) - One(m, S)
          /\ Cells(coheIn, S) >= One(m, S)
      BY <1>3, <2>1, CellsTail
    <3>2. Cells(atL1', S) = Cells(atL1, S)
      BY <2>1
    <3> QED BY ONLY <1>2, <3>1, <3>2
  <2>2. CASE /\ atL1[n] # <<>> /\ m = Head(atL1[n])
             /\ atL1' = [atL1 EXCEPT ![n] = Tail(@)] /\ UNCHANGED coheIn
    <3>1. /\ Cells(atL1', S) = Cells(atL1, S) - One(m, S)
          /\ Cells(atL1, S) >= One(m, S)
      BY <1>3, <2>2, CellsTail
    <3>2. Cells(coheIn', S) = Cells(coheIn, S)
      BY <2>2
    <3> QED BY ONLY <1>2, <3>1, <3>2
  <2> QED BY <2>1, <2>2 DEF TurnsRound
<1>5. Flow(S) = (Cnt(outCohe, S) + Cnt(OutboundReqs, S) + Cnt(inRep, S))
                  + (Cells(coheIn, S) + Cells(atL1, S) + Has(coheReps, S))
  BY DEF Flow, DirFlow, CacheFlow
<1>6. a \in S => a \notin coheReps
  <2> SUFFICES ASSUME a \in S, a \in coheReps PROVE FALSE
    OBVIOUS
  <2>1. Has(coheReps, S) >= One(a, S) /\ One(a, S) = 1
    BY <1>1, HasRemove DEF SetsFinite, One
  <2>2. Flow(S) <= 1
    <3>1. /\ Flow(Own(k, l)) <= 1 /\ Flow(Fwd(k, l)) <= 1
          /\ Flow(Tok(k, l)) + Held(Tok(k, l)) <= 1
          /\ Flow(Tok(k, l)) \in Nat /\ Held(Tok(k, l)) \in Nat
      BY Singles
    <3>2. Flow(Tok(k, l)) <= 1
      BY ONLY <3>1
    <3> QED BY <3>1, <3>2
  <2>3. One(m, S) = 1
    BY <2>1
  <2> QED BY ONLY <1>2, <1>4, <1>5, <2>1, <2>2, <2>3
<1>7. Has(coheReps', S) = Has(coheReps, S) + One(a, S)
  BY <1>1, <1>6, HasAdd DEF SetsFinite, TurnsRound
<1>8. /\ Cnt(inRep', S) = Cnt(inRep, S) /\ Cnt(OutboundReqs', S) = Cnt(OutboundReqs, S)
      /\ Cnt(outCohe', S) = Cnt(outCohe, S)
  BY CacheAlone DEF inVars, outVars
<1>9. Flow(S)' = (Cnt(outCohe', S) + Cnt(OutboundReqs', S) + Cnt(inRep', S))
                   + (Cells(coheIn', S) + Cells(atL1', S) + Has(coheReps', S))
  BY DEF Flow, DirFlow, CacheFlow
<1>10. Cells(coheIn', S) + Cells(atL1', S) + Has(coheReps', S)
         = (Cells(coheIn, S) + Cells(atL1, S) - One(m, S)) + (Has(coheReps, S) + One(a, S))
  BY ONLY <1>4, <1>7
<1> QED BY ONLY <1>2, <1>4, <1>5, <1>8, <1>9, <1>10

(* It goes back with the request that it is, if it is one.                 *)
LEMMA TurnKeeps ==
  ASSUME RequestInv, UNCHANGED dirVars, NEW n \in Nodes, NEW m, NEW a,
         TurnsRound(n, m, a), SameCohe(m, a), SameRequest(m, a), UNCHANGED replies,
         \A k \in Nodes, j \in Lines : Waits(k, j)' = Waits(k, j), ProtocolInv'
  PROVE  FlowInv'
<1>1. ProtocolInv /\ SetsFinite /\ m \in REQ /\ a \in REQ
  BY DEF RequestInv, FlowInv, SameRequest
<1>2. Stays /\ UNCHANGED <<inVars, outVars, OutboundReqs>> /\ OneByOne'
  BY CacheAlone
<1>3. ASSUME NEW k \in Nodes, NEW j \in Lines, NEW S, S \in {Own(k, j), Fwd(k, j), Tok(k, j)}
      PROVE  Flow(S)' = Flow(S)
  <2>1. One(a, S) = One(m, S)
    <3>1. One(a, Tok(k, j)) = One(m, Tok(k, j))
      BY SameTok
    <3>2. One(a, Own(k, j)) = One(m, Own(k, j)) /\ One(a, Fwd(k, j)) = One(m, Fwd(k, j))
      BY SameColour
    <3> QED BY <1>3, <3>1, <3>2
  <2>2. Flow(S)' = Flow(S) - One(m, S) + One(a, S) /\ Flow(S) \in Nat
    BY <1>1, <1>3, <2>1, FlowTurns
  <2>3. One(m, S) \in Nat
    BY OneType
  <2> QED BY <2>1, <2>2, <2>3
<1>4. ASSUME NEW S PROVE Held(S)' = Held(S)
  BY <1>2, PortsSame DEF inVars, outVars, TurnsRound
<1>5. SetsFinite' /\ \A j \in Lines : SameFlow(j)
  BY <1>1, <1>3, FS_AddElement DEF SetsFinite, SameFlow, TurnsRound
<1>6. \A k \in Nodes, j \in Lines :
        /\ Waits(k, j)' = Waits(k, j)
        /\ Flow(Tok(k, j))' + Held(Tok(k, j))' = Flow(Tok(k, j)) + Held(Tok(k, j))
  BY <1>3, <1>4
<1> QED BY <1>2, <1>5, <1>6, EvenKeeps

(* A forwarded request that is served: the request goes on as a reply r,   *)
(* and the acknowledgment a is a request no more.                          *)
LEMMA ForwardKeeps ==
  ASSUME RequestInv, UNCHANGED dirVars, NEW n \in Nodes, NEW m, NEW a, NEW r,
         TurnsRound(n, m, a), SameCohe(m, a), SameRequest(m, r), ~a.isreq,
         replies' = replies \cup {r}, UNCHANGED mshrs, ProtocolInv'
  PROVE  FlowInv'
<1>1. ProtocolInv /\ SetsFinite /\ m \in REQ /\ a \in REQ /\ r \in REQ
  BY DEF RequestInv, FlowInv, SameRequest, SameCohe
<1>2. Stays /\ UNCHANGED <<inVars, outVars, OutboundReqs>> /\ OneByOne'
  BY CacheAlone
<1>3. ASSUME NEW k \in Nodes, NEW j \in Lines, NEW S, S \in {Own(k, j), Fwd(k, j)}
      PROVE  Flow(S)' = Flow(S)
  <2>1. One(a, S) = One(m, S)
    BY <1>3, SameColour
  <2>2. S \in {Own(k, j), Fwd(k, j), Tok(k, j)}
    BY <1>3
  <2>3. Flow(S)' = Flow(S) - One(m, S) + One(a, S) /\ Flow(S) \in Nat
    BY <1>1, <2>1, <2>2, FlowTurns
  <2>4. One(m, S) \in Nat
    BY OneType
  <2> QED BY <2>1, <2>3, <2>4
<1>4. ASSUME NEW k \in Nodes, NEW j \in Lines, NEW S, S = Tok(k, j)
      PROVE  Flow(S)' + Held(S)' = Flow(S) + Held(S)
  <2>1. One(a, S) = 0 /\ One(r, S) = One(m, S) /\ One(m, S) \in {0, 1}
    BY <1>4, NoToken, SameTok, OneType
  <2>2. S \in {Own(k, j), Fwd(k, j), Tok(k, j)}
    BY <1>4
  <2>3. /\ Flow(S)' = Flow(S) - One(m, S) + One(a, S) /\ Flow(S) \in Nat
        /\ Flow(S) >= One(m, S)
    BY <1>1, <2>1, <2>2, FlowTurns
  <2>4. /\ Cnt(inReq, S) \in Nat /\ Has(requests, S) \in Nat /\ Cnt(outRep, S) \in Nat
        /\ Has(replies, S) \in Nat
    BY <1>1, Counts
  <2>5. /\ Cnt(inReq', S) = Cnt(inReq, S) /\ Cnt(outRep', S) = Cnt(outRep, S)
        /\ Has(requests', S) = Has(requests, S)
    BY <1>2 DEF inVars, outVars, TurnsRound
  <2>6. /\ Held(S) = Cnt(inReq, S) + Cnt(outRep, S) + (Has(requests, S) + Has(replies, S))
        /\ Held(S)' = Cnt(inReq', S) + Cnt(outRep', S) + (Has(requests', S) + Has(replies', S))
    BY DEF Held, CacheHeld
  <2>7. r \in S => r \notin replies
    <3> SUFFICES ASSUME r \in S, r \in replies PROVE FALSE
      OBVIOUS
    <3>1. Has(replies, S) >= One(r, S) /\ One(r, S) = 1
      BY <1>1, HasRemove DEF SetsFinite, One
    <3>2. Flow(S) + Held(S) <= 1
      BY <1>4, Singles
    <3> QED BY ONLY <2>1, <2>3, <2>4, <2>6, <3>1, <3>2
  <2>8. Has(replies', S) = Has(replies, S) + One(r, S)
    BY <1>1, <2>7, HasAdd DEF SetsFinite
  <2> QED BY ONLY <2>1, <2>3, <2>4, <2>5, <2>6, <2>8
<1>5. SetsFinite' /\ \A j \in Lines : SameFlow(j)
  BY <1>1, <1>3, FS_AddElement DEF SetsFinite, SameFlow, TurnsRound
<1>6. \A k \in Nodes, j \in Lines :
        /\ Waits(k, j)' = Waits(k, j)
        /\ Flow(Tok(k, j))' + Held(Tok(k, j))' = Flow(Tok(k, j)) + Held(Tok(k, j))
  BY <1>4 DEF Waits
<1> QED BY <1>2, <1>5, <1>6, EvenKeeps

(* A COHE goes up.                                                         *)
LEMMA UpKeeps ==
  ASSUME RequestInv, UNCHANGED dirVars, NEW n \in Nodes, NEW m \in REQ,
         coheIn[n] # <<>>, m = Head(coheIn[n]), coheIn' = [coheIn EXCEPT ![n] = Tail(@)],
         atL1' = [atL1 EXCEPT ![n] = Append(@, m)],
         UNCHANGED <<mshrs, replies, requests, coheReps>>, ProtocolInv'
  PROVE  FlowInv'
<1>1. ProtocolInv /\ SetsFinite
  BY DEF RequestInv, FlowInv
<1>2. Stays /\ UNCHANGED <<inVars, outVars, OutboundReqs>> /\ OneByOne'
  BY CacheAlone
<1>3. coheIn \in [Nodes -> Seq(REQ)] /\ atL1 \in [Nodes -> Seq(REQ)]
  BY <1>1, QueueTypes
<1>4. ASSUME NEW S, NEW l \in Lines PROVE Flow(S)' = Flow(S)
  <2>1. Cells(coheIn', S) = Cells(coheIn, S) - One(m, S)
    BY <1>3, CellsTail
  <2>2. Cells(atL1', S) = Cells(atL1, S) + One(m, S)
    BY <1>3, CellsAppend
  <2>3. /\ Cells(coheIn, S) \in Nat /\ Cells(atL1, S) \in Nat /\ Has(coheReps, S) \in Nat
        /\ One(m, S) \in Nat
    <3>1. One(m, S) \in Nat
      BY OneType
    <3> QED BY <1>1, <1>4, <3>1, Counts
  <2>4. DirFlow(S)' = DirFlow(S) /\ Has(coheReps', S) = Has(coheReps, S)
    BY <1>2 DEF DirFlow, inVars, outVars
  <2>5. /\ Flow(S)' = DirFlow(S)' + (Cells(coheIn', S) + Cells(atL1', S) + Has(coheReps', S))
        /\ Flow(S) = DirFlow(S) + (Cells(coheIn, S) + Cells(atL1, S) + Has(coheReps, S))
    BY DEF Flow, CacheFlow
  <2>6. Cells(coheIn', S) + Cells(atL1', S) + Has(coheReps', S)
          = Cells(coheIn, S) + Cells(atL1, S) + Has(coheReps, S)
    BY ONLY <2>1, <2>2, <2>3, <2>4
  <2> QED BY <2>4, <2>5, <2>6
<1>5. ASSUME NEW S PROVE Held(S)' = Held(S)
  BY <1>2, PortsSame DEF inVars, outVars
<1>6. SetsFinite' /\ \A j \in Lines : SameFlow(j)
  BY <1>1, <1>4 DEF SetsFinite, SameFlow
<1>7. \A k \in Nodes, j \in Lines :
        /\ Waits(k, j)' = Waits(k, j)
        /\ Flow(Tok(k, j))' + Held(Tok(k, j))' = Flow(Tok(k, j)) + Held(Tok(k, j))
  BY <1>4, <1>5 DEF Waits
<1> QED BY <1>2, <1>6, <1>7, EvenKeeps

(* All that a COHE may do at a cache.                                      *)
LEMMA CoheHandled ==
  ASSUME RequestInv, UNCHANGED dirVars, NEW n \in Nodes, L2Cohe(n) \/ HandleCoheRep(n),
         ProtocolInv'
  PROVE  FlowInv'
<1>1. ProtocolInv /\ SetsFinite
  BY DEF RequestInv, FlowInv
<1>2. coheIn \in [Nodes -> Seq(CoheMsg)] /\ atL1 \in [Nodes -> Seq(CoheMsg)]
  BY <1>1 DEF ProtocolInv, Shapes, CacheShapes
<1>3. ASSUME NEW m \in CoheMsg, NEW c \in {"REPLY", "NACK", "NACK_PEND"}, NEW a,
             a = [m EXCEPT !.type = "COHE_REPLY", !.reply = c]
      PROVE  SameCohe(m, a) /\ SameRequest(m, a)
  BY <1>3, ShapesAreMessages DEF CoheMsg, SameCohe, SameRequest, Owner, REQ
<1>4. CASE L2Cohe(n)
  <2>1. /\ coheIn[n] \in Seq(CoheMsg) /\ coheIn[n] # <<>>
        /\ coheIn' = [coheIn EXCEPT ![n] = Tail(@)] /\ UNCHANGED <<mshrs, replies, requests>>
    BY <1>2, <1>4 DEF L2Cohe
  <2> PICK m \in CoheMsg : m = Head(coheIn[n])
    BY <2>1, SeqFacts
  <2>2. m \in REQ
    BY ShapesAreMessages
  <2>3. CASE atL1' = [atL1 EXCEPT ![n] = Append(@, m)] /\ UNCHANGED coheReps
    BY <2>1, <2>2, <2>3, UpKeeps
  <2>4. CASE SendCoheRep(Nack(m)) /\ UNCHANGED atL1
    <3> PICK a : a = Nack(m)
      OBVIOUS
    <3>1. SameCohe(m, a) /\ SameRequest(m, a)
      BY <1>3 DEF Nack
    <3>2. TurnsRound(n, m, a)
      BY <2>1, <2>4 DEF TurnsRound, SendCoheRep
    <3>3. \A k \in Nodes, j \in Lines : Waits(k, j)' = Waits(k, j)
      BY <2>1 DEF Waits
    <3> QED BY <2>1, <3>1, <3>2, <3>3, TurnKeeps
  <2> QED BY <1>4, <2>3, <2>4 DEF L2Cohe
<1>5. CASE L2CoheError(n)
  BY <1>5, NothingMoves DEF L2CoheError, L2Errmsg
<1> PICK m : m = Head(atL1[n])
  OBVIOUS
<1>6. ASSUME NEW c, L1Answer(n, c)
      PROVE  /\ m \in CoheMsg /\ atL1[n] # <<>>
             /\ atL1' = [atL1 EXCEPT ![n] = Tail(@)] /\ UNCHANGED <<coheIn, requests>>
  <2>1. atL1[n] \in Seq(CoheMsg) /\ atL1[n] # <<>>
    BY <1>2, <1>6 DEF L1Answer
  <2> QED BY <1>6, <2>1, SeqFacts DEF L1Answer
<1>7. CASE L2Forward(n)
  <2> PICK a, r :
        /\ a = [m EXCEPT !.type = "COHE_REPLY", !.reply = "REPLY", !.isreq = FALSE]
        /\ r = [m EXCEPT !.type = "REPLY", !.reply = "REPLY", !.node = m.forward_to,
                         !.req_type = ForwardType(m.req_type, st[n][m.tag]),
                         !.forward_to = NULL, !.nack_st = "NACK_OK"]
    OBVIOUS
  <2>1. /\ L1Answer(n, "FORWARD") /\ replies' = replies \cup {r} /\ SendCoheRep(a)
        /\ UNCHANGED mshrs
    BY <1>7 DEF L2Forward
  <2>2. m \in CoheMsg /\ TurnsRound(n, m, a)
    BY <1>6, <2>1 DEF TurnsRound, SendCoheRep
  <2>3. m.forward_to # NULL
    BY <2>1 DEF L1Answer, CoheClass
  <2>4. a \in AnswerMsg /\ r \in ReplyMsg
    BY <2>2, <2>3, ForwardedRequest
  <2>5. a \in REQ /\ r \in REQ /\ m \in REQ
    BY <2>2, <2>4, ShapesAreMessages
  <2>6. SameCohe(m, a) /\ ~a.isreq
    BY <2>2, <2>5 DEF SameCohe, CoheMsg, REQ
  <2>7. SameRequest(m, r)
    BY <2>3, <2>5 DEF SameRequest, Owner, REQ
  <2> QED BY <2>1, <2>2, <2>6, <2>7, ForwardKeeps
<1>8. CASE L2NackPend(n) \/ L2Merge(n) \/ L2NackInvl(n) \/ L2NackMiss(n) \/ L2Ack(n)
  <2>1. \E c : L1Answer(n, c)
    BY <1>8 DEF L2NackPend, L2Merge, L2NackInvl, L2NackMiss, L2Ack
  <2>2. /\ m \in CoheMsg /\ atL1[n] # <<>>
        /\ atL1' = [atL1 EXCEPT ![n] = Tail(@)] /\ UNCHANGED <<coheIn, requests>>
    BY <1>6, <2>1
  <2>3. UNCHANGED replies
    BY <1>8 DEF L2NackPend, L2Merge, L2NackInvl, L2NackMiss, L2Ack
  <2>4. \E c \in {"REPLY", "NACK", "NACK_PEND"} :
          SendCoheRep([m EXCEPT !.type = "COHE_REPLY", !.reply = c])
    BY <1>8 DEF L2NackPend, L2Merge, L2NackInvl, L2NackMiss, L2Ack, Nack
  <2> PICK c \in {"REPLY", "NACK", "NACK_PEND"} :
        SendCoheRep([m EXCEPT !.type = "COHE_REPLY", !.reply = c])
    BY <2>4
  <2> PICK a : a = [m EXCEPT !.type = "COHE_REPLY", !.reply = c]
    OBVIOUS
  <2>5. TurnsRound(n, m, a)
    BY <2>2 DEF TurnsRound, SendCoheRep
  <2>6. SameCohe(m, a) /\ SameRequest(m, a)
    BY <1>3, <2>2
  <2>7. \A k \in Nodes, j \in Lines : Waits(k, j)' = Waits(k, j)
    <3>1. CASE UNCHANGED mshrs
      BY <3>1 DEF Waits
    <3>2. CASE L2Merge(n)
      <4> PICK l \in Lines : l = m.tag
        BY <2>2 DEF CoheMsg, REQ
      <4>1. /\ mshrs' = [mshrs EXCEPT ![n][l].pend_cohe_type = "INVL"] /\ mshrs[n][l] # NULL
            /\ mshrs \in [Nodes -> [Lines -> MSHR \cup {NULL}]]
        BY <1>1, <3>2 DEF L2Merge, L1Answer, CoheClass, ProtocolInv, L2Consistent, L2TypeOK
      <4> PICK h : h = [mshrs[n][l] EXCEPT !.pend_cohe_type = "INVL"]
        OBVIOUS
      <4>2. h \in MSHR /\ h.installed = mshrs[n][l].installed
        <5>1. mshrs[n][l] \in MSHR
          BY <4>1
        <5> QED BY <5>1 DEF MSHR
      <4>3. \A k \in Nodes, j \in Lines :
              mshrs'[k][j] = IF k = n /\ j = l THEN h ELSE mshrs[k][j]
        BY <4>1
      <4>4. h # NULL
        BY <4>2, MSHRAssumption
      <4> QED BY <4>1, <4>2, <4>3, <4>4 DEF Waits
    <3> QED BY <1>8, <3>1, <3>2 DEF L2NackPend, L2NackInvl, L2NackMiss, L2Ack
  <2> QED BY <2>3, <2>5, <2>6, <2>7, TurnKeeps
<1> QED BY <1>4, <1>5, <1>7, <1>8 DEF HandleCoheRep
-----------------------------------------------------------------------------
(***************************************************************************)
(* The invariant holds from the start and after every step.                *)
(***************************************************************************)
LEMMA RequestStart == ASSUME Init PROVE RequestInv
<1>1. ProtocolInv
  BY ProtocolInit
<1>2. /\ coheIn = [n \in Nodes |-> <<>>] /\ atL1 = [n \in Nodes |-> <<>>]
      /\ replies = {} /\ requests = {} /\ coheReps = {}
      /\ mshrs = [n \in Nodes |-> [l \in Lines |-> NULL]]
      /\ extra = [l \in Lines |-> NULL] /\ BufPend = [l \in Lines |-> <<>>]
      /\ ReadyReqs = <<>> /\ OutboundReqs = <<>> /\ sel = "NONE" /\ req_partial = NULL
      /\ inReq = <<>> /\ inRep = <<>> /\ outCohe = <<>> /\ outRep = <<>>
  BY DEF Init, DirInit, FreshLines, L2Init
<1>3. ASSUME NEW S PROVE Cnt(<<>>, S) = 0 /\ Has({}, S) = 0
  <2>1. {} \cap S = {}
    OBVIOUS
  <2> QED BY <2>1, CntEmpty, FS_EmptySet DEF Has
<1>4. ASSUME NEW S, NEW f, f = [n \in Nodes |-> <<>>] PROVE Cells(f, S) = 0
  <2>1. ASSUME NEW k \in Nodes PROVE Row(f, k, S) = {}
    BY <1>4 DEF Row, Where
  <2>2. Rows(f, S) = {}
    BY <2>1 DEF Rows
  <2> QED BY <2>2, FS_EmptySet DEF Cells
<1>5. ASSUME NEW S, NEW l \in Lines
      PROVE  DirFlow(S) = 0 /\ CacheFlow(S) = 0 /\ DirHeld(S, l) = 0 /\ CacheHeld(S) = 0
  <2>1. Cells(coheIn, S) = 0 /\ Cells(atL1, S) = 0
    BY <1>2, <1>4
  <2>2. BufPend[l] = <<>>
    BY <1>2
  <2> QED BY <1>2, <1>3, <2>1, <2>2 DEF DirFlow, CacheFlow, DirHeld, CacheHeld
<1>6. ASSUME NEW l \in Lines PROVE TransOK(l)
  <2>1. extra[l] = NULL /\ req_partial # l
    BY <1>2, NullAssumption
  <2>2. ASSUME NEW S PROVE Flow(S) = 0
    BY <1>5 DEF Flow
  <2> QED BY <2>1, <2>2 DEF TransOK, Quiet
<1>7. ASSUME NEW n \in Nodes, NEW l \in Lines
      PROVE  DirTok(n, l) + CacheTok(n, l) = IF Waits(n, l) THEN 1 ELSE 0
  <2>1. InExtra(n, l) = 0 /\ ~Waits(n, l)
    BY <1>2 DEF InExtra, Waits
  <2>2. DirTok(n, l) = 0 /\ CacheTok(n, l) = 0
    BY <1>5, <2>1 DEF DirTok, CacheTok
  <2> QED BY <2>1, <2>2
<1>8. SetsFinite /\ OneByOne
  BY <1>2, FS_EmptySet DEF SetsFinite, OneByOne
<1> QED BY <1>1, <1>6, <1>7, <1>8 DEF RequestInv, FlowInv, TransInv, OneEach

LEMMA RequestStep == ASSUME RequestInv, [Next]_vars PROVE RequestInv'
<1>1. ProtocolInv'
  BY ProtocolStep DEF RequestInv
<1>2. CASE UNCHANGED vars
  BY <1>1, <1>2, NothingMoves DEF vars, l2Vars, RequestInv
<1>3. CASE DirectoryStep
  BY <1>1, <1>3, DirectoryKeeps DEF DirectoryStep, RequestInv
<1>4. CASE Network
  BY <1>1, <1>4, RequestKeeps, AnswerKeeps, CoheKeeps, ReplyKeeps DEF Network, RequestInv
<1>5. ASSUME NEW n \in Nodes, UNCHANGED dirVars, L2Step(n) PROVE FlowInv'
  <2>1. CASE Access(n)
    BY <1>1, <2>1, <1>5, MissKeeps, AloneKeeps DEF Access
  <2>2. CASE HandleReply(n) \/ HoldReply(n)
    BY <1>1, <2>2, <1>5, ReplyHandled
  <2>3. CASE L2Cohe(n) \/ HandleCoheRep(n)
    BY <1>1, <2>3, <1>5, CoheHandled
  <2>4. CASE \E l \in Lines : L2Evict(n, l) \/ L2SendWRB(n, l) \/ L2RemoveMSHR(n, l)
    BY <1>1, <2>4, <1>5, AloneKeeps
  <2> QED BY <1>5, <2>1, <2>2, <2>3, <2>4 DEF L2Step
<1> QED BY <1>1, <1>2, <1>3, <1>4, <1>5 DEF Next, ByCache, RequestInv

(* The messages counted along their ways make up the one request of each   *)
(* MSHR, and the COHEs of each transaction.                                *)
THEOREM RequestsConserved == Spec => []RequestInv
<1>1. Init => RequestInv
  BY RequestStart
<1>2. RequestInv /\ [Next]_vars => RequestInv'
  BY RequestStep
<1> QED BY <1>1, <1>2, PTL DEF Spec

(* No request is lost and none is answered twice: through forwards, NACKs, *)
(* RARs, bounces and the directory's buffers, each MSHR that waits for its *)
(* REPLY has exactly one request somewhere, and no other node or line has. *)
THEOREM NoRequestLost == Spec => []OneRequestInFlight
<1>1. RequestInv => OneRequestInFlight
  <2> SUFFICES ASSUME RequestInv, NEW n \in Nodes, NEW l \in Lines
               PROVE  Tokens(n, l) = IF Waits(n, l) THEN 1 ELSE 0
    BY DEF OneRequestInFlight, Waits
  <2>1. Tokens(n, l) = DirTok(n, l) + CacheTok(n, l)
    BY TokensAre DEF RequestInv, FlowInv
  <2> QED BY <2>1 DEF RequestInv, FlowInv, OneEach
<1> QED BY <1>1, RequestsConserved, PTL
-----------------------------------------------------------------------------
(***************************************************************************)
(* Errors that no run of the protocol can reach.                           *)
(***************************************************************************)
(* What is left: an unexpected type of a request that was rewritten and    *)
(* not committed, the null request of a delayed COHE, and a write-back of  *)
(* a node that the directory does not take for the owner.                  *)
ErrorsLeft == {"none", "unknown request type", "null pointer", "uncached write-back",
               "waiting for another node"}
ErrorsExcluded == fatal \in ErrorsLeft /\ l2fatal # "nonexistent MSHR"

(* The directory always expects the answer it serves: DIRCOHEREP finds the *)
(* transaction, a NACK or NACK_PEND is a forwarded request that it keeps,  *)
(* and the last answer to a forward is not the request itself.             *)
LEMMA AnswerExpected ==
  ASSUME RequestInv, ServeRep, Answer.req_type \notin WrbTypes
  PROVE  AnswerError(Answer) = "none"
<1>1. ProtocolInv
  BY DEF RequestInv
<1>2. inRep \in Seq(AnswerMsg) /\ inRep # <<>>
  BY <1>1 DEF ServeRep, ProtocolInv, IInv, CtlInv, PickedThere, Shapes, DirShapes
<1>3. Answer \in AnswerMsg
  BY <1>2 DEF Answer
<1> PICK m \in AnswerMsg : m = Answer
  BY <1>3
<1>4. m \in CoheRepMsg /\ m \in REQ
  BY ShapesAreMessages DEF AnswerMsg
<1> PICK l \in Lines : l = m.tag
  BY <1>4 DEF REQ
<1>5. Answering(l, m)
  BY AnswerOf
<1> PICK e : e = extra[l]
  OBVIOUS
<1>6. /\ e # NULL /\ (e.nack_st = "NACK_NOK" <=> e.ret_st = "ACK_REPLY")
      /\ (m.forward_to # NULL <=> e.ret_st = "ACK_REPLY")
  BY <1>5 DEF Answering, PendReq
<1>7. m.reply \in {"REPLY", "NACK", "NACK_PEND"}
  BY <1>4 DEF CoheRepMsg, REQ
<1>8. /\ m.isreq => m.req_type # "INVL"
      /\ m.isreq <=> m.forward_to # NULL /\ m.reply # "REPLY"
      /\ m.reply = "NACK_PEND" => m.isreq
  BY DEF AnswerMsg
<1>9. m.reply = "NACK_PEND" => e.nack_st = "NACK_NOK"
  BY <1>6, <1>8
<1>10. CASE AnswerClass(m) = "RETRY" \/ AnswerClass(m) = "RACE"
  <2>1. m.isreq
    BY <1>6, <1>7, <1>8, <1>10 DEF AnswerClass
  <2>2. m.forward_to # NULL /\ m.req_type # "INVL"
    BY <1>8, <2>1
  <2> QED BY <1>6, <1>9, <1>10, <2>1, <2>2 DEF AnswerError
<1>11. CASE AnswerClass(m) = "RESEND"
  BY <1>6, <1>9, <1>11 DEF AnswerError
<1>12. CASE AnswerClass(m) = "ACK"
  <2>1. m.forward_to # NULL => e.ret_st = "ACK_REPLY"
    BY <1>6
  <2>2. ~(e.ret_st = "ACK_REPLY" /\ m.isreq)
    BY <1>6, <1>7, <1>8, <1>12 DEF AnswerClass
  <2> QED BY <1>6, <1>9, <1>12, <2>1, <2>2 DEF AnswerError
<1>13. AnswerClass(m) \in {"RETRY", "RACE", "RESEND", "ACK"}
  BY DEF AnswerClass
<1> QED BY <1>10, <1>11, <1>12, <1>13

(* Of the errors on a request and on a write-back some stay possible.      *)
LEMMA RequestErrors ==
  ASSUME ProtocolInv, ServeReq PROVE ReqError(Request) \in ErrorsLeft
<1>1. /\ ReadyReqs \in Seq(PlainRequest) /\ inReq \in Seq(RequestMsg)
      /\ (wasPending => ReadyReqs # <<>>) /\ (~wasPending => inReq # <<>>)
  BY DEF ServeReq, wasPending, ProtocolInv, IInv, CtlInv, PickedThere, Shapes, DirShapes
<1>2. wasPending => ~Request.preprocessed
  BY <1>1 DEF Request, PlainRequest
<1>3. Request \in RequestMsg
  BY <1>1, ShapesAreMessages DEF Request
<1> PICK m \in RequestMsg : m = Request
  BY <1>3
<1> PICK l \in Lines : l = m.tag
  BY ShapesAreMessages DEF REQ
<1>4. /\ dirst[l] = "DIR_PRIVATE" => Cardinality(vector[l]) = 1
      /\ dirst[l] = "DIR_SHARED" => vector[l] # {}
  BY FS_Singleton DEF ProtocolInv, IInv, LineInv, VectorOK
<1> QED BY <1>2, <1>4 DEF ReqError, ErrorsLeft

LEMMA WriteBackErrors ==
  ASSUME ProtocolInv, ServeRep PROVE WrbError(Answer) \in ErrorsLeft
<1>1. inRep \in Seq(AnswerMsg) /\ inRep # <<>>
  BY DEF ServeRep, ProtocolInv, IInv, CtlInv, PickedThere, Shapes, DirShapes
<1>2. Answer \in REQ
  BY <1>1, ShapesAreMessages DEF Answer
<1> PICK m \in REQ : m = Answer
  BY <1>2
<1> PICK l \in Lines : l = m.tag
  BY DEF REQ
<1>3. dirst[l] = "DIR_PRIVATE" => Cardinality(vector[l]) = 1
  BY FS_Singleton DEF ProtocolInv, IInv, LineInv, VectorOK
<1>4. extra[l] # NULL /\ extra[l].waiting => extra[l].counter = 1
  BY DEF ProtocolInv, IInv, LineInv, CounterOK
<1> QED BY <1>3, <1>4 DEF WrbError, Expected, ErrorsLeft

LEMMA ExcludedStep ==
  ASSUME RequestInv, ErrorsExcluded, [Next]_vars PROVE ErrorsExcluded'
<1>1. fatal \in ErrorsLeft /\ l2fatal # "nonexistent MSHR" /\ ProtocolInv
  BY DEF ErrorsExcluded, RequestInv
<1>2. ASSUME DirStep PROVE fatal' \in ErrorsLeft
  <2>1. CASE DirReqError
    BY <1>1, <2>1, RequestErrors DEF DirReqError, YS__errmsg
  <2>2. CASE DirSendCoheNull
    BY <2>2 DEF DirSendCoheNull, YS__errmsg, ErrorsLeft
  <2>3. CASE DirCoheRepError
    BY <2>3, AnswerExpected DEF DirCoheRepError
  <2>4. CASE DirWrbError
    BY <1>1, <2>4, WriteBackErrors DEF DirWrbError, YS__errmsg
  <2>5. CASE DirStart
    BY <1>1, <2>5 DEF DirStart, DirActivate, DirOutbound, DirPick, DirNextPort
  <2>6. CASE DirReqBounce \/ DirReqRAR \/ DirReqPend \/ DirReqGrant
             \/ DirReqWaitForWRB \/ DirReqInval \/ DirReqForward
    BY <1>1, <2>6 DEF DirReqBounce, DirReqRAR, DirReqPend, DirReqGrant,
                      DirReqWaitForWRB, DirReqInval, DirReqForward
  <2>7. CASE DirSendForward \/ DirSendInval
    BY <1>1, <2>7 DEF DirSendForward, DirSendInval
  <2>8. CASE DirNackRace \/ DirNackRetry \/ DirNackPendResend
             \/ DirAck \/ DirAckReply \/ DirAckForward
    BY <1>1, <2>8 DEF DirNackRace, DirNackRetry, DirNackPendResend,
                      DirAck, DirAckReply, DirAckForward, Answers
  <2>9. CASE DirWrbRevive \/ DirWrbWasHere \/ DirWrbPlain
    BY <1>1, <2>9 DEF DirWrbRevive, DirWrbWasHere, DirWrbPlain, WriteBack
  <2> QED BY <1>2, <2>1, <2>2, <2>3, <2>4, <2>5, <2>6, <2>7, <2>8, <2>9
             DEF DirStep, DirReq, DirSend, DirCoheRep, DirWrb
<1>3. ASSUME NEW n \in Nodes, L2Step(n) PROVE l2fatal' # "nonexistent MSHR"
  <2>1. ASSUME NEW m \in replies PROVE mshrs[m.node][m.tag] # NULL
    BY ReplyIsWaitedFor DEF Waits
  <2>2. CASE Access(n)
    BY <1>1, <2>2 DEF Access, L2Miss, L2WriteHit, L2WriteCoalesce
  <2>3. CASE HandleReply(n) \/ HoldReply(n)
    <3>1. ASSUME NEW m \in replies, L2Retry(m) \/ L2Bounce(m)
          PROVE  l2fatal' # "nonexistent MSHR"
      BY <1>1, <2>1, <3>1 DEF L2Retry, L2Bounce
    <3>2. ASSUME NEW m \in replies, L2Install(m, TRUE) \/ L2Install(m, FALSE)
          PROVE  l2fatal' # "nonexistent MSHR"
      <4>1. ReplyError(m) # "nonexistent MSHR"
        BY <2>1 DEF ReplyError
      <4> QED BY <1>1, <3>2, <4>1 DEF L2Install, L2Errmsg
    <3> QED BY <2>3, <3>1, <3>2 DEF HandleReply, HoldReply, ReplyAt
  <2>4. CASE L2Cohe(n)
    BY <1>1, <2>4 DEF L2Cohe
  <2>5. CASE HandleCoheRep(n)
    BY <1>1, <2>5 DEF HandleCoheRep, L2NackPend, L2Merge, L2NackInvl, L2NackMiss, L2Ack,
                      L2Forward, L2CoheError, L1Answer, L2Errmsg
  <2>6. CASE \E l \in Lines : L2Evict(n, l) \/ L2SendWRB(n, l) \/ L2RemoveMSHR(n, l)
    BY <1>1, <2>6 DEF L2Evict, L2SendWRB, L2RemoveMSHR
  <2> QED BY <1>3, <2>2, <2>3, <2>4, <2>5, <2>6 DEF L2Step
<1>4. CASE UNCHANGED vars
  BY <1>1, <1>4 DEF vars, dirVars, l2Vars, ErrorsExcluded
<1>5. CASE DirectoryStep
  BY <1>1, <1>2, <1>5 DEF DirectoryStep, l2Vars, ErrorsExcluded
<1>6. CASE Network
  BY <1>1, <1>6 DEF Network, DeliverRequest, DeliverCoheReply, DeliverCoheRep, DeliverCohe,
                    DeliverReply, ArriveReq, ArriveRep, Arrival, TakeCohe, TakeRep, Removal,
                    ErrorsExcluded
<1>7. ASSUME NEW n \in Nodes, UNCHANGED dirVars, L2Step(n) PROVE ErrorsExcluded'
  BY <1>1, <1>3, <1>7 DEF dirVars, ErrorsExcluded
<1> QED BY <1>4, <1>5, <1>6, <1>7 DEF Next, ByCache

(* Every answer that the directory serves is one that its transaction      *)
(* waits for, and every reply finds its MSHR: of the errors of the source  *)
(* those on coherence replies, on the sharer vector and on replies without *)
(* MSHR are never reached.                                                 *)
THEOREM ErrorsNeverReached == Spec => []ErrorsExcluded
<1>1. Init => ErrorsExcluded
  BY DEF Init, DirInit, L2Init, ErrorsExcluded, ErrorsLeft
<1>2. RequestInv /\ ErrorsExcluded /\ [Next]_vars => ErrorsExcluded'
  BY ExcludedStep
<1> QED BY <1>1, <1>2, RequestsConserved, PTL DEF Spec
=============================================================================
