---------------------------- MODULE OwnerProofs -----------------------------
(***************************************************************************)
(* A line has one writer, the directory knows the copies, and no error is  *)
(* reached but for want of room in an output port, in a machine of any     *)
(* size.  OwnerLemmas says what the directory and the network do to the    *)
(* invariant; the caches follow here, and the theorems.                    *)
(***************************************************************************)
EXTENDS OwnerLemmas

(***************************************************************************)
(* The steps of the caches.                                                *)
(***************************************************************************)
Ups == (UNION {Range(coheIn[n]) : n \in Nodes}) \cup (UNION {Range(atL1[n]) : n \in Nodes})

LEMMA UpsAre ==
  /\ \A x : x \in Ups <=> \E i \in Nodes : x \in Range(coheIn[i]) \/ x \in Range(atL1[i])
  /\ \A x : x \in Ups' <=> \E i \in Nodes : x \in Range(coheIn'[i]) \/ x \in Range(atL1'[i])
<1>1. \A x : x \in Ups <=> \E i \in Nodes : x \in Range(coheIn[i]) \/ x \in Range(atL1[i])
  BY DEF Ups
<1>2. \A x : x \in Ups' <=> \E i \in Nodes : x \in Range(coheIn'[i]) \/ x \in Range(atL1'[i])
  BY DEF Ups
<1> QED BY <1>1, <1>2

LEMMA Popped ==
  ASSUME NEW q \in Seq(REQ), q # <<>>, NEW m, m = Head(q)
  PROVE  m \in REQ /\ Range(Tail(q)) \cup {m} = Range(q)
  BY SeqFacts, TailRange

LEMMA CacheAloneLine ==
  ASSUME OwnerInv, UNCHANGED dirVars
  PROVE  /\ DirMail' = DirMail /\ inRep' = inRep
         /\ \A k \in Lines : SameBook(k)
         /\ coheReps' = coheReps => \A k \in Lines : Backs(k)' = Backs(k)
         /\ UNCHANGED <<dirst, vector, extra, req_partial>>
<1>1. UNCHANGED <<dirst, vector, extra, req_partial, inRep>>
  BY DEF dirVars, lineVars, ctlVars, inVars
<1> QED BY <1>1, PartsSame, SameBooks, BacksSame

LEMMA CacheMails ==
  /\ Mail = DirMail \cup requests \cup replies \cup coheReps \cup Ups
  /\ Mail' = DirMail' \cup requests' \cup replies' \cup coheReps' \cup Ups'
  /\ UNCHANGED <<coheIn, atL1>> => Ups' = Ups
<1>1. UNCHANGED <<coheIn, atL1>> => Ups' = Ups
  BY DEF Ups
<1> QED BY <1>1 DEF Mail, CacheMail, Ups

(* What a step of cache n writes about line l.                             *)
LEMMA CacheWrites ==
  ASSUME OwnerInv, NEW n \in Nodes, NEW l \in Lines, NEW s, NEW w, NEW h,
         st' = Set(st, n, l, s), wrb_buf' = Set(wrb_buf, n, l, w), mshrs' = Set(mshrs, n, l, h)
  PROVE  /\ st'[n][l] = s /\ wrb_buf'[n][l] = w /\ mshrs'[n][l] = h
         /\ \A k \in Lines : k # l => SameCaches(k)
         /\ \A i \in Nodes : i # n => SameCache(i, l)
<1>1. /\ st \in [Nodes -> [Lines -> States]] /\ mshrs \in [Nodes -> [Lines -> MSHR \cup {NULL}]]
      /\ wrb_buf \in [Nodes -> [Lines -> {"NONE", "INVL", "WRB", "REPL"}]]
  BY OwnerFacts DEF ProtocolInv, L2Consistent, L2TypeOK
<1>2. st'[n][l] = s /\ wrb_buf'[n][l] = w /\ mshrs'[n][l] = h
  BY <1>1 DEF Set
<1>3. \A i \in Nodes, k \in Lines : i # n \/ k # l =>
        st'[i][k] = st[i][k] /\ wrb_buf'[i][k] = wrb_buf[i][k] /\ mshrs'[i][k] = mshrs[i][k]
  BY <1>1 DEF Set
<1>4. \A i \in Nodes, k \in Lines : i # n \/ k # l => SameCache(i, k)
  BY <1>3 DEF SameCache
<1> QED BY <1>2, <1>4 DEF SameCaches

LEMMA SameEntry ==
  ASSUME OwnerInv, NEW n \in Nodes, NEW l \in Lines
  PROVE  /\ UNCHANGED st => st' = Set(st, n, l, st[n][l])
         /\ UNCHANGED wrb_buf => wrb_buf' = Set(wrb_buf, n, l, wrb_buf[n][l])
         /\ UNCHANGED mshrs => mshrs' = Set(mshrs, n, l, mshrs[n][l])
<1>1. /\ st \in [Nodes -> [Lines -> States]] /\ mshrs \in [Nodes -> [Lines -> MSHR \cup {NULL}]]
      /\ wrb_buf \in [Nodes -> [Lines -> {"NONE", "INVL", "WRB", "REPL"}]]
  BY OwnerFacts DEF ProtocolInv, L2Consistent, L2TypeOK
<1> QED BY <1>1 DEF Set

LEMMA AtCache ==
  ASSUME OwnerInv, AllOnes', UNCHANGED dirVars, NEW l \in Lines, Agree(l)',
         \A k \in Lines : k # l => Msgs(k)' = Msgs(k) /\ Backs(k)' = Backs(k) /\ SameCaches(k)
  PROVE  \A k \in Lines : Agree(k)'
  BY CacheAloneLine, OthersAgree DEF LineSame

LEMMA CacheFails ==
  ASSUME OwnerInv, AllOnes', UNCHANGED dirVars, UNCHANGED <<cacheVars, portVars>>
  PROVE  \A k \in Lines : Agree(k)'
<1>1. UNCHANGED <<st, mshrs, wrb_buf, atL1, coheIn, requests, replies, coheReps>>
  BY DEF cacheVars, portVars
<1>2. Mail' = Mail
  BY <1>1, CacheMails, CacheAloneLine
<1>3. \A k \in Lines : QuietLine(k)
  BY <1>1, CacheAloneLine, CachesSame DEF QuietLine
<1> QED BY <1>2, <1>3, NothingPosted

(* The processor's accesses.                                               *)
LEMMA MissDone ==
  ASSUME OwnerInv, AllOnes', UNCHANGED dirVars, NEW n \in Nodes, NEW l \in Lines,
         NEW t \in PrcrTypes, L2Miss(n, l, t)
  PROVE  \A k \in Lines : Agree(k)'
<1>1. ProtocolInv /\ Agree(l) /\ Ones(l)
  BY OwnerFacts DEF OwnerInv, AllOnes
<1> PICK q : q = NxtModReq(t, st[n][l])
  OBVIOUS
<1> PICK r : r = Request0(n, l, q)
  OBVIOUS
<1> PICK h : h = [excl |-> t # "READ", writes_present |-> t = "WRITE",
                  pend_cohe_type |-> "NONE", installed |-> FALSE]
  OBVIOUS
<1>2. /\ wrb_buf[n][l] = "NONE" /\ mshrs[n][l] = NULL /\ q # "NONE"
      /\ mshrs' = Set(mshrs, n, l, h) /\ requests' = requests \cup {r}
      /\ UNCHANGED <<st, wrb_buf, atL1, coheIn, replies, coheReps>>
  BY DEF L2Miss, Stalls
<1>3. /\ IsPlain(r) /\ r.node = n /\ r.type = "REQUEST" /\ ~r.preprocessed /\ r.req_type = q
      /\ r.tag = l
  BY DEF Request0, IsPlain
<1>4. h.excl = (t # "READ")
  OBVIOUS
<1>5. /\ st'[n][l] = st[n][l] /\ wrb_buf'[n][l] = wrb_buf[n][l] /\ mshrs'[n][l] = h
      /\ \A k \in Lines : k # l => SameCaches(k)
      /\ \A i \in Nodes : i # n => SameCache(i, l)
  <2>1. /\ st' = Set(st, n, l, st[n][l]) /\ wrb_buf' = Set(wrb_buf, n, l, wrb_buf[n][l])
        /\ mshrs' = Set(mshrs, n, l, h) /\ OwnerInv
    BY <1>2, SameEntry
  <2> QED BY ONLY <2>1, n \in Nodes, l \in Lines, CacheWrites
<1>6. Posts({}, {r})
  BY <1>2, CacheMails, CacheAloneLine DEF Posts
<1>7. /\ Msgs(l)' = Msgs(l) \cup {r}
      /\ \A k \in Lines : k # l => Msgs(k)' = Msgs(k)
  BY <1>3, <1>6, Put
<1>8. \A k \in Lines : Backs(k)' = Backs(k) /\ SameBook(k)
  BY <1>2, CacheAloneLine
<1>9. Agree(l)'
  <2>1. mshrs'[n][l].excl = (t # "READ") /\ q = NxtModReq(t, st[n][l])
    BY <1>4, <1>5
  <2> QED BY <1>1, <1>2, <1>3, <1>5, <1>7, <1>8, <2>1, MissAgrees
<1> QED BY <1>5, <1>7, <1>8, <1>9, AtCache

LEMMA WriteDone ==
  ASSUME OwnerInv, AllOnes', UNCHANGED dirVars, NEW n \in Nodes, NEW l \in Lines,
         L2WriteHit(n, l) \/ L2WriteCoalesce(n, l)
  PROVE  \A k \in Lines : Agree(k)'
<1>1. UNCHANGED <<wrb_buf, atL1, coheIn, requests, replies, coheReps>>
  BY DEF L2WriteHit, L2WriteCoalesce, portVars
<1>2. Mail' = Mail
  BY <1>1, CacheMails, CacheAloneLine
<1>3. /\ st \in [Nodes -> [Lines -> States]] /\ mshrs \in [Nodes -> [Lines -> MSHR \cup {NULL}]]
      /\ wrb_buf \in [Nodes -> [Lines -> {"NONE", "INVL", "WRB", "REPL"}]]
  BY OwnerFacts DEF ProtocolInv, L2Consistent, L2TypeOK
<1>4. \A i \in Nodes, k \in Lines : SameCache(i, k)
  <2>1. CASE L2WriteHit(n, l)
    <3>1. st' = [st EXCEPT ![n][l] = "PR_DY"] /\ st[n][l] = "PR_CL" /\ mshrs' = mshrs
      BY <2>1 DEF L2WriteHit, Set
    <3> QED BY <1>1, <1>3, <3>1 DEF SameCache, Private, States
  <2>2. CASE L2WriteCoalesce(n, l)
    <3>1. mshrs' = [mshrs EXCEPT ![n][l].writes_present = TRUE] /\ st' = st /\ mshrs[n][l] # NULL
      BY <2>2 DEF L2WriteCoalesce
    <3>2. mshrs[n][l] \in MSHR
      BY <1>3, <3>1
    <3>3. mshrs'[n][l] = [mshrs[n][l] EXCEPT !.writes_present = TRUE]
      BY <1>3, <3>1
    <3>4. /\ mshrs'[n][l].excl = mshrs[n][l].excl
          /\ mshrs'[n][l].pend_cohe_type = mshrs[n][l].pend_cohe_type
      BY <3>2, <3>3 DEF MSHR
    <3>5. \A i \in Nodes, k \in Lines : i # n \/ k # l => mshrs'[i][k] = mshrs[i][k]
      BY <1>3, <3>1
    <3> QED BY <1>1, <3>1, <3>4, <3>5 DEF SameCache
  <2> QED BY <2>1, <2>2
<1>5. \A k \in Lines : QuietLine(k)
  BY <1>1, <1>4, CacheAloneLine DEF QuietLine, SameCaches
<1> QED BY <1>2, <1>5, NothingPosted

(* A REPLY that is sent back as the request it answers says the same.      *)
LEMMA BackOut ==
  ASSUME OwnerInv, AllOnes', UNCHANGED dirVars, NEW m \in replies, NEW r \in REQ,
         r.type = "REQUEST", r.node = m.node, r.tag = m.tag, r.req_type = m.req_type,
         r.isreq, r.forward_to = NULL, r.preprocessed => m.preprocessed \/ m.reply = "REPLY",
         replies' = replies \ {m}, requests' = requests \cup {r},
         UNCHANGED <<cacheVars, coheIn, coheReps>>
  PROVE  \A k \in Lines : Agree(k)'
<1>1. m \in ReplyMsg /\ m \in REQ /\ m.tag \in Lines /\ RequestInv
  BY OwnerFacts, ReplyIsWaitedFor
<1>2. m.type = "REPLY" /\ m.isreq /\ m.forward_to = NULL
  BY <1>1 DEF ReplyMsg
<1>3. m \in Mail /\ m \in Msgs(m.tag)
  BY CacheMails DEF Msgs
<1>4. MessageOK(m, m.tag)
  BY <1>1, <1>3 DEF OwnerInv, Agree
<1>5. Means(m, r)
  BY <1>2, <1>4 DEF Means, MessageOK, IsCohe
<1>6. UNCHANGED <<st, mshrs, wrb_buf, atL1>>
  BY DEF cacheVars
<1>7. Posts({m}, {r})
  BY <1>6, CacheMails, CacheAloneLine DEF Posts
<1>8. \A k \in Lines : QuietLine(k)
  BY <1>6, CacheAloneLine, CachesSame DEF QuietLine
<1> QED BY <1>1, <1>2, <1>3, <1>5, <1>7, <1>8, PassedOn

LEMMA ReturnDone ==
  ASSUME OwnerInv, AllOnes', UNCHANGED dirVars, NEW m \in replies, L2Retry(m) \/ L2Bounce(m)
  PROVE  \A k \in Lines : Agree(k)'
<1>1. m \in ReplyMsg /\ m \in REQ /\ m.tag \in Lines
  BY OwnerFacts, ReplyIsWaitedFor
<1>2. m.isreq /\ m.forward_to = NULL
  BY <1>1 DEF ReplyMsg
<1>3. CASE L2Retry(m)
  <2>1. CASE mshrs[m.node][m.tag] = NULL
    <3>1. UNCHANGED <<cacheVars, portVars>>
      BY <1>3, <2>1 DEF L2Retry, L2Errmsg
    <3> QED BY <3>1, CacheFails
  <2>2. CASE mshrs[m.node][m.tag] # NULL
    <3> PICK r : r = [m EXCEPT !.type = "REQUEST", !.reply = "REPLY"]
      OBVIOUS
    <3>1. /\ r \in REQ /\ r.type = "REQUEST" /\ r.node = m.node /\ r.tag = m.tag
          /\ r.req_type = m.req_type /\ r.isreq /\ r.forward_to = NULL
          /\ r.preprocessed = m.preprocessed
      BY <1>1, <1>2 DEF REQ
    <3>2. /\ replies' = replies \ {m} /\ requests' = requests \cup {r}
          /\ UNCHANGED <<cacheVars, coheIn, coheReps>>
      BY <1>3, <2>2 DEF L2Retry
    <3> QED BY <3>1, <3>2, BackOut
  <2> QED BY <2>1, <2>2
<1>4. CASE L2Bounce(m)
  <2> PICK r : r = [m EXCEPT !.type = "REQUEST", !.preprocessed = TRUE]
    OBVIOUS
  <2>1. /\ r \in REQ /\ r.type = "REQUEST" /\ r.node = m.node /\ r.tag = m.tag
        /\ r.req_type = m.req_type /\ r.isreq /\ r.forward_to = NULL
    BY <1>1, <1>2 DEF REQ
  <2>2. /\ replies' = replies \ {m} /\ requests' = requests \cup {r} /\ m.reply = "REPLY"
        /\ UNCHANGED <<cacheVars, coheIn, coheReps>>
    BY <1>4 DEF L2Bounce
  <2> QED BY <2>1, <2>2, BackOut
<1> QED BY <1>3, <1>4

(* A REPLY sets the line.                                                  *)
LEMMA InstallDone ==
  ASSUME OwnerInv, AllOnes', UNCHANGED dirVars, NEW m \in replies, L2Install(m, FALSE)
  PROVE  \A k \in Lines : Agree(k)'
<1> PICK n \in Nodes, l \in Lines : n = m.node /\ l = m.tag
  BY OwnerFacts, ReplyIsWaitedFor
<1>1. ProtocolInv /\ RequestInv /\ Agree(l) /\ Ones(l) /\ m.reply = "REPLY"
  BY OwnerFacts DEF OwnerInv, AllOnes, L2Install
<1>2. /\ m \in Msgs(l) /\ IsPlain(m) /\ m.req_type \in DataTypes /\ Fits(m, n, l)
      /\ ReplyError(m) = "none"
      /\ m.req_type = "REPLY_SH" => ~mshrs[n][l].writes_present
  BY <1>1, ReplyFits
<1> PICK s : s = ReplyState(m.req_type)
  OBVIOUS
<1> PICK v : v = IF mshrs[n][l].writes_present THEN "PR_DY"
                 ELSE IF s = "SH_CL" /\ mshrs[n][l].pend_cohe_type = "INVL"
                      THEN "INVALID" ELSE s
  OBVIOUS
<1>3. /\ st' = Set(st, n, l, v) /\ mshrs' = Set(mshrs, n, l, NULL) /\ replies' = replies \ {m}
      /\ UNCHANGED <<wrb_buf, atL1, coheIn, requests, coheReps>>
  BY <1>2 DEF L2Install
<1>4. /\ st'[n][l] = v /\ wrb_buf'[n][l] = wrb_buf[n][l] /\ mshrs'[n][l] = NULL
      /\ \A k \in Lines : k # l => SameCaches(k)
      /\ \A i \in Nodes : i # n => SameCache(i, l)
  <2>1. /\ st' = Set(st, n, l, v) /\ wrb_buf' = Set(wrb_buf, n, l, wrb_buf[n][l])
        /\ mshrs' = Set(mshrs, n, l, NULL) /\ OwnerInv
    BY <1>3, SameEntry
  <2> QED BY ONLY <2>1, n \in Nodes, l \in Lines, CacheWrites
<1>5. Posts({m}, {})
  BY <1>3, CacheMails, CacheAloneLine DEF Posts
<1>6. m \notin Msgs(l)'
  <2>1. m.isreq /\ Owner(m) = n
    BY <1>2 DEF IsPlain, Owner
  <2>2. m \in Msgs(l)' => Waits(n, l)'
    BY <2>1 DEF AllOnes, Ones, OneToken, Owner
  <2> QED BY <1>4, <2>2 DEF Waits
<1>7. /\ Msgs(l)' = Msgs(l) \ {m}
      /\ \A k \in Lines : k # l => Msgs(k)' = Msgs(k)
  BY <1>5, <1>6, Taken
<1>8. \A k \in Lines : Backs(k)' = Backs(k) /\ SameBook(k)
  BY <1>3, CacheAloneLine
<1>9. m.req_type # "REPLY_SH" => st'[n][l] \in Private
  BY <1>2, <1>4 DEF ReplyState, Private
<1>10. m.req_type = "REPLY_SH" =>
         st'[n][l] = IF mshrs[n][l].pend_cohe_type = "INVL" THEN "INVALID" ELSE "SH_CL"
  BY <1>2, <1>4 DEF ReplyState
<1>11. Agree(l)'
  BY <1>1, <1>2, <1>4, <1>7, <1>8, <1>9, <1>10, InstallAgrees
<1> QED BY <1>4, <1>7, <1>8, <1>11, AtCache

(* A line is replaced, and what was written of it is sent back.            *)
LEMMA EvictDone ==
  ASSUME OwnerInv, AllOnes', UNCHANGED dirVars, NEW n \in Nodes, NEW l \in Lines, L2Evict(n, l)
  PROVE  \A k \in Lines : Agree(k)'
<1>1. ProtocolInv /\ Agree(l) /\ Ones(l)
  BY OwnerFacts DEF OwnerInv, AllOnes
<1> PICK w : w = VictimEntry(st[n][l])
  OBVIOUS
<1>2. /\ st[n][l] # "INVALID" /\ mshrs[n][l] = NULL /\ st' = Set(st, n, l, "INVALID")
      /\ wrb_buf' = Set(wrb_buf, n, l, w)
      /\ UNCHANGED <<mshrs, atL1, coheIn, requests, replies, coheReps>>
  BY DEF L2Evict, portVars
<1>3. /\ st'[n][l] = "INVALID" /\ wrb_buf'[n][l] = w
      /\ \A k \in Lines : k # l => SameCaches(k)
      /\ \A i \in Nodes : i # n => SameCache(i, l)
  <2>1. /\ st' = Set(st, n, l, "INVALID") /\ wrb_buf' = Set(wrb_buf, n, l, w)
        /\ mshrs' = Set(mshrs, n, l, mshrs[n][l]) /\ OwnerInv
    BY <1>2, SameEntry
  <2> QED BY ONLY <2>1, n \in Nodes, l \in Lines, CacheWrites
<1>4. Mail' = Mail
  BY <1>2, CacheMails, CacheAloneLine
<1>5. \A k \in Lines : Msgs(k)' = Msgs(k)
  BY <1>4 DEF Msgs
<1>6. \A k \in Lines : Backs(k)' = Backs(k) /\ SameBook(k)
  BY <1>2, CacheAloneLine
<1>7. Agree(l)'
  BY <1>1, <1>2, <1>3, <1>5, <1>6, EvictAgrees
<1> QED BY <1>3, <1>5, <1>6, <1>7, AtCache

LEMMA SendBackDone ==
  ASSUME OwnerInv, AllOnes', UNCHANGED dirVars, NEW n \in Nodes, NEW l \in Lines,
         L2SendWRB(n, l)
  PROVE  \A k \in Lines : Agree(k)'
<1>1. ProtocolInv /\ RequestInv /\ Agree(l) /\ Ones(l)
  BY OwnerFacts DEF OwnerInv, AllOnes
<1>2. /\ wrb_buf' = Set(wrb_buf, n, l, "NONE") /\ wrb_buf[n][l] # "NONE"
      /\ UNCHANGED <<st, mshrs, atL1, coheIn, replies, requests>>
  BY DEF L2SendWRB
<1>3. /\ st'[n][l] = st[n][l] /\ wrb_buf'[n][l] = "NONE" /\ mshrs'[n][l] = mshrs[n][l]
      /\ \A k \in Lines : k # l => SameCaches(k)
      /\ \A i \in Nodes : i # n => SameCache(i, l)
  <2>1. /\ st' = Set(st, n, l, st[n][l]) /\ wrb_buf' = Set(wrb_buf, n, l, "NONE")
        /\ mshrs' = Set(mshrs, n, l, mshrs[n][l]) /\ OwnerInv
    BY <1>2, SameEntry
  <2> QED BY ONLY <2>1, n \in Nodes, l \in Lines, CacheWrites
<1>4. CASE wrb_buf[n][l] = "INVL"
  <2>1. coheReps' = coheReps
    BY <1>4 DEF L2SendWRB
  <2>2. Mail' = Mail
    BY <1>2, <2>1, CacheMails, CacheAloneLine
  <2>3. SameCache(n, l)
    BY <1>3, <1>4 DEF SameCache, WrbTypes
  <2>4. \A k \in Lines : QuietLine(k)
    BY <1>3, <2>1, <2>3, CacheAloneLine DEF QuietLine, SameCaches
  <2> QED BY <2>2, <2>4, NothingPosted
<1>5. CASE wrb_buf[n][l] # "INVL"
  <2> PICK r : r = WriteBackOf(n, l)
    OBVIOUS
  <2>1. wrb_buf[n][l] \in WrbTypes
    <3>1. wrb_buf[n][l] \in {"NONE", "INVL", "WRB", "REPL"}
      BY <1>1 DEF ProtocolInv, L2Consistent, L2TypeOK
    <3> QED BY <1>2, <1>5, <3>1 DEF WrbTypes
  <2>2. r \in AnswerMsg /\ r.node = n /\ r.tag = l /\ r.req_type \in WrbTypes
    BY <2>1, WriteBackShape DEF WriteBackOf
  <2>3. r \in Kinds /\ r \in REQ
    BY <2>2, ShapesAreMessages DEF Kinds
  <2>4. coheReps' = coheReps \cup {r}
    BY <1>5 DEF L2SendWRB, SendCoheRep
  <2>5. Posts({}, {r})
    BY <1>2, <2>4, CacheMails, CacheAloneLine DEF Posts
  <2>6. /\ Msgs(l)' = Msgs(l) \cup {r}
        /\ \A k \in Lines : k # l => Msgs(k)' = Msgs(k)
    BY <2>2, <2>5, Put
  <2>7. /\ Backs(l)' <= Backs(l) + 1
        /\ \A k \in Lines : SameBook(k)
        /\ \A k \in Lines : k # l => Backs(k)' = Backs(k)
    <3>1. inRep' = inRep
      BY CacheAloneLine
    <3> QED BY <1>1, <2>2, <2>3, <2>4, <3>1, BacksSent, CacheAloneLine
  <2>8. Agree(l)'
    BY <1>1, <1>2, <1>3, <2>1, <2>2, <2>3, <2>6, <2>7, SendBackAgrees
  <2> QED BY <1>3, <2>6, <2>7, <2>8, AtCache
<1> QED BY <1>4, <1>5

(* The COHE that cache n takes up, from its port or from its L1 cache.     *)
Takes(n, m) ==
  \/ coheIn[n] # <<>> /\ m = Head(coheIn[n])
  \/ atL1[n] # <<>> /\ m = Head(atL1[n])

LEMMA CoheFacts ==
  ASSUME OwnerInv, NEW n \in Nodes, NEW m, Takes(n, m)
  PROVE  /\ m \in CoheMsg /\ m \in Kinds /\ m \in REQ /\ m \in Mail /\ m \in Msgs(m.tag)
         /\ m.node = n /\ m.tag \in Lines /\ m.type = "COHE" /\ IsCohe(m) /\ ~m.preprocessed
         /\ m.req_type \in CoheTypes /\ m.req_type \notin WrbTypes
         /\ m.isreq <=> m.forward_to # NULL
         /\ m.isreq <=> m.nack_st = "NACK_NOK"
         /\ Agree(m.tag) /\ Ones(m.tag) /\ OfTransaction(m, m.tag)
<1>1. /\ coheIn \in [Nodes -> Seq(CoheMsg)] /\ atL1 \in [Nodes -> Seq(CoheMsg)] /\ AllOnes
  BY OwnerFacts DEF CacheShapes
<1>2. m \in CoheMsg /\ m \in Range(coheIn[n]) \cup Range(atL1[n])
  <2>1. CASE coheIn[n] # <<>> /\ m = Head(coheIn[n])
    <3>1. coheIn[n] \in Seq(CoheMsg)
      BY <1>1
    <3> QED BY <2>1, <3>1, TailRange
  <2>2. CASE atL1[n] # <<>> /\ m = Head(atL1[n])
    <3>1. atL1[n] \in Seq(CoheMsg)
      BY <1>1
    <3> QED BY <2>2, <3>1, TailRange
  <2> QED BY <2>1, <2>2 DEF Takes
<1>3. m \in REQ /\ m \in Kinds /\ m.node = n
  BY <1>2, ShapesAreMessages DEF Kinds, OwnerInv, AtHome
<1>4. m.tag \in Lines
  BY <1>3 DEF REQ
<1>5. m \in Mail /\ m \in Msgs(m.tag)
  <2>1. m \in Ups
    BY <1>2 DEF Ups
  <2> QED BY <2>1, CacheMails DEF Msgs
<1>6. /\ m.type = "COHE" /\ ~m.preprocessed /\ m.req_type \in CoheTypes
      /\ m.isreq <=> m.forward_to # NULL
      /\ m.isreq <=> m.nack_st = "NACK_NOK"
  BY <1>2 DEF CoheMsg
<1>7. m.req_type \notin WrbTypes /\ IsCohe(m)
  BY <1>6 DEF CoheTypes, WrbTypes, IsCohe
<1>8. Agree(m.tag) /\ Ones(m.tag)
  BY <1>1, <1>4 DEF OwnerInv, AllOnes
<1>9. OfTransaction(m, m.tag)
  BY <1>5, <1>7, <1>8 DEF Agree, MessageOK
<1> QED BY <1>2, <1>3, <1>4, <1>5, <1>6, <1>7, <1>8, <1>9

(* Its answer is the COHE, turned round.                                   *)
Echoes(m, a) ==
  /\ a \in AnswerMsg /\ a.type = "COHE_REPLY" /\ a.node = m.node /\ a.tag = m.tag
  /\ a.req_type = m.req_type /\ a.isreq = m.isreq /\ a.forward_to = m.forward_to
  /\ ~a.preprocessed

LEMMA EchoFacts ==
  ASSUME NEW m \in CoheMsg, NEW c \in {"REPLY", "NACK", "NACK_PEND"},
         c = "REPLY" => ~m.isreq, c = "NACK_PEND" => m.isreq,
         NEW a, a = [m EXCEPT !.type = "COHE_REPLY", !.reply = c]
  PROVE  Echoes(m, a)
<1>1. m \in REQ /\ ~m.preprocessed
  BY ShapesAreMessages DEF CoheMsg
<1>2. a \in AnswerMsg
  BY Zenon, AnsweredCohe
<1> QED BY <1>1, <1>2 DEF Echoes, REQ

LEMMA AnswerPosts ==
  ASSUME OwnerInv, UNCHANGED dirVars, NEW n \in Nodes, NEW m, NEW a \in AnswerMsg,
         TurnsRound(n, m, a), a.req_type = m.req_type
  PROVE  /\ Takes(n, m) /\ \A k \in Lines : Backs(k)' = Backs(k)
         /\ replies' = replies => Posts({m}, {a})
         /\ \A r : replies' = replies \cup {r} => Posts({m}, {r, a})
<1>1. Takes(n, m) /\ coheReps' = coheReps \cup {a} /\ requests' = requests
  BY DEF TurnsRound, Takes
<1>2. coheIn \in [Nodes -> Seq(REQ)] /\ atL1 \in [Nodes -> Seq(REQ)] /\ RequestInv
  BY OwnerFacts, QueueTypes
<1>3. Ups' \cup {m} = Ups
  <2>1. CASE /\ coheIn[n] # <<>> /\ m = Head(coheIn[n])
             /\ coheIn' = [coheIn EXCEPT ![n] = Tail(@)] /\ UNCHANGED atL1
    <3>1. /\ coheIn[n] \in Seq(REQ) /\ coheIn'[n] = Tail(coheIn[n])
          /\ \A i \in Nodes : i # n => coheIn'[i] = coheIn[i]
      BY <1>2, <2>1
    <3>2. Range(coheIn'[n]) \cup {m} = Range(coheIn[n])
      BY <2>1, <3>1, Popped
    <3> QED BY <2>1, <3>1, <3>2, UpsAre
  <2>2. CASE /\ atL1[n] # <<>> /\ m = Head(atL1[n])
             /\ atL1' = [atL1 EXCEPT ![n] = Tail(@)] /\ UNCHANGED coheIn
    <3>1. /\ atL1[n] \in Seq(REQ) /\ atL1'[n] = Tail(atL1[n])
          /\ \A i \in Nodes : i # n => atL1'[i] = atL1[i]
      BY <1>2, <2>2
    <3>2. Range(atL1'[n]) \cup {m} = Range(atL1[n])
      BY <2>2, <3>1, Popped
    <3> QED BY <2>2, <3>1, <3>2, UpsAre
  <2> QED BY <2>1, <2>2 DEF TurnsRound
<1>4. \A k \in Lines : Backs(k)' = Backs(k)
  <2>1. a \in REQ /\ a.req_type \notin WrbTypes /\ inRep' = inRep
    BY <1>1, CoheFacts, CacheAloneLine, ShapesAreMessages
  <2> QED BY <1>1, <1>2, <2>1, BacksSent
<1>5. replies' = replies => Posts({m}, {a})
  BY <1>1, <1>3, CacheMails, CacheAloneLine DEF Posts
<1>6. ASSUME NEW r, replies' = replies \cup {r} PROVE Posts({m}, {r, a})
  BY <1>1, <1>3, <1>6, CacheMails, CacheAloneLine DEF Posts
<1> QED BY <1>1, <1>4, <1>5, <1>6

(* A forwarded request is refused.                                         *)
LEMMA RefuseDone ==
  ASSUME OwnerInv, AllOnes', UNCHANGED dirVars, NEW n \in Nodes, NEW m, NEW a,
         TurnsRound(n, m, a), Echoes(m, a), m.forward_to # NULL,
         UNCHANGED <<st, mshrs, wrb_buf, replies>>
  PROVE  \A k \in Lines : Agree(k)'
<1>1. /\ Takes(n, m) /\ Posts({m}, {a}) /\ \A k \in Lines : Backs(k)' = Backs(k)
  BY AnswerPosts DEF Echoes
<1>2. m \in Mail /\ m.tag \in Lines /\ m.isreq /\ IsCohe(m) /\ m.type = "COHE"
  BY <1>1, CoheFacts
<1>3. Means(m, a)
  BY <1>2 DEF Means, Echoes, IsCohe
<1>4. \A k \in Lines : QuietLine(k)
  BY <1>1, CacheAloneLine, CachesSame DEF QuietLine
<1> QED BY <1>1, <1>2, <1>3, <1>4, PassedOn

(* An invalidation is answered, and the copy is gone, or will be.          *)
LEMMA InvalAnswered ==
  ASSUME OwnerInv, AllOnes', UNCHANGED dirVars, NEW n \in Nodes, NEW m, NEW a, NEW h,
         NEW l \in Lines, l = m.tag, TurnsRound(n, m, a), Echoes(m, a), m.forward_to = NULL,
         UNCHANGED <<wrb_buf, replies>>, st' = Set(st, n, l, "INVALID"),
         mshrs' = Set(mshrs, n, l, h), h.excl = mshrs[n][l].excl,
         ~Waits(n, l) \/ mshrs[n][l].excl \/ h.pend_cohe_type = "INVL"
  PROVE  \A k \in Lines : Agree(k)'
<1>1. /\ Takes(n, m) /\ Posts({m}, {a}) /\ \A k \in Lines : Backs(k)' = Backs(k)
  BY AnswerPosts DEF Echoes
<1>2. /\ ProtocolInv /\ Agree(l) /\ Ones(l) /\ m \in Msgs(l) /\ m.type = "COHE" /\ m.node = n
      /\ IsCohe(m) /\ ~m.isreq
  BY <1>1, CoheFacts, OwnerFacts
<1>3. /\ a \in Kinds /\ IsCohe(a) /\ a.type = "COHE_REPLY" /\ a.node = n /\ a.tag = l
      /\ ~a.isreq /\ a.forward_to = NULL /\ a.req_type = m.req_type
  BY <1>2 DEF Echoes, Kinds, IsCohe
<1>4. /\ st'[n][l] = "INVALID" /\ wrb_buf'[n][l] = wrb_buf[n][l] /\ mshrs'[n][l] = h
      /\ \A k \in Lines : k # l => SameCaches(k)
      /\ \A i \in Nodes : i # n => SameCache(i, l)
  <2>1. /\ st' = Set(st, n, l, "INVALID") /\ wrb_buf' = Set(wrb_buf, n, l, wrb_buf[n][l])
        /\ mshrs' = Set(mshrs, n, l, h) /\ OwnerInv
    BY SameEntry
  <2> QED BY ONLY <2>1, n \in Nodes, l \in Lines, CacheWrites
<1>5. /\ Msgs(l)' = (Msgs(l) \ {m}) \cup {a}
      /\ \A k \in Lines : k # l => Msgs(k)' = Msgs(k)
  <2>1. SameKind(m, a)
    BY <1>2, <1>3 DEF SameKind
  <2> QED BY <1>1, <1>3, <2>1, Rewritten
<1>6. \A k \in Lines : SameBook(k)
  BY CacheAloneLine
<1>7. Agree(l)'
  <2>1. /\ mshrs'[n][l].excl = mshrs[n][l].excl
        /\ ~Waits(n, l) \/ mshrs[n][l].excl \/ mshrs'[n][l].pend_cohe_type = "INVL"
    BY <1>4
  <2> QED BY <1>1, <1>2, <1>3, <1>4, <1>5, <1>6, <2>1, YieldAgrees
<1> QED BY <1>1, <1>4, <1>5, <1>7, AtCache

(* A COHE goes up to the L1 cache, or is refused at once.                  *)
LEMMA UpDone ==
  ASSUME OwnerInv, AllOnes', UNCHANGED dirVars, NEW n \in Nodes, L2Cohe(n)
  PROVE  \A k \in Lines : Agree(k)'
<1> PICK m : m = Head(coheIn[n])
  OBVIOUS
<1>1. /\ coheIn[n] # <<>> /\ coheIn' = [coheIn EXCEPT ![n] = Tail(@)]
      /\ UNCHANGED <<st, mshrs, wrb_buf, replies, requests>>
      /\ \/ /\ atL1' = [atL1 EXCEPT ![n] = Append(@, m)] /\ UNCHANGED coheReps
         \/ /\ SendCoheRep(Nack(m)) /\ UNCHANGED atL1
            /\ st[n][m.tag] = "INVALID" /\ mshrs[n][m.tag] = NULL
  BY DEF L2Cohe
<1>2. coheIn \in [Nodes -> Seq(REQ)] /\ atL1 \in [Nodes -> Seq(REQ)]
  BY OwnerFacts, QueueTypes
<1>3. Takes(n, m)
  BY <1>1 DEF Takes
<1> PICK l \in Lines : l = m.tag
  BY <1>3, CoheFacts
<1>4. CASE atL1' = [atL1 EXCEPT ![n] = Append(@, m)] /\ UNCHANGED coheReps
  <2>1. /\ coheIn[n] \in Seq(REQ) /\ coheIn'[n] = Tail(coheIn[n])
        /\ \A i \in Nodes : i # n => coheIn'[i] = coheIn[i]
    BY <1>1, <1>2
  <2>2. /\ atL1[n] \in Seq(REQ) /\ atL1'[n] = Append(atL1[n], m)
        /\ \A i \in Nodes : i # n => atL1'[i] = atL1[i]
    BY <1>2, <1>4
  <2>3. m \in REQ /\ Range(coheIn'[n]) \cup {m} = Range(coheIn[n])
    BY <1>1, <2>1, Popped
  <2>4. Range(atL1'[n]) = Range(atL1[n]) \cup {m}
    BY <2>2, <2>3, PutRange
  <2>5. \A x : x \in Ups' <=> x \in Ups
    BY <2>1, <2>2, <2>3, <2>4, UpsAre
  <2>6. Mail' = Mail
    BY <1>1, <1>4, <2>5, CacheMails, CacheAloneLine
  <2>7. \A k \in Lines : QuietLine(k)
    BY <1>1, <1>4, CacheAloneLine, CachesSame DEF QuietLine
  <2> QED BY <2>6, <2>7, NothingPosted
<1>5. CASE /\ SendCoheRep(Nack(m)) /\ UNCHANGED atL1
           /\ st[n][m.tag] = "INVALID" /\ mshrs[n][m.tag] = NULL
  <2> PICK a : a = Nack(m)
    OBVIOUS
  <2>1. TurnsRound(n, m, a)
    BY <1>1, <1>5 DEF TurnsRound, SendCoheRep
  <2>2. Echoes(m, a)
    BY Zenon, <1>3, CoheFacts, EchoFacts DEF Nack
  <2>3. CASE m.forward_to # NULL
    BY <1>1, <2>1, <2>2, <2>3, RefuseDone
  <2>4. CASE m.forward_to = NULL
    <3> PICK h : h = mshrs[n][l]
      OBVIOUS
    <3>1. /\ st' = Set(st, n, l, "INVALID") /\ mshrs' = Set(mshrs, n, l, h)
          /\ h.excl = mshrs[n][l].excl /\ ~Waits(n, l)
      BY <1>1, <1>5, SameEntry DEF Waits
    <3> QED BY Zenon, <1>1, <2>1, <2>2, <2>4, <3>1, InvalAnswered
  <2> QED BY <2>3, <2>4
<1> QED BY <1>1, <1>4, <1>5

LEMMA TakenUp ==
  ASSUME NEW n \in Nodes, NEW c, L1Answer(n, c), NEW m, m = Head(atL1[n])
  PROVE  /\ Takes(n, m) /\ CoheClass(n, m) = c /\ wrb_buf' = wrb_buf
         /\ \A a : SendCoheRep(a) => TurnsRound(n, m, a)
  BY DEF L1Answer, Takes, TurnsRound, SendCoheRep

(* The COHEs that come to an MSHR.                                         *)
LEMMA WaitingDone ==
  ASSUME OwnerInv, AllOnes', UNCHANGED dirVars, NEW n \in Nodes,
         L2NackPend(n) \/ L2Merge(n) \/ L2NackInvl(n)
  PROVE  \A k \in Lines : Agree(k)'
<1> PICK m : m = Head(atL1[n])
  OBVIOUS
<1>1. Takes(n, m)
  BY TakenUp DEF L2NackPend, L2Merge, L2NackInvl
<1>2. /\ m \in CoheMsg
      /\ m.isreq <=> m.forward_to # NULL
      /\ m.isreq <=> m.nack_st = "NACK_NOK"
  BY <1>1, CoheFacts
<1>3. m \in REQ /\ m.tag \in Lines /\ m.nack_st \in {"NACK_OK", "NACK_NOK"}
  BY <1>1, CoheFacts DEF REQ
<1> PICK l \in Lines : l = m.tag
  BY <1>3
<1>4. /\ st \in [Nodes -> [Lines -> States]] /\ mshrs \in [Nodes -> [Lines -> MSHR \cup {NULL}]]
      /\ MSHROK
  BY OwnerFacts DEF ProtocolInv, L2Consistent, L2TypeOK
<1>5. CASE L2NackPend(n)
  <2>1. /\ L1Answer(n, "NACK_PEND") /\ UNCHANGED <<st, mshrs, replies>>
        /\ SendCoheRep([m EXCEPT !.type = "COHE_REPLY", !.reply = "NACK_PEND"])
    BY <1>5 DEF L2NackPend
  <2> PICK a : a = [m EXCEPT !.type = "COHE_REPLY", !.reply = "NACK_PEND"]
    OBVIOUS
  <2>2. TurnsRound(n, m, a) /\ wrb_buf' = wrb_buf /\ CoheClass(n, m) = "NACK_PEND"
    BY <2>1, TakenUp
  <2>3. m.nack_st = "NACK_NOK"
    BY <2>2 DEF CoheClass
  <2>4. Echoes(m, a)
    BY Zenon, <1>2, <2>3, EchoFacts
  <2> QED BY <1>2, <2>1, <2>2, <2>3, <2>4, RefuseDone
<1>6. CASE L2Merge(n)
  <2>1. /\ L1Answer(n, "MERGE") /\ UNCHANGED <<st, replies>>
        /\ mshrs' = [mshrs EXCEPT ![n][l].pend_cohe_type = "INVL"]
        /\ SendCoheRep([m EXCEPT !.type = "COHE_REPLY", !.reply = "REPLY"])
    BY <1>6 DEF L2Merge
  <2> PICK a : a = [m EXCEPT !.type = "COHE_REPLY", !.reply = "REPLY"]
    OBVIOUS
  <2>2. TurnsRound(n, m, a) /\ wrb_buf' = wrb_buf /\ CoheClass(n, m) = "MERGE"
    BY <2>1, TakenUp
  <2>3. m.nack_st = "NACK_OK" /\ mshrs[n][l] # NULL /\ ~mshrs[n][l].excl
    BY <2>2 DEF CoheClass
  <2>4. ~m.isreq /\ m.forward_to = NULL
    BY <1>2, <2>3
  <2>5. Echoes(m, a)
    BY Zenon, <1>2, <2>4, EchoFacts
  <2>6. st[n][l] = "INVALID"
    BY <1>4, <2>3 DEF MSHROK, OwnerInv, NotHeld
  <2> PICK h : h = [mshrs[n][l] EXCEPT !.pend_cohe_type = "INVL"]
    OBVIOUS
  <2>7. /\ mshrs[n][l] \in MSHR /\ mshrs' = Set(mshrs, n, l, h)
        /\ st' = Set(st, n, l, "INVALID")
    <3>1. mshrs[n][l] \in MSHR
      BY <1>4, <2>3
    <3>2. mshrs' = Set(mshrs, n, l, h)
      BY <1>4, <2>1 DEF Set
    <3>3. st' = Set(st, n, l, st[n][l])
      BY Zenon, <2>1, SameEntry
    <3> QED BY <2>6, <3>1, <3>2, <3>3
  <2>8. h.excl = mshrs[n][l].excl /\ h.pend_cohe_type = "INVL"
    BY <2>7 DEF MSHR
  <2>9. /\ UNCHANGED <<wrb_buf, replies>> /\ st' = Set(st, n, l, "INVALID")
        /\ ~Waits(n, l) \/ mshrs[n][l].excl \/ h.pend_cohe_type = "INVL"
    BY Zenon, <2>1, <2>2, <2>7, <2>8
  <2> QED BY Zenon, <2>2, <2>4, <2>5, <2>7, <2>8, <2>9, InvalAnswered
<1>7. CASE L2NackInvl(n)
  <2>1. /\ L1Answer(n, "NACK_INVL") /\ UNCHANGED <<mshrs, replies>>
        /\ st' = Set(st, n, l, "INVALID") /\ SendCoheRep(Nack(m))
    BY <1>7 DEF L2NackInvl
  <2> PICK a : a = Nack(m)
    OBVIOUS
  <2>2. TurnsRound(n, m, a) /\ wrb_buf' = wrb_buf /\ CoheClass(n, m) = "NACK_INVL"
    BY <2>1, TakenUp
  <2>3. mshrs[n][l] # NULL /\ m.nack_st # "NACK_NOK" /\ mshrs[n][l].excl
    BY <1>3, <2>2 DEF CoheClass
  <2>4. m.forward_to = NULL
    BY <1>2, <2>3
  <2>5. Echoes(m, a)
    BY Zenon, <1>2, EchoFacts DEF Nack
  <2> PICK h : h = mshrs[n][l]
    OBVIOUS
  <2>6. mshrs' = Set(mshrs, n, l, h) /\ h.excl = mshrs[n][l].excl
    BY <2>1, SameEntry
  <2> QED BY Zenon, <2>1, <2>2, <2>3, <2>4, <2>5, <2>6, InvalAnswered
<1> QED BY <1>5, <1>6, <1>7

(* The COHEs that come to a cache that does not wait for the line.         *)
LEMMA AckedDone ==
  ASSUME OwnerInv, AllOnes', UNCHANGED dirVars, NEW n \in Nodes, L2NackMiss(n) \/ L2Ack(n)
  PROVE  \A k \in Lines : Agree(k)'
<1> PICK m : m = Head(atL1[n])
  OBVIOUS
<1>1. Takes(n, m)
  BY TakenUp DEF L2NackMiss, L2Ack
<1>2. /\ m \in CoheMsg /\ OfTransaction(m, m.tag)
      /\ m.isreq <=> m.forward_to # NULL
  BY <1>1, CoheFacts
<1> PICK l \in Lines : l = m.tag
  BY <1>1, CoheFacts
<1> PICK h : h = mshrs[n][l]
  OBVIOUS
<1>3. mshrs' = mshrs => mshrs' = Set(mshrs, n, l, h)
  BY SameEntry
<1>4. CASE L2NackMiss(n)
  <2>1. L1Answer(n, "NACK") /\ UNCHANGED <<st, mshrs, replies>> /\ SendCoheRep(Nack(m))
    BY <1>4 DEF L2NackMiss
  <2> PICK a : a = Nack(m)
    OBVIOUS
  <2>2. TurnsRound(n, m, a) /\ wrb_buf' = wrb_buf /\ CoheClass(n, m) = "NACK"
    BY <2>1, TakenUp
  <2>3. mshrs[n][l] = NULL /\ st[n][l] = "INVALID"
    BY <2>2 DEF CoheClass
  <2>4. Echoes(m, a)
    BY Zenon, <1>2, EchoFacts DEF Nack
  <2>5. CASE m.forward_to # NULL
    BY <2>1, <2>2, <2>4, <2>5, RefuseDone
  <2>6. CASE m.forward_to = NULL
    <3>1. st' = Set(st, n, l, "INVALID") /\ h.excl = mshrs[n][l].excl /\ ~Waits(n, l)
      BY <2>1, <2>3, SameEntry DEF Waits
    <3> QED BY <1>3, <2>1, <2>2, <2>4, <2>6, <3>1, InvalAnswered
  <2> QED BY <2>5, <2>6
<1>5. CASE L2Ack(n)
  <2>1. /\ L1Answer(n, "ACK") /\ UNCHANGED <<mshrs, replies>>
        /\ st' = Set(st, n, l, CoheState(m.req_type))
        /\ SendCoheRep([m EXCEPT !.type = "COHE_REPLY", !.reply = "REPLY"])
    BY <1>5 DEF L2Ack
  <2> PICK a : a = [m EXCEPT !.type = "COHE_REPLY", !.reply = "REPLY"]
    OBVIOUS
  <2>2. TurnsRound(n, m, a) /\ wrb_buf' = wrb_buf /\ CoheClass(n, m) = "ACK"
    BY <2>1, TakenUp
  <2>3. mshrs[n][l] = NULL /\ m.forward_to = NULL /\ ~m.isreq
    BY <1>2, <2>2 DEF CoheClass
  <2>4. Echoes(m, a)
    BY Zenon, <1>2, <2>3, EchoFacts
  <2>5. m.req_type = "INVL"
    BY <1>2, <2>3 DEF OfTransaction
  <2>6. st' = Set(st, n, l, "INVALID") /\ h.excl = mshrs[n][l].excl /\ ~Waits(n, l)
    BY <2>1, <2>3, <2>5 DEF CoheState, Waits
  <2> QED BY <1>3, <2>1, <2>2, <2>3, <2>4, <2>6, InvalAnswered
<1> QED BY <1>4, <1>5

(* The owner hands the line over.                                          *)
LEMMA TransferDone ==
  ASSUME OwnerInv, AllOnes', UNCHANGED dirVars, NEW n \in Nodes, L2Forward(n)
  PROVE  \A k \in Lines : Agree(k)'
<1> PICK m : m = Head(atL1[n])
  OBVIOUS
<1>1. L1Answer(n, "FORWARD")
  BY DEF L2Forward
<1>2. Takes(n, m) /\ CoheClass(n, m) = "FORWARD" /\ wrb_buf' = wrb_buf
  BY <1>1, TakenUp
<1>3. /\ m \in CoheMsg /\ m \in REQ /\ m.tag \in Lines /\ m.node = n /\ m.type = "COHE"
      /\ m.isreq <=> m.forward_to # NULL
  BY <1>2, CoheFacts
<1> PICK l \in Lines : l = m.tag
  BY <1>3
<1>4. /\ ProtocolInv /\ Agree(l) /\ Ones(l) /\ m \in Msgs(l) /\ IsCohe(m)
      /\ m.req_type \notin WrbTypes
  BY <1>2, CoheFacts, OwnerFacts
<1>5. mshrs[n][l] = NULL /\ st[n][l] # "INVALID" /\ m.forward_to # NULL
  BY <1>2 DEF CoheClass
<1> PICK k \in Nodes : k = m.forward_to
  BY <1>3, <1>5 DEF REQ
<1> PICK s : s = ForwardType(m.req_type, st[n][l])
  OBVIOUS
<1> PICK a : a = [m EXCEPT !.type = "COHE_REPLY", !.reply = "REPLY", !.isreq = FALSE]
  OBVIOUS
<1> PICK r : r = [m EXCEPT !.type = "REPLY", !.reply = "REPLY", !.node = m.forward_to,
                           !.req_type = s, !.forward_to = NULL, !.nack_st = "NACK_OK"]
  OBVIOUS
<1>6. /\ st' = Set(st, n, l, CoheState(m.req_type)) /\ replies' = replies \cup {r}
      /\ SendCoheRep(a) /\ mshrs' = mshrs
  BY DEF L2Forward
<1>7. a \in AnswerMsg /\ r \in ReplyMsg
  BY <1>3, <1>5, ForwardedRequest
<1>8. /\ a \in Kinds /\ a.type = "COHE_REPLY" /\ a.node = n /\ a.tag = l /\ ~a.isreq
      /\ a.forward_to = k /\ a.req_type = m.req_type /\ IsCohe(a)
      /\ r \in Kinds /\ IsPlain(r) /\ r.type = "REPLY" /\ r.node = k /\ r.tag = l
      /\ r.req_type = s
  <2>1. /\ a.type = "COHE_REPLY" /\ a.node = n /\ a.tag = l /\ ~a.isreq
        /\ a.forward_to = k /\ a.req_type = m.req_type
        /\ r.type = "REPLY" /\ r.node = k /\ r.tag = l /\ r.req_type = s /\ r.isreq = m.isreq
        /\ r.forward_to = NULL
    BY <1>3 DEF REQ
  <2> QED BY <1>3, <1>4, <1>5, <1>7, <2>1 DEF Kinds, IsCohe, IsPlain
<1>9. TurnsRound(n, m, a)
  BY <1>1, <1>6, TakenUp
<1>10. Posts({m}, {r, a}) /\ \A j \in Lines : Backs(j)' = Backs(j)
  BY Zenon, <1>6, <1>7, <1>8, <1>9, AnswerPosts
<1>11. m \notin Msgs(l)'
  <2>1. r \in Msgs(l)'
    BY <1>8, <1>10 DEF Posts, Msgs
  <2>2. r.isreq /\ m.isreq /\ Owner(r) = k /\ Owner(m) = k /\ m # r
    BY <1>3, <1>5, <1>8 DEF IsPlain, Owner
  <2>3. m \in Msgs(l)' => m = r
    <3>1. OneToken(l)'
      BY DEF AllOnes, Ones
    <3> QED BY <2>1, <2>2, <3>1 DEF OneToken, Owner
  <2> QED BY <2>2, <2>3
<1>12. /\ Msgs(l)' = (Msgs(l) \ {m}) \cup {r, a}
       /\ \A j \in Lines : j # l => Msgs(j)' = Msgs(j)
  <2> PICK old : old = {m}
    OBVIOUS
  <2> PICK new : new = {r, a}
    OBVIOUS
  <2>1. Posts(old, new) /\ \A x \in old \cup new : x.tag = l
    BY <1>8, <1>10
  <2>2. old \cap Msgs(l)' \subseteq new
    BY <1>11
  <2>3. Msgs(l)' = (Msgs(l) \ old) \cup new
    BY ONLY l \in Lines, <2>1, <2>2, LineTurns
  <2>4. ASSUME NEW j \in Lines, j # l PROVE Msgs(j)' = Msgs(j)
    <3>1. \A x \in old \cup new : x.tag # j
      BY <2>1, <2>4
    <3> QED BY ONLY <2>1, <3>1, j \in Lines, LineTurns
  <2> QED BY <2>3, <2>4
<1>13. /\ st'[n][l] = CoheState(m.req_type) /\ wrb_buf'[n][l] = wrb_buf[n][l]
       /\ \A j \in Lines : j # l => SameCaches(j)
       /\ \A i \in Nodes : i # n => SameCache(i, l)
  <2> PICK c : c = CoheState(m.req_type)
    OBVIOUS
  <2>1. /\ st' = Set(st, n, l, c) /\ wrb_buf' = Set(wrb_buf, n, l, wrb_buf[n][l])
        /\ mshrs' = Set(mshrs, n, l, mshrs[n][l]) /\ OwnerInv
    BY <1>2, <1>6, SameEntry
  <2> QED BY ONLY <2>1, c = CoheState(m.req_type), n \in Nodes, l \in Lines, CacheWrites
<1>14. \A j \in Lines : SameBook(j)
  BY CacheAloneLine
<1>15. Agree(l)'
  <2>1. /\ r.req_type = ForwardType(m.req_type, st[n][l]) /\ m.forward_to # NULL
        /\ Backs(l)' = Backs(l) /\ SameBook(l) /\ m.node = n /\ m.type = "COHE"
    BY <1>3, <1>5, <1>8, <1>10, <1>14
  <2> QED BY ONLY n \in Nodes, l \in Lines, k \in Nodes, k = m.forward_to, <1>4, <1>5, <1>8,
                  <1>12, <1>13, <2>1, TransferAgrees
<1> QED BY <1>10, <1>12, <1>13, <1>15, AtCache

(* Every step of a cache.                                                  *)
LEMMA CacheAgrees ==
  ASSUME ~DataPipeFull, OwnerInv, AllOnes', UNCHANGED dirVars, NEW n \in Nodes, L2Step(n)
  PROVE  \A k \in Lines : Agree(k)'
<1>1. CASE Access(n)
  BY <1>1, MissDone, WriteDone DEF Access
<1>2. CASE HandleReply(n)
  <2> PICK m \in replies : ReplyAt(n, m)
    BY <1>2 DEF HandleReply
  <2> QED BY ReturnDone, InstallDone DEF ReplyAt
<1>3. CASE HoldReply(n)
  <2> PICK m \in replies : L2Bounce(m) \/ L2Install(m, TRUE)
    BY <1>3 DEF HoldReply
  <2>1. ~L2Install(m, TRUE)
    BY DEF L2Install
  <2> QED BY <2>1, ReturnDone
<1>4. CASE L2Cohe(n)
  BY <1>4, UpDone
<1>5. CASE HandleCoheRep(n)
  <2>1. CASE L2CoheError(n)
    <3>1. UNCHANGED <<cacheVars, portVars>>
      BY <2>1 DEF L2CoheError, L2Errmsg
    <3> QED BY <3>1, CacheFails
  <2> QED BY <1>5, <2>1, WaitingDone, AckedDone, TransferDone DEF HandleCoheRep
<1>6. ASSUME NEW l \in Lines, L2Evict(n, l) \/ L2SendWRB(n, l) \/ L2RemoveMSHR(n, l)
      PROVE  \A k \in Lines : Agree(k)'
  <2>1. ~L2RemoveMSHR(n, l)
    BY DEF L2RemoveMSHR, OwnerInv, NotHeld
  <2> QED BY <1>6, <2>1, EvictDone, SendBackDone
<1> QED BY <1>1, <1>2, <1>3, <1>4, <1>5, <1>6 DEF L2Step
-----------------------------------------------------------------------------
(***************************************************************************)
(* The invariant holds from the start and after every step.                *)
(***************************************************************************)
(* COHEs stay with their node.                                             *)
LEMMA HomeAt ==
  ASSUME OwnerInv, NEW n \in Nodes,
         \A i \in Nodes : i # n => coheIn'[i] = coheIn[i] /\ atL1'[i] = atL1[i],
         \A m \in Range(coheIn'[n]) \cup Range(atL1'[n]) :
           m.node = n \/ m \in Range(coheIn[n]) \cup Range(atL1[n])
  PROVE  AtHome'
<1> SUFFICES ASSUME NEW i \in Nodes, NEW m \in Range(coheIn'[i]) \cup Range(atL1'[i])
             PROVE  m.node = i
  BY DEF AtHome
<1>1. CASE i = n
  BY <1>1 DEF OwnerInv, AtHome
<1>2. CASE i # n
  BY <1>2 DEF OwnerInv, AtHome
<1> QED BY <1>1, <1>2

LEMMA HomeArrives ==
  ASSUME OwnerInv, Network PROVE AtHome'
<1>1. /\ outCohe \in Seq(REQ) /\ coheIn \in [Nodes -> Seq(REQ)] /\ atL1' = atL1
  <2>1. UNCHANGED cacheVars
    BY DEF Network, DeliverRequest, DeliverCoheReply, DeliverCoheRep, DeliverCohe, DeliverReply
  <2> QED BY <2>1, OwnerFacts, QueueTypes DEF cacheVars
<1>2. CASE DeliverCohe
  <2> PICK m : m = Head(outCohe)
    OBVIOUS
  <2>1. outCohe # <<>> /\ coheIn' = [coheIn EXCEPT ![m.node] = Append(@, m)]
    BY <1>2 DEF DeliverCohe, TakeCohe, Removal, CoheArrives
  <2>2. m \in REQ
    BY <1>1, <2>1, SeqFacts
  <2> PICK n \in Nodes : n = m.node
    BY <2>2 DEF REQ
  <2>3. /\ coheIn'[n] = Append(coheIn[n], m) /\ coheIn[n] \in Seq(REQ)
        /\ \A i \in Nodes : i # n => coheIn'[i] = coheIn[i]
    BY <1>1, <2>1
  <2>4. Range(coheIn'[n]) = Range(coheIn[n]) \cup {m}
    BY <2>2, <2>3, PutRange
  <2>5. /\ \A i \in Nodes : i # n => coheIn'[i] = coheIn[i] /\ atL1'[i] = atL1[i]
        /\ \A x \in Range(coheIn'[n]) \cup Range(atL1'[n]) :
             x.node = n \/ x \in Range(coheIn[n]) \cup Range(atL1[n])
    BY <1>1, <2>3, <2>4
  <2> QED BY <2>5, HomeAt
<1>3. CASE ~DeliverCohe
  <2>1. coheIn' = coheIn
    BY <1>3 DEF Network, DeliverRequest, DeliverCoheReply, DeliverCoheRep, DeliverReply,
                ReplyArrives
  <2> QED BY <1>1, <2>1 DEF OwnerInv, AtHome
<1> QED BY <1>2, <1>3

LEMMA HomeStays ==
  ASSUME OwnerInv, NEW n \in Nodes, L2Step(n) PROVE AtHome'
<1>1. coheIn \in [Nodes -> Seq(REQ)] /\ atL1 \in [Nodes -> Seq(REQ)]
  BY OwnerFacts, QueueTypes
<1>2. CASE UNCHANGED <<coheIn, atL1>>
  BY <1>2 DEF OwnerInv, AtHome
<1>3. CASE coheIn[n] # <<>> /\ coheIn' = [coheIn EXCEPT ![n] = Tail(@)]
           /\ (atL1' = [atL1 EXCEPT ![n] = Append(@, Head(coheIn[n]))] \/ UNCHANGED atL1)
  <2> PICK m : m = Head(coheIn[n])
    OBVIOUS
  <2>1. /\ coheIn[n] \in Seq(REQ) /\ coheIn'[n] = Tail(coheIn[n])
        /\ \A i \in Nodes : i # n => coheIn'[i] = coheIn[i]
    BY <1>1, <1>3
  <2>2. m \in REQ /\ Range(coheIn'[n]) \cup {m} = Range(coheIn[n])
    BY <1>3, <2>1, Popped
  <2>3. /\ Range(atL1'[n]) \subseteq Range(atL1[n]) \cup {m}
        /\ \A i \in Nodes : i # n => atL1'[i] = atL1[i]
    <3>1. CASE UNCHANGED atL1
      BY <3>1
    <3>2. CASE atL1' = [atL1 EXCEPT ![n] = Append(@, Head(coheIn[n]))]
      <4>1. /\ atL1[n] \in Seq(REQ) /\ atL1'[n] = Append(atL1[n], m)
            /\ \A i \in Nodes : i # n => atL1'[i] = atL1[i]
        BY <1>1, <3>2
      <4>2. Range(atL1'[n]) = Range(atL1[n]) \cup {m}
        BY <2>2, <4>1, PutRange
      <4> QED BY <4>1, <4>2
    <3> QED BY <1>3, <3>1, <3>2
  <2> QED BY <2>1, <2>2, <2>3, HomeAt
<1>4. CASE atL1[n] # <<>> /\ atL1' = [atL1 EXCEPT ![n] = Tail(@)] /\ UNCHANGED coheIn
  <2>1. /\ atL1[n] \in Seq(REQ) /\ atL1'[n] = Tail(atL1[n])
        /\ \A i \in Nodes : i # n => atL1'[i] = atL1[i]
    BY <1>1, <1>4
  <2> PICK m : m = Head(atL1[n])
    OBVIOUS
  <2>2. Range(atL1'[n]) \cup {m} = Range(atL1[n])
    BY <1>4, <2>1, Popped
  <2> QED BY <1>4, <2>1, <2>2, HomeAt
<1>5. CASE L2Cohe(n)
  BY <1>2, <1>3, <1>5 DEF L2Cohe
<1>6. CASE HandleCoheRep(n)
  <2>1. CASE L2CoheError(n)
    <3>1. UNCHANGED <<coheIn, atL1>>
      BY <2>1 DEF L2CoheError, L2Errmsg, cacheVars, portVars
    <3> QED BY <1>2, <3>1
  <2>2. CASE \E c : L1Answer(n, c)
    <3>1. atL1[n] # <<>> /\ atL1' = [atL1 EXCEPT ![n] = Tail(@)] /\ UNCHANGED coheIn
      BY <2>2 DEF L1Answer
    <3> QED BY <1>4, <3>1
  <2>3. L2CoheError(n) \/ \E c : L1Answer(n, c)
    BY <1>6 DEF HandleCoheRep, L2NackPend, L2Merge, L2NackInvl, L2NackMiss, L2Ack, L2Forward
  <2> QED BY <2>1, <2>2, <2>3
<1>7. CASE HandleReply(n) \/ HoldReply(n)
  <2>1. \E m \in replies : L2Retry(m) \/ L2Bounce(m) \/ \E h \in BOOLEAN : L2Install(m, h)
    BY <1>7 DEF HandleReply, HoldReply, ReplyAt
  <2>2. UNCHANGED <<coheIn, atL1>>
    BY <2>1 DEF L2Retry, L2Bounce, L2Install, L2Errmsg, cacheVars, portVars
  <2> QED BY <1>2, <2>2
<1>8. CASE Access(n) \/ \E l \in Lines : L2Evict(n, l) \/ L2SendWRB(n, l) \/ L2RemoveMSHR(n, l)
  <2>1. UNCHANGED <<coheIn, atL1>>
    BY <1>8 DEF Access, L2Miss, L2WriteHit, L2WriteCoalesce, L2Evict, L2SendWRB, L2RemoveMSHR,
                cacheVars, portVars
  <2> QED BY <1>2, <2>1
<1> QED BY <1>5, <1>6, <1>7, <1>8 DEF L2Step

(* While the data pipe has room no MSHR outlives its REPLY.                *)
LEMMA HeldWrites ==
  ASSUME OwnerInv, NEW n \in Nodes, NEW l \in Lines, NEW h, h = NULL \/ ~h.installed,
         mshrs' = Set(mshrs, n, l, h)
  PROVE  NotHeld'
<1>1. mshrs \in [Nodes -> [Lines -> MSHR \cup {NULL}]]
  BY OwnerFacts DEF ProtocolInv, L2Consistent, L2TypeOK
<1>2. \A i \in Nodes, k \in Lines : mshrs'[i][k] = IF i = n /\ k = l THEN h ELSE mshrs[i][k]
  BY <1>1 DEF Set
<1> QED BY <1>2 DEF OwnerInv, NotHeld

LEMMA HeldStays ==
  ASSUME ~DataPipeFull, OwnerInv, NEW n \in Nodes, L2Step(n) PROVE NotHeld'
<1>1. mshrs \in [Nodes -> [Lines -> MSHR \cup {NULL}]]
  BY OwnerFacts DEF ProtocolInv, L2Consistent, L2TypeOK
<1>2. CASE mshrs' = mshrs
  BY <1>2 DEF OwnerInv, NotHeld
<1>3. ASSUME NEW l \in Lines, mshrs' = Set(mshrs, n, l, NULL) PROVE NotHeld'
  BY <1>3, HeldWrites
<1>4. CASE Access(n)
  <2>1. ASSUME NEW l \in Lines, NEW t \in PrcrTypes, L2Miss(n, l, t) PROVE NotHeld'
    <3> PICK h : h = [excl |-> t # "READ", writes_present |-> t = "WRITE",
                      pend_cohe_type |-> "NONE", installed |-> FALSE]
      OBVIOUS
    <3>1. mshrs' = Set(mshrs, n, l, h) /\ ~h.installed
      BY <2>1 DEF L2Miss
    <3> QED BY <3>1, HeldWrites
  <2>2. ASSUME NEW l \in Lines, L2WriteCoalesce(n, l) PROVE NotHeld'
    <3> PICK h : h = [mshrs[n][l] EXCEPT !.writes_present = TRUE]
      OBVIOUS
    <3>1. mshrs[n][l] # NULL /\ mshrs' = [mshrs EXCEPT ![n][l].writes_present = TRUE]
      BY <2>2 DEF L2WriteCoalesce
    <3>2. mshrs[n][l] \in MSHR /\ ~mshrs[n][l].installed
      BY <1>1, <3>1 DEF OwnerInv, NotHeld
    <3>3. ~h.installed
      BY <3>2 DEF MSHR
    <3>4. mshrs' = Set(mshrs, n, l, h)
      BY <1>1, <3>1 DEF Set
    <3> QED BY <3>3, <3>4, HeldWrites
  <2>3. ASSUME NEW l \in Lines, L2WriteHit(n, l) PROVE NotHeld'
    BY <1>2, <2>3 DEF L2WriteHit
  <2> QED BY <1>4, <2>1, <2>2, <2>3 DEF Access
<1>5. CASE HandleReply(n) \/ HoldReply(n)
  <2>1. \E m \in replies : L2Retry(m) \/ L2Bounce(m) \/ \E b \in BOOLEAN : L2Install(m, b)
    BY <1>5 DEF HandleReply, HoldReply, ReplyAt
  <2> PICK m \in replies : L2Retry(m) \/ L2Bounce(m) \/ \E b \in BOOLEAN : L2Install(m, b)
    BY <2>1
  <2>2. CASE L2Retry(m) \/ L2Bounce(m)
    <3>1. mshrs' = mshrs
      BY <2>2 DEF L2Retry, L2Bounce, L2Errmsg, cacheVars
    <3> QED BY <1>2, <3>1
  <2>3. ASSUME NEW b \in BOOLEAN, L2Install(m, b) PROVE NotHeld'
    <3> PICK k \in Nodes, l \in Lines : k = m.node /\ l = m.tag
      BY OwnerFacts, ReplyIsWaitedFor
    <3>1. ~b
      BY <2>3 DEF L2Install
    <3>2. mshrs' = mshrs \/ mshrs' = Set(mshrs, k, l, NULL)
      BY <2>3, <3>1 DEF L2Install, L2Errmsg, cacheVars
    <3> QED BY <1>2, <3>2, HeldWrites
  <2> QED BY <2>2, <2>3
<1>6. CASE L2Cohe(n)
  BY <1>2, <1>6 DEF L2Cohe
<1>7. CASE HandleCoheRep(n)
  <2>1. CASE L2Merge(n)
    <3> PICK m : m = Head(atL1[n])
      OBVIOUS
    <3>1. L1Answer(n, "MERGE")
      BY <2>1 DEF L2Merge
    <3>2. Takes(n, m) /\ CoheClass(n, m) = "MERGE"
      BY <3>1, TakenUp
    <3> PICK l \in Lines : l = m.tag
      BY <3>2, CoheFacts
    <3>3. mshrs' = [mshrs EXCEPT ![n][l].pend_cohe_type = "INVL"] /\ mshrs[n][l] # NULL
      BY <2>1, <3>2 DEF L2Merge, CoheClass
    <3> PICK h : h = [mshrs[n][l] EXCEPT !.pend_cohe_type = "INVL"]
      OBVIOUS
    <3>4. mshrs[n][l] \in MSHR /\ ~mshrs[n][l].installed
      BY <1>1, <3>3 DEF OwnerInv, NotHeld
    <3>5. ~h.installed
      BY <3>4 DEF MSHR
    <3>6. mshrs' = Set(mshrs, n, l, h)
      BY <1>1, <3>3 DEF Set
    <3> QED BY <3>5, <3>6, HeldWrites
  <2>2. CASE L2CoheError(n)
    <3>1. mshrs' = mshrs
      BY <2>2 DEF L2CoheError, L2Errmsg, cacheVars
    <3> QED BY <1>2, <3>1
  <2> QED BY <1>2, <1>7, <2>1, <2>2
          DEF HandleCoheRep, L2NackPend, L2NackInvl, L2NackMiss, L2Ack, L2Forward
<1>8. ASSUME NEW l \in Lines, L2Evict(n, l) \/ L2SendWRB(n, l) \/ L2RemoveMSHR(n, l)
      PROVE  NotHeld'
  BY <1>2, <1>3, <1>8 DEF L2Evict, L2SendWRB, L2RemoveMSHR
<1> QED BY <1>4, <1>5, <1>6, <1>7, <1>8 DEF L2Step

LEMMA OwnerStart == ASSUME Init PROVE OwnerInv
<1>1. RequestInv
  BY RequestStart
<1>2. /\ coheIn = [n \in Nodes |-> <<>>] /\ atL1 = [n \in Nodes |-> <<>>]
      /\ replies = {} /\ requests = {} /\ coheReps = {}
      /\ mshrs = [n \in Nodes |-> [l \in Lines |-> NULL]]
      /\ st = [n \in Nodes |-> [l \in Lines |-> "INVALID"]]
      /\ wrb_buf = [n \in Nodes |-> [l \in Lines |-> "NONE"]]
      /\ extra = [l \in Lines |-> NULL] /\ BufPend = [l \in Lines |-> <<>>]
      /\ dirst = [l \in Lines |-> "UNCACHED"] /\ vector = [l \in Lines |-> {}]
      /\ ReadyReqs = <<>> /\ OutboundReqs = <<>>
      /\ inReq = <<>> /\ inRep = <<>> /\ outCohe = <<>> /\ outRep = <<>>
  BY DEF Init, DirInit, FreshLines, L2Init
<1>3. Range(<<>>) = {}
  BY Ranges
<1>4. \A n \in Nodes : coheIn[n] = <<>> /\ atL1[n] = <<>>
  BY <1>2
<1>5. Mail = {}
  <2>1. (UNION {Range(coheIn[n]) : n \in Nodes}) = {} /\ (UNION {Range(atL1[n]) : n \in Nodes}) = {}
    BY <1>3, <1>4
  <2>2. \A l \in Lines : BufPend[l] = <<>>
    BY <1>2
  <2>3. (UNION {Range(BufPend[l]) : l \in Lines}) = {}
    BY <1>3, <2>2
  <2>4. CacheMail = {}
    BY <1>2, <2>1 DEF CacheMail
  <2>5. DirMail = {}
    BY <1>2, <1>3, <2>3 DEF DirMail
  <2> QED BY <2>4, <2>5 DEF Mail
<1>6. NotHeld /\ AtHome
  BY <1>2, <1>3, <1>4 DEF NotHeld, AtHome
<1>7. ASSUME NEW l \in Lines PROVE Agree(l)
  <2>1. Msgs(l) = {} /\ extra[l] = NULL /\ dirst[l] = "UNCACHED"
    BY <1>2, <1>5 DEF Msgs
  <2>2. Backs(l) = 0
    <3> PICK S : S = WriteBacks(l)
      OBVIOUS
    <3>1. {} \cap S = {}
      OBVIOUS
    <3>2. Cnt(<<>>, S) = 0 /\ Has({}, S) = 0
      BY <3>1, CntEmpty, FS_EmptySet DEF Has
    <3> QED BY <1>2, <3>2 DEF Backs
  <2>3. \A n \in Nodes : st[n][l] = "INVALID" /\ wrb_buf[n][l] = "NONE"
    BY <1>2
  <2>4. \A n \in Nodes : ~Owns(n, l) /\ ~Shares(n, l) /\ OneKind(n, l)
    BY <2>1, <2>3 DEF Owns, Shares, OneKind, ExclComes, ShareComes, BackComes, Private, WrbTypes
  <2>5. \A n \in Nodes : ~OwnerIs(n, l)
    BY <2>1 DEF OwnerIs, Known
  <2>6. Believes(l) /\ PendOK(l)
    BY <2>1 DEF Believes, PendOK, Keeps
  <2> QED BY <2>1, <2>2, <2>4, <2>5, <2>6 DEF Agree
<1> QED BY <1>1, <1>6, <1>7 DEF OwnerInv

LEMMA OwnerStep ==
  ASSUME ~DataPipeFull, OwnerInv, RequestInv', AllOnes', [Next]_vars PROVE OwnerInv'
<1>1. CASE UNCHANGED vars
  <2>1. UNCHANGED <<dirVars, cacheVars, portVars>> /\ UNCHANGED <<coheIn, atL1, mshrs>>
    BY <1>1 DEF vars, l2Vars, cacheVars, portVars
  <2>2. NotHeld' /\ AtHome'
    BY <2>1 DEF OwnerInv, NotHeld, AtHome
  <2>3. UNCHANGED dirVars /\ UNCHANGED <<cacheVars, portVars>>
    BY <2>1
  <2>4. \A k \in Lines : Agree(k)'
    BY <2>3, CacheFails
  <2> QED BY <2>2, <2>4 DEF OwnerInv
<1>2. CASE DirectoryStep
  <2>1. DirStep /\ UNCHANGED l2Vars
    BY <1>2 DEF DirectoryStep
  <2>2. UNCHANGED <<coheIn, atL1, mshrs>>
    BY <2>1 DEF l2Vars, cacheVars, portVars
  <2>3. NotHeld' /\ AtHome'
    BY <2>2 DEF OwnerInv, NotHeld, AtHome
  <2> QED BY <2>1, <2>3, DirectoryAgrees DEF OwnerInv
<1>3. CASE Network
  <2>1. mshrs' = mshrs
    BY <1>3 DEF Network, DeliverRequest, DeliverCoheReply, DeliverCoheRep, DeliverCohe,
                DeliverReply, cacheVars
  <2>2. NotHeld'
    BY <2>1 DEF OwnerInv, NotHeld
  <2> QED BY <1>3, <2>2, HomeArrives, NetworkAgrees DEF OwnerInv
<1>4. ASSUME NEW n \in Nodes, UNCHANGED dirVars, L2Step(n) PROVE OwnerInv'
  BY <1>4, HeldStays, HomeStays, CacheAgrees DEF OwnerInv
<1> QED BY <1>1, <1>2, <1>3, <1>4 DEF Next, ByCache

(* Of each line the directory takes at most one cache for the owner, and   *)
(* that one is the owner and no other: through write-backs that overtake   *)
(* forwards, transfers that race their acknowledgment, NACKs and retries.  *)
THEOREM OwnersKnown ==
  ASSUME ~DataPipeFull PROVE Spec => []OwnerInv
<1>1. Init => OwnerInv
  BY OwnerStart
<1>2. RequestInv => AllOnes
  BY EachOnce
<1>3. RequestInv' => AllOnes'
  BY <1>2, PTL
<1>4. RequestInv /\ [Next]_vars => RequestInv'
  BY RequestStep
<1>5. OwnerInv => RequestInv
  BY DEF OwnerInv
<1>6. OwnerInv /\ [Next]_vars => OwnerInv'
  BY <1>3, <1>4, <1>5, OwnerStep
<1> QED BY <1>1, <1>6, PTL DEF Spec
-----------------------------------------------------------------------------
(***************************************************************************)
(* What the runs check, and the errors.                                    *)
(***************************************************************************)
LEMMA InvFacts ==
  ASSUME OwnerInv, NEW l \in Lines
  PROVE  RequestInv /\ ProtocolInv /\ Agree(l) /\ Ones(l)
<1>1. RequestInv
  BY DEF OwnerInv
<1>2. AllOnes
  BY <1>1, EachOnce
<1> QED BY <1>1, <1>2 DEF OwnerInv, RequestInv, AllOnes

LEMMA AloneToWrite == ASSUME OwnerInv PROVE SingleWriter
<1> SUFFICES ASSUME NEW l \in Lines, NEW n \in Nodes, NEW k \in Nodes, n # k,
                    st[n][l] \in Private
             PROVE  st[k][l] = "INVALID"
  BY DEF SingleWriter
<1>1. ProtocolInv /\ Agree(l)
  BY InvFacts
<1>2. Owns(n, l)
  BY DEF Owns
<1>3. ~Owns(k, l)
  BY ONLY <1>1, <1>2, n # k, n \in Nodes, k \in Nodes, l \in Lines, OneOwner
<1>4. st[k][l] \notin Private
  BY <1>3 DEF Owns
<1>5. ~ExclComes(k, l)
  BY <1>3 DEF Owns
<1>6. st[k][l] # "SH_CL"
  <2> SUFFICES ASSUME st[k][l] = "SH_CL" PROVE FALSE
    OBVIOUS
  <2>1. Shares(k, l)
    BY DEF Shares
  <2>2. May(k, l)
    BY <1>1, <2>1 DEF Agree
  <2>3. CASE Known(l)
    <3>1. dirst[l] = "DIR_PRIVATE"
      BY ONLY <1>1, <1>2, <2>3, n \in Nodes, l \in Lines, OneOwner
    <3> QED BY <1>5, <2>2, <2>3, <3>1 DEF May, Known, Invalidating, Forwarding
  <2>4. CASE ~Known(l)
    <3>1. Invalidating(l)
      BY <1>5, <2>2, <2>4 DEF May
    <3>2. OwnerIs(n, l)
      BY <1>1, <1>2 DEF Agree
    <3> QED BY <2>4, <3>1, <3>2 DEF OwnerIs, Invalidating, Forwarding
  <2> QED BY <2>3, <2>4
<1>7. st[k][l] \in States
  BY <1>1 DEF ProtocolInv, L2Consistent, L2TypeOK
<1> QED BY <1>4, <1>6, <1>7 DEF States, Private

(* Without a transaction the directory knows every copy.                   *)
LEMMA CopiesAreKnown == ASSUME OwnerInv PROVE CopiesKnown
<1> SUFFICES ASSUME NEW l \in Lines, NEW n \in Nodes, ~pend[l], st[n][l] # "INVALID"
             PROVE  /\ n \in vector[l]
                    /\ st[n][l] \in Private => dirst[l] = "DIR_PRIVATE"
  BY DEF CopiesKnown
<1>1. ProtocolInv /\ Agree(l)
  BY InvFacts
<1>2. extra[l] = NULL
  BY <1>1 DEF ProtocolInv, IInv, LineInv, PendIffExtra
<1>3. Known(l) /\ ~Invalidating(l)
  BY <1>2 DEF Known, Invalidating
<1>4. ASSUME Owns(n, l) PROVE n \in vector[l] /\ dirst[l] = "DIR_PRIVATE"
  <2>1. OwnerIs(n, l)
    BY <1>1, <1>4 DEF Agree
  <2> QED BY <1>3, <2>1 DEF OwnerIs
<1>5. CASE st[n][l] \in Private
  BY <1>4, <1>5 DEF Owns
<1>6. CASE st[n][l] = "SH_CL"
  <2>1. Shares(n, l)
    BY <1>6 DEF Shares
  <2>2. May(n, l)
    BY <1>1, <2>1 DEF Agree
  <2>3. ExclComes(n, l) => Owns(n, l)
    BY DEF Owns
  <2> QED BY <1>3, <1>4, <1>6, <2>2, <2>3 DEF May, Private
<1>7. st[n][l] \in States
  BY <1>1 DEF ProtocolInv, L2Consistent, L2TypeOK
<1> QED BY <1>5, <1>6, <1>7 DEF States, Private

(* A write-back that the directory waits for is still to come: its request *)
(* is kept, so what the owner owns is nothing it could still use.          *)
LEMMA WriteBackIsComing == ASSUME OwnerInv PROVE WriteBackComing
<1> SUFFICES ASSUME NEW l \in Lines, extra[l] # NULL, extra[l].waiting,
                    NEW n, n = extra[l].WaitingFor
             PROVE  \/ wrb_buf[n][l] \in WrbTypes
                    \/ \E m \in coheReps : m.req_type \in WrbTypes /\ m.node = n /\ m.tag = l
                    \/ \E i \in DOMAIN inRep : /\ inRep[i].req_type \in WrbTypes
                                               /\ inRep[i].node = n /\ inRep[i].tag = l
  BY DEF WriteBackComing
<1>1. ProtocolInv /\ Agree(l) /\ Ones(l)
  BY InvFacts
<1> PICK p : p = extra[l].pend_req
  OBVIOUS
<1>2. extra[l].ret_st # "ACK_REPLY" /\ p \in PlainRequest
  BY <1>1 DEF ProtocolInv, Shapes, DirShapes, Kept, PendReq
<1>3. Known(l) /\ ~Forwarding(l) /\ Keeps(l)
  BY <1>2 DEF Known, Forwarding, Keeps
<1>4. BelievesWait(l)
  BY <1>1 DEF Agree, Believes
<1>5. n = p.node /\ p.req_type \in {"READ_SH", "READ_OWN"} /\ vector[l] = {n}
      /\ dirst[l] = "DIR_PRIVATE"
  BY <1>4 DEF BelievesWait
<1>6. Owner(p) = n /\ p \in REQ /\ n \in Nodes
  BY <1>2, <1>5 DEF PlainRequest, RequestMsg, Owner, REQ
<1>7. Owns(n, l)
  BY <1>1, <1>3, <1>5, <1>6 DEF Agree, OwnerIs
<1>8. st[n][l] = "INVALID"
  <2>1. Fits(p, Owner(p), l)
    BY <1>1, <1>3 DEF Agree, PendOK
  <2>2. Fits(p, n, l)
    BY <1>6, <2>1
  <2> QED BY <1>5, <2>2 DEF Fits
<1>9. ~ExclComes(n, l)
  <2> SUFFICES ASSUME NEW m \in Msgs(l), m.node = n, m.req_type \in ExclTypes PROVE FALSE
    BY DEF ExclComes
  <2>1. m \in Kinds
    BY <1>1 DEF Ones, Shaped
  <2>2. m.isreq /\ m.forward_to = NULL
    BY <2>1, KindFacts DEF ExclTypes, DataTypes
  <2>3. Owner(m) = n
    BY <2>2 DEF Owner
  <2>4. Owner(m) # Owner(p)
    BY <1>1, <1>3, <2>2 DEF Ones, OneKept
  <2> QED BY <1>6, <2>3, <2>4
<1>10. CASE BackComes(n, l)
  <2> PICK m \in Msgs(l) : m.node = n /\ m.req_type \in WrbTypes
    BY <1>10 DEF BackComes
  <2>1. AtPlace(m, l) /\ m \in Kinds /\ m.tag = l
    BY <1>1, Places
  <2>2. m.type = "COHE_REPLY" /\ ~m.isreq
    BY <2>1, KindFacts
  <2>3. /\ inReq \in Seq(RequestMsg) /\ outCohe \in Seq(CoheMsg) /\ outRep \in Seq(ReplyMsg)
        /\ ReadyReqs \in Seq(PlainRequest) /\ OutboundReqs \in Seq(CoheMsg \cup ReplyMsg)
        /\ BufPend[l] \in Seq(PlainOf(l))
        /\ \A k \in Nodes : coheIn[k] \in Seq(CoheMsg) /\ atL1[k] \in Seq(CoheMsg)
        /\ replies \subseteq ReplyMsg /\ requests \subseteq RequestMsg
    BY <1>1 DEF ProtocolInv, Shapes, DirShapes, CacheShapes
  <2>4. m \notin RequestMsg /\ m \notin CoheMsg /\ m \notin ReplyMsg /\ m \notin PlainRequest
        /\ m \notin PlainOf(l) /\ m \notin CoheMsg \cup ReplyMsg
    BY <2>2 DEF RequestMsg, CoheMsg, ReplyMsg, PlainRequest, PlainOf
  <2>5. \A S : \A q \in Seq(S) : m \notin S => m \notin Range(q)
    <3> SUFFICES ASSUME NEW S, NEW q \in Seq(S), m \in Range(q) PROVE m \in S
      OBVIOUS
    <3> PICK i \in DOMAIN q : q[i] = m
      BY DEF Range
    <3> QED OBVIOUS
  <2>6. m \in coheReps \/ m \in Range(inRep)
    BY <2>1, <2>3, <2>4, <2>5 DEF AtPlace
  <2>7. m \in Range(inRep) => \E i \in DOMAIN inRep : inRep[i] = m
    BY DEF Range
  <2> QED BY <2>1, <2>6, <2>7
<1> QED BY <1>7, <1>8, <1>9, <1>10 DEF Owns, Private

(* The errors that a port without room can still lead to: the type of a    *)
(* request that was rewritten and not committed, and the null request of a *)
(* delayed COHE.                                                           *)
NoRoomErrors == {"none", "unknown request type", "null pointer"}
OnlyNoRoom == fatal \in NoRoomErrors /\ l2fatal = "none"

(* The write-back that the directory serves is the owner's.                *)
LEMMA WriteBackExpected ==
  ASSUME OwnerInv, ServeRep, Answer.req_type \in WrbTypes
  PROVE  WrbError(Answer) = "none"
<1>1. ProtocolInv
  BY DEF OwnerInv, RequestInv
<1>2. inRep \in Seq(AnswerMsg) /\ inRep # <<>>
  BY <1>1 DEF ServeRep, ProtocolInv, IInv, CtlInv, PickedThere, Shapes, DirShapes
<1>3. Answer \in AnswerMsg /\ Answer \in REQ /\ Answer \in Range(inRep)
  <2>1. 1 \in DOMAIN inRep /\ Head(inRep) = inRep[1] /\ inRep[1] \in AnswerMsg
    BY <1>2
  <2> QED BY <2>1, ShapesAreMessages DEF Answer, Range
<1> PICK m \in AnswerMsg : m = Answer
  BY <1>3
<1> PICK l \in Lines : l = m.tag
  BY <1>3 DEF REQ
<1>4. m \in Msgs(l) /\ m.req_type \in WrbTypes
  BY <1>3 DEF Msgs, Mail, DirMail
<1>5. Agree(l) /\ Ones(l)
  BY InvFacts
<1>6. /\ OwnerIs(m.node, l) /\ dirst[l] # "UNCACHED"
      /\ dirst[l] = "DIR_PRIVATE" => \E k \in Nodes : vector[l] = {k}
  BY ONLY <1>1, <1>4, <1>5, l \in Lines, BackFrom
<1>7. dirst[l] = "DIR_PRIVATE" => Cardinality(vector[l]) = 1
  BY <1>6, FS_Singleton
<1>8. Expected(m) => extra[l].WaitingFor = m.node
  <2> SUFFICES ASSUME Expected(m) PROVE extra[l].WaitingFor = m.node
    OBVIOUS
  <2>1. extra[l] # NULL /\ extra[l].waiting
    BY DEF Expected
  <2>2. BelievesWait(l)
    BY <1>5, <2>1 DEF Agree, Believes
  <2>3. Known(l)
    BY <2>1 DEF Known
  <2> QED BY <1>6, <2>2, <2>3 DEF BelievesWait, OwnerIs
<1>9. Expected(m) => extra[l].counter = 1
  BY <1>1 DEF Expected, ProtocolInv, IInv, LineInv, CounterOK
<1> QED BY <1>6, <1>7, <1>8, <1>9 DEF WrbError

(* The cache always has a case for the COHE or the reply that it handles.  *)
LEMMA CoheExpected ==
  ASSUME OwnerInv, NEW n \in Nodes PROVE ~L2CoheError(n)
<1> SUFFICES ASSUME L2CoheError(n) PROVE FALSE
  OBVIOUS
<1>1. ProtocolInv /\ AtHome
  BY DEF OwnerInv, RequestInv
<1>2. atL1[n] \in Seq(CoheMsg) /\ atL1[n] # <<>>
  BY <1>1 DEF L2CoheError, ProtocolInv, Shapes, CacheShapes
<1>3. Head(atL1[n]) \in CoheMsg /\ Head(atL1[n]) \in REQ /\ Head(atL1[n]) \in Range(atL1[n])
  <2>1. 1 \in DOMAIN atL1[n] /\ Head(atL1[n]) = atL1[n][1] /\ atL1[n][1] \in CoheMsg
    BY <1>2
  <2> QED BY <2>1, ShapesAreMessages DEF Range
<1> PICK m \in CoheMsg : m = Head(atL1[n])
  BY <1>3
<1> PICK l \in Lines : l = m.tag
  BY <1>3 DEF REQ
<1>4. m \in Msgs(l) /\ m.node = n /\ m.type = "COHE"
  <2>1. m \in CacheMail /\ m.node = n
    BY <1>1, <1>3 DEF CacheMail, AtHome
  <2> QED BY <2>1 DEF Msgs, Mail, CoheMsg
<1>5. Agree(l) /\ Ones(l)
  BY InvFacts
<1>6. CASE CoheClass(n, m) = "FORWARD" /\ st[n][l] = "SH_CL"
  <2>1. mshrs[n][l] = NULL /\ st[n][l] # "INVALID" /\ m.forward_to # NULL
    BY <1>6 DEF CoheClass
  <2>2. st[n][l] \in Private
    BY ONLY <1>1, <1>4, <1>5, <2>1, l \in Lines, n \in Nodes, OwnerMeets
  <2> QED BY <1>6, <2>2 DEF Private
<1>7. CASE CopybackInvalid(n, m)
  <2>1. m.req_type = "COPYBACK" /\ mshrs[n][l] # NULL /\ m.nack_st # "NACK_NOK"
    BY <1>7 DEF CopybackInvalid, CoheClass
  <2>2. m.forward_to = NULL /\ IsCohe(m)
    BY <2>1, <1>4 DEF CoheMsg, IsCohe, WrbTypes
  <2>3. m.req_type = "INVL"
    BY <1>4, <1>5, <2>2 DEF Agree, MessageOK, OfTransaction
  <2> QED BY <2>1, <2>3
<1> QED BY <1>6, <1>7 DEF L2CoheError

LEMMA ReplyExpected ==
  ASSUME OwnerInv, NEW m \in replies
  PROVE  mshrs[m.node][m.tag] # NULL /\ (m.reply = "REPLY" => ReplyError(m) = "none")
<1>1. RequestInv /\ ProtocolInv
  BY DEF OwnerInv, RequestInv
<1>2. m \in REQ
  BY <1>1, QueueTypes
<1> PICK l \in Lines : l = m.tag
  BY <1>2 DEF REQ
<1> PICK n \in Nodes : n = m.node
  BY <1>2 DEF REQ
<1>3. mshrs[n][l] # NULL
  BY <1>1, ReplyIsWaitedFor DEF Waits
<1>4. Agree(l) /\ Ones(l)
  BY InvFacts
<1>5. ASSUME m.reply = "REPLY" PROVE ReplyError(m) = "none"
  BY ONLY <1>1, <1>4, <1>5, l \in Lines, l = m.tag, n \in Nodes, n = m.node, m \in replies,
          ReplyFits
<1> QED BY <1>3, <1>5

LEMMA CachesFindNoError ==
  ASSUME OwnerInv, NEW n \in Nodes, L2Step(n) PROVE UNCHANGED l2fatal
<1>1. ASSUME NEW m \in replies, L2Retry(m) \/ L2Bounce(m) PROVE UNCHANGED l2fatal
  BY <1>1, ReplyExpected DEF L2Retry, L2Bounce
<1>2. ASSUME NEW m \in replies, L2Install(m, TRUE) \/ L2Install(m, FALSE)
      PROVE  UNCHANGED l2fatal
  <2>1. m.reply = "REPLY"
    BY <1>2 DEF L2Install
  <2>2. ReplyError(m) = "none"
    BY <2>1, ReplyExpected
  <2> QED BY <1>2, <2>2 DEF L2Install
<1>3. CASE Access(n)
  BY <1>3 DEF Access, L2Miss, L2WriteHit, L2WriteCoalesce
<1>4. CASE HandleReply(n) \/ HoldReply(n)
  BY <1>1, <1>2, <1>4 DEF HandleReply, HoldReply, ReplyAt
<1>5. CASE L2Cohe(n)
  BY <1>5 DEF L2Cohe
<1>6. CASE HandleCoheRep(n)
  BY Zenon, <1>6, CoheExpected
     DEF HandleCoheRep, L2NackPend, L2Merge, L2NackInvl, L2NackMiss, L2Ack, L2Forward, L1Answer
<1>7. CASE \E l \in Lines : L2Evict(n, l) \/ L2SendWRB(n, l) \/ L2RemoveMSHR(n, l)
  BY <1>7 DEF L2Evict, L2SendWRB, L2RemoveMSHR
<1> QED BY <1>3, <1>4, <1>5, <1>6, <1>7, L2Step(n) DEF L2Step

(* What a step of the directory can report: nothing but those two.         *)
LEMMA DirectoryErrors ==
  ASSUME OwnerInv, DirStep
  PROVE  \/ UNCHANGED fatal
         \/ DirSendCoheNull /\ fatal' = "null pointer"
         \/ /\ ServeReq /\ ReqError(Request) = "unknown request type"
            /\ fatal' = "unknown request type"
<1>1. ProtocolInv /\ RequestInv
  BY DEF OwnerInv, RequestInv
<1>2. CASE DirReqError
  <2>1. ReqError(Request) \in ErrorsLeft /\ ReqError(Request) # "none"
        /\ fatal' = ReqError(Request) /\ ServeReq
    BY <1>1, <1>2, RequestErrors DEF DirReqError, YS__errmsg
  <2>2. ReqError(Request) = "unknown request type"
    BY <2>1 DEF ReqError, ErrorsLeft
  <2> QED BY <2>1, <2>2
<1>3. CASE DirSendCoheNull
  BY <1>3 DEF DirSendCoheNull, YS__errmsg
<1>4. CASE DirCoheRepError
  BY <1>1, <1>4, AnswerExpected DEF DirCoheRepError
<1>5. CASE DirWrbError
  BY <1>5, WriteBackExpected DEF DirWrbError
<1>6. CASE DirStart
  BY <1>6 DEF DirStart, DirActivate, DirOutbound, DirPick, DirNextPort
<1>7. CASE DirReqBounce \/ DirReqRAR \/ DirReqPend \/ DirReqGrant
           \/ DirReqWaitForWRB \/ DirReqInval \/ DirReqForward
  BY <1>7 DEF DirReqBounce, DirReqRAR, DirReqPend, DirReqGrant,
              DirReqWaitForWRB, DirReqInval, DirReqForward
<1>8. CASE DirSendForward \/ DirSendInval
  BY <1>8 DEF DirSendForward, DirSendInval
<1>9. CASE DirNackRace \/ DirNackRetry \/ DirNackPendResend \/ DirAck \/ DirAckReply
           \/ DirAckForward
  BY <1>9 DEF DirNackRace, DirNackRetry, DirNackPendResend, DirAck, DirAckReply,
              DirAckForward, Answers
<1>10. CASE DirWrbRevive \/ DirWrbWasHere \/ DirWrbPlain
  BY <1>10 DEF DirWrbRevive, DirWrbWasHere, DirWrbPlain, WriteBack
<1> QED BY <1>2, <1>3, <1>4, <1>5, <1>6, <1>7, <1>8, <1>9, <1>10
           DEF DirStep, DirReq, DirSend, DirCoheRep, DirWrb

LEMMA OnlyNoRoomStep ==
  ASSUME OwnerInv, OnlyNoRoom, [Next]_vars PROVE OnlyNoRoom'
<1>1. CASE UNCHANGED vars
  BY <1>1 DEF vars, dirVars, l2Vars, OnlyNoRoom
<1>2. CASE DirectoryStep
  BY <1>2, DirectoryErrors DEF DirectoryStep, l2Vars, OnlyNoRoom, NoRoomErrors
<1>3. CASE Network
  BY <1>3 DEF Network, DeliverRequest, DeliverCoheReply, DeliverCoheRep, DeliverCohe,
              DeliverReply, ArriveReq, ArriveRep, Arrival, TakeCohe, TakeRep, Removal,
              OnlyNoRoom
<1>4. ASSUME NEW n \in Nodes, UNCHANGED dirVars, L2Step(n) PROVE OnlyNoRoom'
  BY <1>4, CachesFindNoError DEF dirVars, OnlyNoRoom
<1> QED BY <1>1, <1>2, <1>3, <1>4 DEF Next, ByCache

(* A line that one cache may write is in no other cache, whatever the      *)
(* number of nodes, of lines and of buffers.                               *)
THEOREM OneWriter ==
  ASSUME ~DataPipeFull PROVE Spec => []SingleWriter
<1>1. OwnerInv => SingleWriter
  BY AloneToWrite
<1> QED BY <1>1, OwnersKnown, PTL

(* The directory knows every copy of a line that it has no transaction     *)
(* for, and each write-back that it waits for is on its way.               *)
THEOREM DirectoryBelieves ==
  ASSUME ~DataPipeFull PROVE Spec => []DirectoryKnows
<1>1. OwnerInv => DirectoryKnows
  BY CopiesAreKnown, WriteBackIsComing DEF DirectoryKnows
<1> QED BY <1>1, OwnersKnown, PTL

(* No cache is ever sent a message that it has no case for, and the        *)
(* directory only when one of its output ports had no room.                *)
THEOREM ErrorsNeedFullPorts ==
  ASSUME ~DataPipeFull PROVE Spec => []OnlyNoRoom
<1>1. Init => OnlyNoRoom
  BY DEF Init, DirInit, L2Init, OnlyNoRoom, NoRoomErrors
<1>2. OwnerInv /\ OnlyNoRoom /\ [Next]_vars => OnlyNoRoom'
  BY OnlyNoRoomStep
<1> QED BY <1>1, <1>2, OwnersKnown, PTL DEF Spec
-----------------------------------------------------------------------------
(***************************************************************************)
(* With output ports that hold a message for each node and line no port is *)
(* ever full, and then no error is left.                                   *)
(***************************************************************************)
EnoughRoom == OutCap > Cardinality(Nodes) * Cardinality(Lines)

(* Requests and replies on their way round.  One that is not yet answered, *)
(* or to be retried, is of a type that the directory serves.               *)
RoundMail == Ins \cup Outs \cup Waiting \cup requests \cup replies
Raw(m) == ~m.preprocessed /\ (m.type = "REQUEST" \/ m.reply = "RAR")
RawAsked == \A m \in RoundMail : Raw(m) => m.req_type \in ReqTypes

(* COHEs are sent one after the other, without other work in between.      *)
SentAtOnce == (req_partial # NULL => pc = "SENDCOHE") /\ (pc = "SENDCOHE" => sel = "PARTIAL")

RoomInv == OwnerInv /\ RawAsked /\ SentAtOnce /\ NoFatal

LEMMA TwoPlaces ==
  ASSUME NEW q \in Seq(REQ), NEW S, NEW i \in Where(q, S), NEW j \in Where(q, S), i # j
  PROVE  Cnt(q, S) >= 2
<1>1. IsFiniteSet(Where(q, S)) /\ Cnt(q, S) \in Nat
  BY WhereFinite
<1>2. /\ IsFiniteSet(Where(q, S) \ {i})
      /\ Cardinality(Where(q, S) \ {i}) = Cardinality(Where(q, S)) - 1
  BY <1>1, FS_RemoveElement
<1>3. Cardinality(Where(q, S) \ {i}) \in Nat
  BY <1>2, FS_CardinalityType
<1>4. Cardinality(Where(q, S) \ {i}) # 0
  BY <1>2, FS_EmptySet
<1> QED BY <1>1, <1>2, <1>3, <1>4 DEF Cnt

(* A queue with at most one message for each node and line is not full.    *)
LEMMA RoomFor ==
  ASSUME EnoughRoom, NEW q \in Seq(REQ),
         \A i, j \in DOMAIN q : q[i].node = q[j].node /\ q[i].tag = q[j].tag => i = j
  PROVE  ~Full(q)
<1>1. Len(q) \in Nat /\ DOMAIN q = 1..Len(q) /\ \A i \in 1..Len(q) : q[i] \in REQ
  OBVIOUS
<1>2. /\ IsFiniteSet(Nodes \X Lines)
      /\ Cardinality(Nodes \X Lines) = Cardinality(Nodes) * Cardinality(Lines)
  BY NodesAssumption, FS_Product
<1> PICK f : f = [i \in 1..Len(q) |-> <<q[i].node, q[i].tag>>]
  OBVIOUS
<1>3. f \in [1..Len(q) -> Nodes \X Lines]
  BY <1>1 DEF REQ
<1>4. \A i, j \in 1..Len(q) : f[i] = f[j] => i = j
  BY <1>1
<1>5. f \in Injection(1..Len(q), Nodes \X Lines)
  BY <1>3, <1>4 DEF Injection, IsInjective
<1>6. Cardinality(1..Len(q)) <= Cardinality(Nodes \X Lines)
  BY <1>2, <1>5, FS_Injection
<1>7. Cardinality(1..Len(q)) = Len(q)
  <2>1. Len(q) \in Nat
    OBVIOUS
  <2> PICK k \in Nat : k = Len(q)
    BY ONLY <2>1
  <2>2. 1 \in Int /\ k \in Int
    OBVIOUS
  <2>3. Cardinality(1..k) = IF 1 > k THEN 0 ELSE k - 1 + 1
    BY ONLY <2>2, FS_Interval
  <2>4. Cardinality(1..k) = k
    BY ONLY <2>3, k \in Nat
  <2> QED BY <2>4
<1>8. Cardinality(Nodes \X Lines) \in Nat
  BY <1>2, FS_CardinalityType
<1>9. OutCap > Cardinality(Nodes \X Lines)
  BY <1>2 DEF EnoughRoom
<1> QED BY <1>1, <1>6, <1>7, <1>8, <1>9, SizeAssumption DEF Full

(* There is one request of each processor for a line, and one COHE to each *)
(* cache.                                                                  *)
LEMMA PortsHaveRoom ==
  ASSUME EnoughRoom, RequestInv PROVE ~Full(outRep) /\ ~Full(outCohe)
<1>1. ProtocolInv /\ SetsFinite /\ AllOnes
  BY EachOnce DEF RequestInv, FlowInv
<1>2. outRep \in Seq(ReplyMsg) /\ outCohe \in Seq(CoheMsg)
  BY <1>1 DEF ProtocolInv, Shapes, DirShapes
<1>3. outRep \in Seq(REQ) /\ outCohe \in Seq(REQ)
  BY <1>1, QueueTypes
<1>4. ASSUME NEW i \in DOMAIN outRep, NEW j \in DOMAIN outRep, i # j,
             outRep[i].node = outRep[j].node, outRep[i].tag = outRep[j].tag
      PROVE  FALSE
  <2> PICK x \in ReplyMsg : x = outRep[i]
    BY <1>2
  <2> PICK y \in ReplyMsg : y = outRep[j]
    BY <1>2
  <2>1. /\ x \in REQ /\ x.isreq /\ x.forward_to = NULL
        /\ y \in REQ /\ y.isreq /\ y.forward_to = NULL
    BY DEF ReplyMsg
  <2> PICK n \in Nodes, l \in Lines : n = x.node /\ l = x.tag
    BY <2>1 DEF REQ
  <2> PICK S : S = Tok(n, l)
    OBVIOUS
  <2>2. x \in S /\ y \in S
    BY <1>4, <2>1 DEF Tok, IsToken, Owner
  <2>3. Cnt(outRep, S) >= 2
    <3>1. i \in Where(outRep, S) /\ j \in Where(outRep, S)
      BY <2>2 DEF Where
    <3> QED BY <1>3, <1>4, <3>1, TwoPlaces
  <2>4. DirTok(n, l) + CacheTok(n, l) <= 1
    BY DEF RequestInv, FlowInv, OneEach
  <2>5. /\ DirTok(n, l) = DirFlow(S) + DirHeld(S, l) + InExtra(n, l)
        /\ CacheTok(n, l) = CacheFlow(S) + CacheHeld(S)
        /\ DirHeld(S, l) = Cnt(inReq, S) + Cnt(outRep, S) + Cnt(ReadyReqs, S) + Cnt(BufPend[l], S)
    BY DEF DirTok, CacheTok, DirHeld
  <2>6. /\ DirFlow(S) \in Nat /\ CacheFlow(S) \in Nat /\ CacheHeld(S) \in Nat
        /\ Cnt(inReq, S) \in Nat /\ Cnt(outRep, S) \in Nat /\ Cnt(ReadyReqs, S) \in Nat
        /\ Cnt(BufPend[l], S) \in Nat /\ InExtra(n, l) \in Nat
    BY <1>1, Counts, Sums DEF InExtra
  <2> QED BY ONLY <2>3, <2>4, <2>5, <2>6
<1>5. ASSUME NEW i \in DOMAIN outCohe, NEW j \in DOMAIN outCohe, i # j,
             outCohe[i].node = outCohe[j].node, outCohe[i].tag = outCohe[j].tag
      PROVE  FALSE
  <2> PICK x \in CoheMsg : x = outCohe[i]
    BY <1>2
  <2> PICK y \in CoheMsg : y = outCohe[j]
    BY <1>2
  <2>1. x \in REQ /\ y \in REQ /\ IsCohe(x) /\ IsCohe(y) /\ x.type = "COHE" /\ y.type = "COHE"
    BY DEF CoheMsg, CoheTypes, WrbTypes, IsCohe
  <2> PICK n \in Nodes, l \in Lines : n = x.node /\ l = x.tag
    BY <2>1 DEF REQ
  <2>2. x \in Msgs(l) /\ y \in Msgs(l) /\ y.node = n
    BY <1>5 DEF Msgs, Mail, DirMail, Range
  <2>3. Flight(n, l) = 1 /\ y = x
    BY <1>1, <2>1, <2>2 DEF AllOnes, Ones, OneCohe
  <2>4. ASSUME NEW S, x \in S PROVE Cnt(outCohe, S) >= 2
    <3>1. i \in Where(outCohe, S) /\ j \in Where(outCohe, S)
      BY <2>3, <2>4 DEF Where
    <3> QED BY <1>3, <1>5, <3>1, TwoPlaces
  <2>5. x \in Own(n, l) \/ x \in Fwd(n, l)
    BY <2>1 DEF Own, Fwd, CoheAt, IsCohe
  <2>6. ASSUME NEW S PROVE Flow(S) \in Nat /\ Flow(S) >= Cnt(outCohe, S)
    <3>1. Flow(S) = Cnt(outCohe, S) + Cnt(OutboundReqs, S) + Cnt(inRep, S) + CacheFlow(S)
      BY DEF Flow, DirFlow
    <3>2. /\ Cnt(outCohe, S) \in Nat /\ Cnt(OutboundReqs, S) \in Nat /\ Cnt(inRep, S) \in Nat
          /\ CacheFlow(S) \in Nat
      BY <1>1, Counts, Sums
    <3> QED BY ONLY <3>1, <3>2
  <2>7. Flow(Own(n, l)) \in Nat /\ Flow(Fwd(n, l)) \in Nat
    BY <2>6
  <2>8. /\ x \in Own(n, l) => Flow(Own(n, l)) >= 2
        /\ x \in Fwd(n, l) => Flow(Fwd(n, l)) >= 2
    <3>1. ASSUME NEW S, x \in S PROVE Flow(S) >= 2
      <4>1. Cnt(outCohe, S) \in Nat
        BY <1>3, WhereFinite
      <4> QED BY <2>4, <2>6, <3>1, <4>1
    <3> QED BY <3>1
  <2>9. Flow(Own(n, l)) + Flow(Fwd(n, l)) = 1
    BY <2>3 DEF Flight
  <2> QED BY ONLY <2>5, <2>7, <2>8, <2>9
<1> QED BY <1>3, <1>4, <1>5, RoomFor

LEMMA RoundParts ==
  /\ RoundMail = Ins \cup Outs \cup Waiting \cup requests \cup replies
  /\ RoundMail' = Ins' \cup Outs' \cup Waiting' \cup requests' \cup replies'
  BY DEF RoundMail

LEMMA RoundStays ==
  ASSUME RawAsked, RoundMail' \subseteq RoundMail PROVE RawAsked'
  BY DEF RawAsked

LEMMA RoundGrows ==
  ASSUME RawAsked, NEW r, RoundMail' \subseteq RoundMail \cup {r},
         Raw(r) => r.req_type \in ReqTypes
  PROVE  RawAsked'
  BY DEF RawAsked

(* COHEs, answers to COHEs and replies with data are not raw.              *)
LEMMA NotRaw ==
  /\ \A m \in CoheMsg : ~Raw(m)
  /\ \A m \in ReplyMsg : m.reply = "REPLY" => ~Raw(m)
  BY DEF CoheMsg, ReplyMsg, Raw

LEMMA RequestServed ==
  ASSUME RoomInv, ServeReq
  PROVE  /\ Request \in RequestMsg /\ Request \in REQ /\ Request \in RoundMail
         /\ ~Request.preprocessed => Request.req_type \in ReqTypes
<1>1. ProtocolInv /\ OwnerInv
  BY OwnerFacts DEF RoomInv
<1>2. Request \in Ins
  BY <1>1, CommitPosts
<1> PICK m : m = Request
  OBVIOUS
<1>3. m \in RequestMsg /\ m \in REQ
  BY <1>1, RequestFacts
<1>4. m \in RoundMail
  BY <1>2, RoundParts
<1>5. m.type = "REQUEST"
  BY <1>3 DEF RequestMsg
<1> QED BY <1>3, <1>4, <1>5 DEF RoomInv, RawAsked, Raw

(* The directory serves a request and sends at most one reply.             *)
LEMMA RawRequests ==
  ASSUME RoomInv, EnoughRoom, DirReq, UNCHANGED l2Vars PROVE RawAsked'
<1>1. ProtocolInv /\ OwnerInv /\ RequestInv /\ RawAsked
  BY OwnerFacts DEF RoomInv
<1>2. ~Full(outRep)
  BY <1>1, PortsHaveRoom
<1>3. UNCHANGED <<requests, replies>>
  BY DEF l2Vars, portVars
<1>4. CASE DirReqError
  <2>1. UNCHANGED <<queueVars, inReq, outVars>>
    BY <1>4 DEF DirReqError, YS__errmsg, inVars
  <2>2. RoundMail' = RoundMail
    BY <1>3, <2>1, PartsSame, RoundParts DEF queueVars
  <2> QED BY <1>1, <2>2, RoundStays
<1> SUFFICES ASSUME ServeReq PROVE RawAsked'
  BY <1>4 DEF DirReq, DirReqBounce, DirReqRAR, DirReqPend, DirReqGrant, DirReqWaitForWRB,
              DirReqInval, DirReqForward, Decides, ServeCohe
<1> PICK m : m = Request
  OBVIOUS
<1>5. m \in RequestMsg /\ m \in REQ /\ m \in RoundMail
      /\ (~m.preprocessed => m.req_type \in ReqTypes)
  BY RequestServed
<1>6. CommitReq => Ins' \cup {m} = Ins
  BY <1>1, CommitPosts
<1>7. ASSUME CommitReq, UNCHANGED <<BufPend, OutboundReqs>>, NEW r \in REQ, AddReq(r),
             Raw(r) => r.req_type \in ReqTypes
      PROVE  RawAsked'
  <2>1. Outs' = Outs \cup {r}
    BY <1>1, <1>7, AddPosts
  <2>2. Waiting' = Waiting
    BY <1>7, PartsSame
  <2>3. RoundMail' \subseteq RoundMail \cup {r}
    BY <1>3, <1>6, <1>7, <2>1, <2>2, RoundParts
  <2> QED BY ONLY <1>1, <1>7, <2>3, RoundGrows
<1>8. CASE DirReqBounce
  <2> PICK r : r = [m EXCEPT !.type = "REPLY", !.reply = "REPLY"]
    OBVIOUS
  <2>1. r \in REQ /\ ~Raw(r)
    BY <1>5 DEF REQ, Raw
  <2>2. CommitReq /\ UNCHANGED <<BufPend, OutboundReqs>> /\ AddReq(r)
    BY <1>2, <1>8 DEF DirReqBounce
  <2> QED BY <1>7, <2>1, <2>2
<1>9. CASE DirReqRAR
  <2> PICK r : r = [m EXCEPT !.type = "REPLY", !.reply = "RAR"]
    OBVIOUS
  <2>1. r \in REQ /\ r.req_type \in ReqTypes
    BY <1>5, <1>9 DEF REQ, DirReqRAR
  <2>2. CommitReq /\ UNCHANGED <<BufPend, OutboundReqs>> /\ AddReq(r)
    BY <1>2, <1>9 DEF DirReqRAR
  <2> QED BY <1>7, <2>1, <2>2
<1>10. CASE DirReqGrant
  <2> PICK r : r = [[m EXCEPT !.req_type = GrantType(m)] EXCEPT !.type = "REPLY", !.reply = "REPLY"]
    OBVIOUS
  <2>1. GrantType(m) \in DataTypes
    BY DEF GrantType, DataTypes
  <2>2. r \in REQ /\ ~Raw(r)
    BY <1>5, <2>1 DEF REQ, Raw
  <2>3. CommitReq /\ UNCHANGED <<BufPend, OutboundReqs>> /\ AddReq(r)
    BY <1>2, <1>10 DEF DirReqGrant
  <2> QED BY <1>7, <2>2, <2>3
<1>11. CASE DirReqPend
  <2> PICK l : l = m.tag
    OBVIOUS
  <2>1. l \in Lines /\ BufPend' = [BufPend EXCEPT ![l] = Append(@, m)]
    BY <1>5, <1>11 DEF DirReqPend, REQ
  <2>2. Waiting' = Waiting \cup {m}
    BY <1>1, <1>5, <2>1, PendPosts
  <2>3. CommitReq /\ UNCHANGED <<OutboundReqs, outVars>>
    BY <1>11 DEF DirReqPend
  <2>4. RoundMail' \subseteq RoundMail
    BY <1>3, <1>5, <1>6, <2>2, <2>3, PartsSame, RoundParts
  <2> QED BY <1>1, <2>4, RoundStays
<1>12. CASE DirReqWaitForWRB \/ DirReqInval \/ DirReqForward
  <2>1. CommitReq /\ UNCHANGED <<BufPend, OutboundReqs, outVars>>
    BY <1>12 DEF DirReqWaitForWRB, DirReqInval, DirReqForward
  <2>2. RoundMail' \subseteq RoundMail
    BY <1>3, <1>6, <2>1, PartsSame, RoundParts
  <2> QED BY <1>1, <2>2, RoundStays
<1> QED BY <1>4, <1>8, <1>9, <1>10, <1>11, <1>12 DEF DirReq

(* It sends a COHE, or something else that is not raw.                     *)
LEMMA RawSends ==
  ASSUME RoomInv, DirStart \/ DirSend, UNCHANGED l2Vars PROVE RawAsked'
<1>1. ProtocolInv /\ OwnerInv /\ RawAsked
  BY OwnerFacts DEF RoomInv
<1>2. UNCHANGED <<requests, replies>>
  BY DEF l2Vars, portVars
<1>3. CASE DirStart
  <2>1. Outs' = Outs
    BY <1>1, <1>3, StartPosts
  <2>2. UNCHANGED <<inReq, ReadyReqs, BufPend>>
    BY <1>3 DEF DirStart, DirActivate, DirOutbound, DirPick, DirNextPort, queueVars, inVars
  <2>3. RoundMail' = RoundMail
    BY <1>2, <2>1, <2>2, PartsSame, RoundParts
  <2> QED BY <1>1, <2>3, RoundStays
<1>4. ASSUME UNCHANGED <<queueVars, inVars, outVars>> PROVE RawAsked'
  <2>1. RoundMail' = RoundMail
    BY <1>2, <1>4, PartsSame, RoundParts DEF queueVars, inVars
  <2> QED BY <1>1, <2>1, RoundStays
<1>5. ASSUME UNCHANGED <<queueVars, inVars>>, NEW c \in CoheMsg, AddReq(c) PROVE RawAsked'
  <2>1. c \in REQ /\ ~Raw(c)
    BY NotRaw, ShapesAreMessages
  <2>2. Outs' = Outs \cup {c}
    BY <1>1, <1>5, <2>1, AddPosts DEF queueVars
  <2>3. RoundMail' \subseteq RoundMail \cup {c}
    BY <1>2, <1>5, <2>2, PartsSame, RoundParts DEF queueVars, inVars
  <2> QED BY ONLY <1>1, <2>1, <2>3, RoundGrows
<1>6. CASE DirSendCoheNull
  BY <1>4, <1>6 DEF DirSendCoheNull, YS__errmsg
<1>7. CASE DirSendForward \/ DirSendInval
  <2> PICK l : l = req_partial
    OBVIOUS
  <2>1. l \in Lines /\ extra[l] # NULL /\ extra[l] \in DirEP /\ PendReq(l, extra[l])
    BY <1>1, <1>7, SendFacts DEF DirSendForward, DirSendInval
  <2>2. CASE DirSendForward
    <3> PICK c : c = extra[l].pend_req
      OBVIOUS
    <3>1. c \in CoheMsg
      BY <2>1, <2>2 DEF DirSendForward, PendReq, PlainRequest, RequestMsg
    <3>2. UNCHANGED <<queueVars, inVars>> /\ (UNCHANGED outVars \/ AddReq(c))
      BY <2>2 DEF DirSendForward
    <3> QED BY <1>4, <1>5, <3>1, <3>2
  <2>3. CASE DirSendInval
    <3>1. UNCHANGED <<queueVars, inVars>>
          /\ (UNCHANGED outVars \/ \E n \in extra[l].left : AddReq(Invalidation(l, n)))
      BY <2>3 DEF DirSendInval
    <3>2. ASSUME NEW n \in extra[l].left PROVE Invalidation(l, n) \in CoheMsg
      <4>1. extra[l].pend_req.type # "COHE"
        BY <2>3 DEF DirSendInval
      <4>2. extra[l].ret_st # "ACK_REPLY"
        BY <2>1, <4>1 DEF PendReq, CoheMsg
      <4>3. n \in Nodes /\ extra[l].nack_st = "NACK_OK"
        BY <2>1, <4>2 DEF PendReq, DirEP
      <4> QED BY <2>1, <4>3, InvalidationShape
    <3> QED BY <1>4, <1>5, <3>1, <3>2
  <2> QED BY <1>7, <2>2, <2>3
<1> QED BY <1>3, <1>6, <1>7 DEF DirSend

(* What comes out of an ended transaction goes to ReadyReqs.               *)
LEMMA RawRevives ==
  ASSUME RoomInv, UNCHANGED l2Vars, NEW l \in Lines, UNCHANGED inReq,
         DirCheckBuf(l, <<>>) \/ \E f \in REQ : f.req_type \in ReqTypes /\ DirCheckBuf(l, <<f>>),
         UNCHANGED <<OutboundReqs, outVars>>
           \/ \E r \in REQ : SendOrQueue(r) /\ (Raw(r) => r.req_type \in ReqTypes)
  PROVE  RawAsked'
<1>1. ProtocolInv /\ RawAsked
  BY OwnerFacts DEF RoomInv
<1>2. UNCHANGED <<requests, replies>>
  BY DEF l2Vars, portVars
<1>3. \E f : /\ f.req_type \in ReqTypes \/ f \in RoundMail
             /\ Ins' \cup Waiting' \subseteq Ins \cup Waiting \cup {f}
  <2>1. CASE DirCheckBuf(l, <<>>)
    <3>1. <<>> \in Seq(REQ) /\ Range(<<>>) = {}
      BY EmptySeq, Ranges
    <3>2. Ins' \cup Waiting' = Ins \cup Waiting \cup Range(<<>>)
      BY ONLY <1>1, <2>1, <3>1, l \in Lines, UNCHANGED inReq, RevivePosts
    <3>3. [req_type |-> "READ_SH"].req_type \in ReqTypes
      BY DEF ReqTypes
    <3> QED BY <3>1, <3>2, <3>3
  <2>2. ASSUME NEW f \in REQ, f.req_type \in ReqTypes, DirCheckBuf(l, <<f>>)
        PROVE  Ins' \cup Waiting' \subseteq Ins \cup Waiting \cup {f}
    <3>1. <<f>> \in Seq(REQ) /\ Range(<<f>>) = {f}
      <4>1. <<>> \in Seq(REQ) /\ f \in REQ
        BY <2>2, EmptySeq
      <4> QED BY <4>1, SeqFacts, PutRange
    <3>2. Ins' \cup Waiting' = Ins \cup Waiting \cup Range(<<f>>)
      BY ONLY <1>1, <2>2, <3>1, l \in Lines, UNCHANGED inReq, RevivePosts
    <3> QED BY <3>1, <3>2
  <2> QED BY <2>1, <2>2
<1>4. \E r : (Raw(r) => r.req_type \in ReqTypes) /\ Outs' \subseteq Outs \cup {r}
  <2>1. CASE UNCHANGED <<OutboundReqs, outVars>>
    <3>1. Outs' = Outs
      BY <2>1, PartsSame
    <3>2. ~Raw([preprocessed |-> TRUE])
      BY DEF Raw
    <3> QED BY <3>1, <3>2
  <2>2. ASSUME NEW r \in REQ, SendOrQueue(r) PROVE Outs' = Outs \cup {r}
    BY <1>1, <2>2, AddPosts
  <2> QED BY <2>1, <2>2
<1> PICK f : /\ f.req_type \in ReqTypes \/ f \in RoundMail
             /\ Ins' \cup Waiting' \subseteq Ins \cup Waiting \cup {f}
  BY <1>3
<1> PICK r : (Raw(r) => r.req_type \in ReqTypes) /\ Outs' \subseteq Outs \cup {r}
  BY <1>4
<1>5. ASSUME NEW m \in RoundMail', Raw(m) PROVE m.req_type \in ReqTypes
  <2>1. m \in RoundMail \/ m = f \/ m = r
    BY <1>2, <1>5, RoundParts
  <2> QED BY <1>1, <1>5, <2>1 DEF RawAsked
<1> QED BY <1>5 DEF RawAsked

LEMMA RawAnswers ==
  ASSUME RoomInv, DirCoheRep, UNCHANGED l2Vars PROVE RawAsked'
<1>1. ProtocolInv /\ OwnerInv /\ RequestInv /\ RawAsked /\ Kept
  BY OwnerFacts DEF RoomInv, DirShapes
<1>2. UNCHANGED <<requests, replies>>
  BY DEF l2Vars, portVars
<1>3. CASE DirCoheRepError
  BY <1>1, <1>3, AnswerExpected DEF DirCoheRepError
<1> SUFFICES ASSUME NEW c, Answers(c), \/ DirNackRace /\ c = "RACE"
                                       \/ DirNackRetry /\ c = "RETRY"
                                       \/ DirNackPendResend /\ c = "RESEND"
                                       \/ (DirAck \/ DirAckReply \/ DirAckForward) /\ c = "ACK"
             PROVE  RawAsked'
  BY <1>3 DEF DirCoheRep, DirNackRace, DirNackRetry, DirNackPendResend, DirAck,
              DirAckReply, DirAckForward
<1> PICK m : m = Answer
  OBVIOUS
<1> PICK l : l = m.tag
  OBVIOUS
<1>4. ServeRep /\ m.req_type \notin WrbTypes /\ AnswerError(m) = "none" /\ AnswerClass(m) = c
      /\ UNCHANGED inReq
  BY AnswersFacts
<1>5. l \in Lines /\ m \in AnswerMsg /\ m \in REQ /\ m.type = "COHE_REPLY"
  BY <1>1, <1>4, AnswerFacts
<1>6. \A t : FixForwardRARs(t) \in ReqTypes
  BY DEF FixForwardRARs, ReqTypes
<1>7. CASE DirNackRace /\ c = "RACE"
  <2>1. m.isreq /\ m.reply = "NACK"
    BY <1>4, <1>5, <1>7, AnswerSays
  <2>2. m.forward_to # NULL
    BY <1>5, <2>1 DEF AnswerMsg
  <2> PICK r : r = [m EXCEPT !.type = "REPLY", !.reply = "RAR",
                             !.req_type = FixForwardRARs(m.req_type),
                             !.nack_st = "NACK_OK",
                             !.node = m.forward_to, !.forward_to = NULL]
    OBVIOUS
  <2>3. r \in REQ /\ r.req_type \in ReqTypes
    BY <1>5, <1>6, <2>2 DEF REQ
  <2>4. DirCheckBuf(l, <<>>) /\ SendOrQueue(r)
    BY <1>7, <2>2 DEF DirNackRace
  <2> QED BY <1>4, <1>5, <2>3, <2>4, RawRevives
<1>8. CASE DirNackRetry /\ c = "RETRY"
  <2>1. m.forward_to # NULL
    BY <1>4, <1>5, <1>8, AnswerSays
  <2> PICK r : r = [m EXCEPT !.type = "REQUEST", !.reply = "REPLY",
                             !.req_type = FixForwardRARs(m.req_type),
                             !.nack_st = "NACK_OK",
                             !.node = m.forward_to, !.forward_to = NULL]
    OBVIOUS
  <2>2. r \in REQ /\ r.req_type \in ReqTypes
    BY <1>5, <1>6, <2>1 DEF REQ
  <2>3. DirCheckBuf(l, <<r>>) /\ UNCHANGED <<OutboundReqs, outVars>>
    BY <1>8 DEF DirNackRetry
  <2> QED BY <1>4, <1>5, <2>2, <2>3, RawRevives
<1>9. CASE DirNackPendResend /\ c = "RESEND"
  <2> PICK r : r = [m EXCEPT !.type = "COHE"]
    OBVIOUS
  <2>1. r \in CoheMsg
    BY <1>4, <1>5, <1>9, AnswerSays, RefusedCohe
  <2>2. r \in REQ /\ ~Raw(r)
    BY <2>1, NotRaw, ShapesAreMessages
  <2>3. SendOrQueue(r) /\ UNCHANGED <<ReadyReqs, BufPend>>
    BY <1>9 DEF DirNackPendResend
  <2>4. Outs' = Outs \cup {r}
    BY <1>1, <2>2, <2>3, AddPosts
  <2>5. RoundMail' \subseteq RoundMail \cup {r}
    BY <1>2, <1>4, <2>3, <2>4, PartsSame, RoundParts
  <2> QED BY ONLY <1>1, <2>2, <2>5, RoundGrows
<1>10. CASE DirAck
  <2>1. UNCHANGED <<queueVars, outVars>>
    BY <1>10 DEF DirAck
  <2>2. RoundMail' = RoundMail
    BY <1>2, <1>4, <2>1, PartsSame, RoundParts DEF queueVars
  <2> QED BY <1>1, <2>2, RoundStays
<1>11. CASE DirAckReply
  <2> PICK p : p = extra[l].pend_req
    OBVIOUS
  <2> PICK r : r = [p EXCEPT !.type = "REPLY", !.reply = "REPLY"]
    OBVIOUS
  <2>1. extra[l] # NULL
    BY <1>4, <1>11 DEF DirAckReply, AnswerError, Answers, AnswerClass
  <2>2. extra[l] \in DirEP
    BY <1>1, <1>5, <2>1, TableTypes
  <2>3. r \in REQ /\ ~Raw(r)
    <3>1. p \in REQ
      BY <2>2 DEF DirEP
    <3>2. r.type = "REPLY" /\ r.reply = "REPLY" /\ r \in REQ
      BY ONLY <3>1, r = [p EXCEPT !.type = "REPLY", !.reply = "REPLY"] DEF REQ
    <3> QED BY <3>2 DEF Raw
  <2>4. DirCheckBuf(l, <<>>) /\ SendOrQueue(r)
    BY <1>11 DEF DirAckReply
  <2> QED BY <1>4, <1>5, <2>3, <2>4, RawRevives
<1>12. CASE DirAckForward
  <2>1. DirCheckBuf(l, <<>>) /\ UNCHANGED <<OutboundReqs, outVars>>
    BY <1>12 DEF DirAckForward
  <2> QED BY <1>4, <1>5, <2>1, RawRevives
<1> QED BY <1>7, <1>8, <1>9, <1>10, <1>11, <1>12

(* A write-back revives the request that waited for it, as it was.         *)
LEMMA RawWriteBacks ==
  ASSUME RoomInv, DirWrb, UNCHANGED l2Vars PROVE RawAsked'
<1>1. ProtocolInv /\ OwnerInv /\ RawAsked /\ DirShapes
  BY OwnerFacts DEF RoomInv
<1>2. UNCHANGED <<requests, replies>>
  BY DEF l2Vars, portVars
<1>3. CASE DirWrbError
  BY <1>1, <1>3, WriteBackExpected DEF DirWrbError
<1> SUFFICES ASSUME WriteBack PROVE RawAsked'
  BY <1>3 DEF DirWrb, DirWrbRevive, DirWrbWasHere, DirWrbPlain
<1> PICK m : m = Answer
  OBVIOUS
<1> PICK l : l = m.tag
  OBVIOUS
<1>4. ServeRep /\ UNCHANGED <<inReq, OutboundReqs, outVars>>
  BY DEF WriteBack, CommitRep
<1>5. l \in Lines
  <2>1. IInv
    BY OwnerFacts, <1>1
  <2> QED BY <1>1, <1>4, <2>1, AnswerShape
<1>6. CASE DirWrbRevive
  <2> PICK p : p = extra[l].pend_req
    OBVIOUS
  <2>1. extra[l] # NULL /\ extra[l].waiting /\ DirCheckBuf(l, <<p>>)
    BY <1>6 DEF DirWrbRevive, Expected
  <2>2. extra[l] \in DirEP
    BY <1>1, <1>5, <2>1, TableTypes
  <2>3. p \in REQ
    BY <2>2 DEF DirEP
  <2>4. p.req_type \in ReqTypes
    <3>1. Agree(l)
      BY <1>1, <1>5, InvFacts
    <3> QED BY <2>1, <3>1 DEF Agree, Believes, BelievesWait, ReqTypes
  <2> QED BY <1>4, <1>5, <2>1, <2>3, <2>4, RawRevives
<1>7. CASE DirWrbWasHere
  <2>1. UNCHANGED <<BufPend, ReadyReqs>>
    BY <1>7 DEF DirWrbWasHere
  <2>2. RoundMail' = RoundMail
    BY <1>2, <1>4, <2>1, PartsSame, RoundParts
  <2> QED BY <1>1, <2>2, RoundStays
<1>8. CASE DirWrbPlain
  <2>1. DirCheckBuf(l, <<>>)
    BY <1>8 DEF DirWrbPlain
  <2> QED BY <1>4, <1>5, <2>1, RawRevives
<1>9. CASE DirWrbError
  BY <1>3, <1>9
<1> QED BY <1>6, <1>7, <1>8, <1>9 DEF DirWrb

(* The ports and the two networks only move messages.                      *)
LEMMA RawNetwork ==
  ASSUME RoomInv, Network PROVE RawAsked'
<1>1. ProtocolInv /\ RawAsked
  BY OwnerFacts DEF RoomInv
<1>2. /\ inReq \in Seq(REQ) /\ outCohe \in Seq(REQ) /\ outRep \in Seq(REQ)
      /\ requests \subseteq REQ
  BY <1>1, QueueTypes
<1>3. UNCHANGED <<queueVars, ReadyReqs, OutboundReqs, BufPend>> /\ Waiting' = Waiting
  <2>1. UNCHANGED queueVars
    BY DEF Network, DeliverRequest, DeliverCoheReply, DeliverCoheRep, DeliverCohe, DeliverReply,
           ArriveReq, ArriveRep, Arrival, TakeCohe, TakeRep, Removal
  <2> QED BY <2>1, PartsSame DEF queueVars
<1>4. CASE \E n \in Nodes : DeliverRequest(n)
  <2> PICK m \in requests : ArriveReq(m) /\ requests' = requests \ {m} /\ UNCHANGED replies
    BY <1>4 DEF DeliverRequest
  <2>1. inReq' = Append(inReq, m) /\ UNCHANGED outVars /\ m \in REQ
    BY <1>2 DEF ArriveReq, Arrival
  <2>2. Range(inReq') = Range(inReq) \cup {m}
    BY <1>2, <2>1, PutRange
  <2>3. Ins' = Ins \cup {m}
    BY <1>3, <2>2 DEF Ins
  <2>4. Outs' = Outs
    BY <1>3, <2>1, PartsSame
  <2>5. RoundMail' \subseteq RoundMail
    BY <1>3, <2>3, <2>4, RoundParts
  <2> QED BY <1>1, <2>5, RoundStays
<1>5. CASE \E n \in Nodes : DeliverCoheReply(n)
  <2>1. UNCHANGED <<inReq, outVars, requests, replies>>
    BY <1>5 DEF DeliverCoheReply, DeliverCoheRep, ArriveRep, Arrival
  <2>2. RoundMail' = RoundMail
    BY <1>3, <2>1, PartsSame, RoundParts
  <2> QED BY <1>1, <2>2, RoundStays
<1>6. CASE DeliverCohe
  <2>1. UNCHANGED <<inReq, outRep, requests, replies>> /\ outCohe # <<>> /\ outCohe' = Tail(outCohe)
    BY <1>6 DEF DeliverCohe, TakeCohe, Removal, CoheArrives, inVars
  <2>2. Range(outCohe') \subseteq Range(outCohe)
    BY <1>2, <2>1, TailRange
  <2>3. Outs' \subseteq Outs
    BY <1>3, <2>1, <2>2 DEF Outs
  <2>4. RoundMail' \subseteq RoundMail
    BY <1>3, <2>1, <2>3, PartsSame, RoundParts
  <2> QED BY <1>1, <2>4, RoundStays
<1>7. CASE DeliverReply
  <2> PICK m : m = Head(outRep)
    OBVIOUS
  <2>1. /\ UNCHANGED <<inReq, outCohe, requests>> /\ outRep # <<>> /\ outRep' = Tail(outRep)
        /\ replies' = replies \cup {m}
    BY <1>7 DEF DeliverReply, TakeRep, Removal, ReplyArrives, inVars
  <2>2. Range(outRep') \cup {m} = Range(outRep)
    BY <1>2, <2>1, TailRange
  <2>3. Outs' \cup {m} \subseteq Outs
    BY <1>3, <2>1, <2>2 DEF Outs
  <2>4. RoundMail' \subseteq RoundMail
    BY <1>3, <2>1, <2>3, PartsSame, RoundParts
  <2> QED BY <1>1, <2>4, RoundStays
<1> QED BY <1>4, <1>5, <1>6, <1>7 DEF Network

(* A cache asks for a line in one of three ways, or asks again as it did.  *)
LEMMA RawCaches ==
  ASSUME RoomInv, NEW n \in Nodes, L2Step(n), UNCHANGED dirVars PROVE RawAsked'
<1>1. RawAsked /\ OwnerInv
  BY DEF RoomInv
<1>2. Ins' = Ins /\ Outs' = Outs /\ Waiting' = Waiting
  BY PartsSame DEF dirVars, queueVars, inVars, outVars
<1>3. ASSUME NEW r, requests' \subseteq requests \cup {r}, replies' \subseteq replies,
             Raw(r) => r.req_type \in ReqTypes
      PROVE  RawAsked'
  <2>1. RoundMail' \subseteq RoundMail \cup {r}
    BY <1>2, <1>3, RoundParts
  <2> QED BY ONLY <1>1, <1>3, <2>1, RoundGrows
<1>4. ASSUME UNCHANGED requests, replies' \subseteq replies PROVE RawAsked'
  <2>1. RoundMail' \subseteq RoundMail
    BY <1>2, <1>4, RoundParts
  <2> QED BY <1>1, <2>1, RoundStays
<1>5. CASE Access(n)
  <2>1. ASSUME NEW l \in Lines, NEW t \in PrcrTypes, L2Miss(n, l, t) PROVE RawAsked'
    <3> PICK q : q = NxtModReq(t, st[n][l])
      OBVIOUS
    <3> PICK r : r = Request0(n, l, q)
      OBVIOUS
    <3>1. q \in ReqTypes /\ requests' \subseteq requests \cup {r} /\ replies' \subseteq replies
      BY <2>1 DEF L2Miss, NxtModReq, ReqTypes
    <3>2. r.req_type \in ReqTypes
      BY <3>1 DEF Request0
    <3> QED BY <1>3, <3>1, <3>2
  <2>2. ASSUME NEW l \in Lines, L2WriteHit(n, l) \/ L2WriteCoalesce(n, l) PROVE RawAsked'
    BY <1>4, <2>2 DEF L2WriteHit, L2WriteCoalesce, portVars
  <2> QED BY <1>5, <2>1, <2>2 DEF Access
<1>6. ASSUME NEW m \in replies, L2Retry(m) PROVE RawAsked'
  <2> PICK r : r = [m EXCEPT !.type = "REQUEST", !.reply = "REPLY"]
    OBVIOUS
  <2>1. mshrs[m.node][m.tag] # NULL
    BY <1>1, ReplyExpected
  <2>2. m.reply = "RAR" /\ replies' = replies \ {m} /\ requests' = requests \cup {r}
    BY <1>6, <2>1 DEF L2Retry
  <2>3. m \in REQ /\ m \in RoundMail
    BY <1>1, OwnerFacts, QueueTypes, RoundParts
  <2>4. r.preprocessed = m.preprocessed /\ r.req_type = m.req_type
    BY <2>3 DEF REQ
  <2>5. Raw(r) => r.req_type \in ReqTypes
    BY <1>1, <2>2, <2>3, <2>4 DEF RawAsked, Raw
  <2> QED BY <1>3, <2>2, <2>5
<1>7. ASSUME NEW m \in replies, L2Bounce(m) PROVE RawAsked'
  <2> PICK r : r = [m EXCEPT !.type = "REQUEST", !.preprocessed = TRUE]
    OBVIOUS
  <2>1. replies' = replies \ {m} /\ requests' = requests \cup {r}
    BY <1>7 DEF L2Bounce
  <2>2. m \in REQ
    BY <1>1, OwnerFacts, QueueTypes
  <2>3. ~Raw(r)
    BY <2>2 DEF REQ, Raw
  <2> QED BY <1>3, <2>1, <2>3
<1>8. ASSUME NEW m \in replies, L2Install(m, TRUE) \/ L2Install(m, FALSE) PROVE RawAsked'
  <2>1. m.reply = "REPLY"
    BY <1>8 DEF L2Install
  <2>2. ReplyError(m) = "none"
    BY <1>1, <2>1, ReplyExpected
  <2> QED BY <1>4, <1>8, <2>2 DEF L2Install
<1>9. CASE L2Cohe(n)
  BY <1>4, <1>9 DEF L2Cohe
<1>10. CASE L2NackPend(n) \/ L2Merge(n) \/ L2NackInvl(n) \/ L2NackMiss(n) \/ L2Ack(n)
  BY <1>4, <1>10 DEF L2NackPend, L2Merge, L2NackInvl, L2NackMiss, L2Ack, L1Answer
<1>11. CASE L2Forward(n)
  <2> PICK m : m = Head(atL1[n])
    OBVIOUS
  <2> PICK s : s = st[n][m.tag]
    OBVIOUS
  <2> PICK r : r = [m EXCEPT !.type = "REPLY", !.reply = "REPLY", !.node = m.forward_to,
                             !.req_type = ForwardType(m.req_type, s),
                             !.forward_to = NULL, !.nack_st = "NACK_OK"]
    OBVIOUS
  <2>1. atL1[n] # <<>> /\ replies' = replies \cup {r} /\ UNCHANGED requests
    BY <1>11 DEF L2Forward, L1Answer
  <2>2. m \in REQ
    <3>1. atL1 \in [Nodes -> Seq(REQ)]
      BY <1>1, OwnerFacts, QueueTypes
    <3>2. atL1[n] \in Seq(REQ)
      BY <3>1
    <3> QED BY <2>1, <3>2, Popped
  <2>3. ~Raw(r)
    BY <2>2 DEF REQ, Raw
  <2>4. RoundMail' \subseteq RoundMail \cup {r}
    BY <1>2, <2>1, RoundParts
  <2> QED BY ONLY <1>1, <2>3, <2>4, RoundGrows
<1>12. CASE L2CoheError(n)
  BY <1>4, <1>12 DEF L2CoheError, L2Errmsg, portVars
<1>13. ASSUME NEW l \in Lines, L2Evict(n, l) \/ L2SendWRB(n, l) \/ L2RemoveMSHR(n, l)
       PROVE  RawAsked'
  BY <1>4, <1>13 DEF L2Evict, L2SendWRB, L2RemoveMSHR, portVars
<1>14. CASE HandleReply(n) \/ HoldReply(n)
  BY <1>6, <1>7, <1>8, <1>14 DEF HandleReply, HoldReply, ReplyAt
<1>15. CASE HandleCoheRep(n)
  BY <1>10, <1>11, <1>12, <1>15 DEF HandleCoheRep
<1> QED BY <1>5, <1>9, <1>13, <1>14, <1>15 DEF L2Step

(* The pointer that a COHE is sent from is there.                          *)
LEMMA NothingMissing ==
  ASSUME RoomInv, SendCohe
  PROVE  Sending /\ pc = "SENDCOHE" /\ sel = "PARTIAL"
<1>1. SentAtOnce /\ ProtocolInv /\ RequestInv
  BY OwnerFacts DEF RoomInv
<1>2. pc = "SENDCOHE" /\ sel = "PARTIAL"
  BY <1>1 DEF SendCohe, Offer, SentAtOnce
<1>3. req_partial # NULL /\ req_partial \in Lines
  BY <1>1, <1>2 DEF ProtocolInv, IInv, CtlInv, CtlTypeOK, PickedThere
<1>4. extra[req_partial] # NULL
  BY <1>3, OwnerFacts DEF RoomInv, TransInv, TransOK, Quiet
<1> QED BY <1>2, <1>4 DEF Sending

(* The errors that are left do not happen.                                 *)
LEMMA NoErrorLeft ==
  ASSUME RoomInv, [Next]_vars PROVE NoFatal'
<1>1. OwnerInv /\ NoFatal
  BY DEF RoomInv
<1>2. CASE UNCHANGED vars
  BY <1>1, <1>2 DEF vars, dirVars, l2Vars, NoFatal
<1>3. CASE DirectoryStep
  <2>1. ~DirSendCoheNull
    BY NothingMissing DEF DirSendCoheNull, Sending
  <2>2. ServeReq => ReqError(Request) # "unknown request type"
    BY RequestServed DEF ReqError
  <2> QED BY <1>1, <1>3, <2>1, <2>2, DirectoryErrors DEF DirectoryStep, l2Vars, NoFatal
<1>4. CASE Network
  BY <1>1, <1>4 DEF Network, DeliverRequest, DeliverCoheReply, DeliverCoheRep, DeliverCohe,
              DeliverReply, ArriveReq, ArriveRep, Arrival, TakeCohe, TakeRep, Removal, NoFatal
<1>5. ASSUME NEW n \in Nodes, UNCHANGED dirVars, L2Step(n) PROVE NoFatal'
  BY <1>1, <1>5, CachesFindNoError DEF dirVars, NoFatal
<1> QED BY <1>2, <1>3, <1>4, <1>5 DEF Next, ByCache

(* Once a COHE of a transaction has left, so do the others; and the        *)
(* request port is looked at again only after that.                        *)
LEMMA SentAtOnceStep ==
  ASSUME RoomInv, EnoughRoom, [Next]_vars PROVE SentAtOnce'
<1>1. SentAtOnce /\ ProtocolInv /\ RequestInv
  BY OwnerFacts DEF RoomInv
<1>2. ~Full(outCohe)
  BY <1>1, PortsHaveRoom
<1>3. CASE UNCHANGED dirVars
  BY <1>1, <1>3 DEF dirVars, ctlVars, SentAtOnce
<1>4. CASE DirStart
  BY <1>1, <1>4 DEF DirStart, DirActivate, DirOutbound, DirPick, DirNextPort, Asleep, SentAtOnce
<1>5. ASSUME pc = "SERV", UNCHANGED req_partial, StartOver \/ pc' = "EXIT" PROVE SentAtOnce'
  BY <1>1, <1>5 DEF StartOver, SentAtOnce
<1>6. CASE DirReqError \/ DirReqBounce \/ DirReqRAR \/ DirReqPend \/ DirReqGrant \/ DirReqWaitForWRB
  BY <1>5, <1>6 DEF DirReqError, DirReqBounce, DirReqRAR, DirReqPend, DirReqGrant,
              DirReqWaitForWRB, YS__errmsg, ServeReq, ServeCohe, Decides
<1>7. CASE DirReqInval \/ DirReqForward
  BY <1>7 DEF DirReqInval, DirReqForward, StartCohe, SentAtOnce
<1>8. CASE DirCoheRep
  BY <1>5, <1>8 DEF DirCoheRep, DirCoheRepError, DirNackRace, DirNackRetry, DirNackPendResend,
              DirAck, DirAckReply, DirAckForward, Answers, ServeRep, YS__errmsg
<1>9. CASE DirWrb
  BY <1>5, <1>9 DEF DirWrb, DirWrbError, DirWrbRevive, DirWrbWasHere, DirWrbPlain, WriteBack,
              ServeRep, YS__errmsg
<1>10. CASE DirSendCoheNull
  BY <1>10, NothingMissing DEF DirSendCoheNull, Sending
<1>11. CASE DirSendForward
  BY <1>2, <1>11 DEF DirSendForward, StartOver, SentAtOnce
<1>12. CASE DirSendInval
  <2>1. sel = "PARTIAL"
    BY <1>12, NothingMissing DEF DirSendInval, Sending
  <2> QED BY <1>2, <1>12, <2>1 DEF DirSendInval, StartOver, SentAtOnce
<1>13. CASE Network
  <2>1. /\ UNCHANGED <<sel, req_partial>>
        /\ pc' = pc \/ (pc \in {"WAIT_INQ_EMPTY", "WAIT_QUEUE_EVENT"} /\ pc' = "SCHED")
    BY <1>13 DEF Network, DeliverRequest, DeliverCoheReply, DeliverCoheRep, DeliverCohe,
                 DeliverReply, ArriveReq, ArriveRep, Arrival, TakeCohe, TakeRep, Removal
  <2> QED BY <1>1, <2>1 DEF SentAtOnce
<1> QED BY <1>3, <1>4, <1>6, <1>7, <1>8, <1>9, <1>10, <1>11, <1>12, <1>13
        DEF Next, ByCache, DirectoryStep, DirStep, DirReq, DirSend, vars

LEMMA RoomStep ==
  ASSUME RoomInv, OwnerInv', EnoughRoom, [Next]_vars PROVE RoomInv'
<1>1. RawAsked'
  <2>1. CASE UNCHANGED vars
    <3>1. UNCHANGED dirVars /\ UNCHANGED <<requests, replies>>
      BY <2>1 DEF vars, l2Vars, portVars
    <3>2. RoundMail' = RoundMail
      BY <3>1, PartsSame, RoundParts DEF dirVars, queueVars, inVars, outVars
    <3> QED BY <3>2, RoundStays DEF RoomInv
  <2>2. CASE DirectoryStep
    BY <2>2, RawSends, RawRequests, RawAnswers, RawWriteBacks DEF DirectoryStep, DirStep
  <2>3. CASE Network
    BY <2>3, RawNetwork
  <2>4. ASSUME NEW n \in Nodes, UNCHANGED dirVars, L2Step(n) PROVE RawAsked'
    BY <2>4, RawCaches
  <2> QED BY <2>1, <2>2, <2>3, <2>4 DEF Next, ByCache
<1> QED BY <1>1, SentAtOnceStep, NoErrorLeft DEF RoomInv

LEMMA RoomStart == ASSUME Init PROVE RoomInv
<1>1. Ins = {} /\ Outs = {} /\ Waiting = {}
  BY Ranges DEF Init, DirInit, Ins, Outs, Waiting
<1>2. RoundMail = {}
  BY <1>1, RoundParts DEF Init, L2Init
<1> QED BY <1>2, OwnerStart
        DEF RoomInv, RawAsked, SentAtOnce, NoFatal, Init, DirInit, L2Init

(* With ports that hold a message for each node and line no error is       *)
(* reached at all: the directory and the caches have a case for every      *)
(* message that they are sent, and follow no null pointer.                 *)
THEOREM NoErrors ==
  ASSUME ~DataPipeFull, EnoughRoom PROVE Spec => []NoFatal
<1>1. Init => RoomInv
  BY RoomStart
<1>2. RoomInv /\ OwnerInv' /\ [Next]_vars => RoomInv'
  BY RoomStep
<1>3. RoomInv => NoFatal
  BY DEF RoomInv
<1> QED BY <1>1, <1>2, <1>3, OwnersKnown, PTL DEF Spec
=============================================================================
