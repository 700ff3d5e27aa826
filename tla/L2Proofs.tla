------------------------------ MODULE L2Proofs ------------------------------
(***************************************************************************)
(* What the L2 caches guarantee for any number of nodes and lines,         *)
(* whatever REPLYs and COHEs reach them and in whichever order.            *)
(* L2Consistent is inductive as it stands, but its parts need each other:  *)
(* that a REPLY installs no line that is still being written back rests on *)
(* MSHROK and WrbExclusive, and that a COHE's effect clears its cohe_pend  *)
(* on the types of what is at the L1 cache.  Each action first yields the  *)
(* messages it sends (types), then the books of the one line it changes.   *)
(***************************************************************************)
EXTENDS L2Cache, TLAPS

(* The parts of L2Consistent for one line of one node.                     *)
LineBooks(n, l) ==
  /\ wrb_buf[n][l] # "NONE" => st[n][l] = "INVALID" /\ mshrs[n][l] = NULL
  /\ cohe_pend[n][l] => /\ st[n][l] # "INVALID"
                        /\ \E i \in DOMAIN atL1[n] : atL1[n][i].tag = l
  /\ mshrs[n][l] # NULL =>
       /\ mshrs[n][l].writes_present => mshrs[n][l].excl
       /\ mshrs[n][l].pend_cohe_type # "NONE" => ~mshrs[n][l].excl
       /\ ~mshrs[n][l].installed => \/ st[n][l] = "INVALID"
                                    \/ st[n][l] = "SH_CL" /\ mshrs[n][l].excl

(* The tables of the caches have their types.                              *)
TablesOK ==
  /\ st \in [Nodes -> [Lines -> States]]
  /\ cohe_pend \in [Nodes -> [Lines -> BOOLEAN]]
  /\ mshrs \in [Nodes -> [Lines -> MSHR \cup {NULL}]]
  /\ wrb_buf \in [Nodes -> [Lines -> {"NONE", "INVL", "WRB", "REPL"}]]

(* The messages at and around the caches have theirs.                      *)
TrafficOK ==
  /\ atL1 \in [Nodes -> Seq(REQ)] /\ coheIn \in [Nodes -> Seq(REQ)]
  /\ replies \subseteq REQ /\ requests \subseteq REQ /\ coheReps \subseteq REQ

(* The conjuncts of L2Consistent, line by line.                            *)
LEMMA PartsOf ==
  ASSUME L2Consistent
  PROVE  /\ TablesOK /\ TrafficOK /\ l2fatal \in L2FatalCodes
         /\ \A n \in Nodes, l \in Lines : LineBooks(n, l)
<1>1. TablesOK /\ TrafficOK /\ l2fatal \in L2FatalCodes
  BY DEF L2Consistent, L2TypeOK, TablesOK, TrafficOK
<1>2. ASSUME NEW n \in Nodes, NEW l \in Lines PROVE LineBooks(n, l)
  BY DEF L2Consistent, WrbExclusive, CohePendOK, MSHROK, LineBooks
<1> QED BY <1>1, <1>2

(* L2Consistent after a step, from its conjuncts.                          *)
LEMMA PartsTo ==
  ASSUME TablesOK', TrafficOK', (l2fatal \in L2FatalCodes)',
         \A n \in Nodes, l \in Lines : LineBooks(n, l)'
  PROVE  L2Consistent'
<1>1. L2TypeOK'
  BY DEF L2TypeOK, TablesOK, TrafficOK
<1>2. WrbExclusive' /\ CohePendOK' /\ MSHROK'
  BY DEF WrbExclusive, CohePendOK, MSHROK, LineBooks
<1> QED BY <1>1, <1>2 DEF L2Consistent

(* What a step leaves of line j of node k as it was, but for COHEs of the  *)
(* line that reach the L1 cache or are answered while none is booked.      *)
Same(k, j) ==
  /\ st'[k][j] = st[k][j] /\ cohe_pend'[k][j] = cohe_pend[k][j]
  /\ mshrs'[k][j] = mshrs[k][j] /\ wrb_buf'[k][j] = wrb_buf[k][j]
  /\ \A i \in DOMAIN atL1[k] :
       atL1[k][i].tag = j => \E h \in DOMAIN atL1'[k] : atL1'[k][h].tag = j

(* A step that changes one line of one node keeps the others' books.       *)
LEMMA Elsewhere ==
  ASSUME L2Consistent, NEW n \in Nodes, NEW l \in Lines, LineBooks(n, l)',
         \A k \in Nodes, j \in Lines : k # n \/ j # l => Same(k, j)
  PROVE  \A k \in Nodes, j \in Lines : LineBooks(k, j)'
<1> SUFFICES ASSUME NEW k \in Nodes, NEW j \in Lines, k # n \/ j # l
             PROVE  LineBooks(k, j)'
  OBVIOUS
<1>1. LineBooks(k, j) /\ Same(k, j)
  BY PartsOf
<1> QED BY <1>1 DEF LineBooks, Same

(* A step that leaves all tables and the COHEs at the L1 caches alone.     *)
LEMMA NothingChanged ==
  ASSUME L2Consistent, UNCHANGED cacheVars
  PROVE  TablesOK' /\ atL1' \in [Nodes -> Seq(REQ)]
         /\ \A k \in Nodes, j \in Lines : LineBooks(k, j)'
<1>1. TablesOK' /\ atL1' \in [Nodes -> Seq(REQ)]
  BY PartsOf DEF TablesOK, TrafficOK, cacheVars
<1>2. ASSUME NEW k \in Nodes, NEW j \in Lines PROVE LineBooks(k, j)'
  BY PartsOf DEF LineBooks, cacheVars
<1> QED BY <1>1, <1>2

(* Assigning to one line of a table keeps its type and the other lines.    *)
LEMMA SetMSHR ==
  ASSUME TablesOK, NEW n \in Nodes, NEW l \in Lines, NEW v \in MSHR \cup {NULL},
         mshrs' = Set(mshrs, n, l, v)
  PROVE  /\ mshrs' \in [Nodes -> [Lines -> MSHR \cup {NULL}]] /\ mshrs'[n][l] = v
         /\ \A k \in Nodes, j \in Lines : k # n \/ j # l => mshrs'[k][j] = mshrs[k][j]
  BY DEF Set, TablesOK

(* The same for the states of the lines.                                   *)
LEMMA SetState ==
  ASSUME TablesOK, NEW n \in Nodes, NEW l \in Lines, NEW v \in States,
         st' = Set(st, n, l, v)
  PROVE  /\ st' \in [Nodes -> [Lines -> States]] /\ st'[n][l] = v
         /\ \A k \in Nodes, j \in Lines : k # n \/ j # l => st'[k][j] = st[k][j]
  BY DEF Set, TablesOK

-----------------------------------------------------------------------------
(* The processor's accesses.                                               *)
LEMMA AccessStep ==
  ASSUME L2Consistent, NEW n \in Nodes, Access(n) PROVE L2Consistent'
<1> PICK l \in Lines : (\E t \in PrcrTypes : L2Miss(n, l, t)) \/ L2WriteHit(n, l) \/ L2WriteCoalesce(n, l)
  BY DEF Access
<1>1. TablesOK /\ TrafficOK /\ l2fatal \in L2FatalCodes /\ LineBooks(n, l)
  BY PartsOf
<1>2. ASSUME NEW t \in PrcrTypes, L2Miss(n, l, t) PROVE L2Consistent'
  <2> PICK e \in BOOLEAN, w \in BOOLEAN : e = (t # "READ") /\ w = (t = "WRITE")
    OBVIOUS
  <2> DEFINE h == [excl |-> e, writes_present |-> w,
                   pend_cohe_type |-> "NONE", installed |-> FALSE]
             r == Request0(n, l, NxtModReq(t, st[n][l]))
  <2>1. h \in MSHR /\ h # NULL
    <3>1. h \in MSHR
      BY DEF MSHR
    <3> QED BY <3>1, MSHRAssumption
  <2>2. NxtModReq(t, st[n][l]) \in ReqTypes
    BY <1>2 DEF L2Miss, NxtModReq, ReqTypes
  <2>3. r \in REQ
    BY <2>2 DEF REQ, Request0
  <2>4. /\ mshrs' = Set(mshrs, n, l, h) /\ requests' = requests \cup {r}
        /\ wrb_buf[n][l] = "NONE"
        /\ w => e
        /\ st[n][l] = "INVALID" \/ (st[n][l] = "SH_CL" /\ e)
        /\ UNCHANGED <<st, cohe_pend, wrb_buf, atL1, coheIn, replies, coheReps, l2fatal>>
    BY <1>2 DEF L2Miss, Stalls, NxtModReq
  <2> HIDE DEF r
  <2>5. mshrs' \in [Nodes -> [Lines -> MSHR \cup {NULL}]] /\ mshrs'[n][l] = h
        /\ \A k \in Nodes, j \in Lines : k # n \/ j # l => mshrs'[k][j] = mshrs[k][j]
    <3> HIDE DEF h
    <3> QED BY <1>1, <2>1, <2>4, SetMSHR
  <2>6. LineBooks(n, l)'
    BY <1>1, <2>1, <2>4, <2>5 DEF LineBooks
  <2>7. \A k \in Nodes, j \in Lines : k # n \/ j # l => Same(k, j)
    BY <2>4, <2>5 DEF Same
  <2>8. TablesOK' /\ TrafficOK' /\ l2fatal' \in L2FatalCodes
    BY <1>1, <2>3, <2>4, <2>5 DEF TablesOK, TrafficOK
  <2> QED BY <2>6, <2>7, <2>8, Elsewhere, PartsTo
<1>3. ASSUME L2WriteHit(n, l) PROVE L2Consistent'
  <2>1. /\ st' = Set(st, n, l, "PR_DY") /\ st[n][l] = "PR_CL" /\ mshrs[n][l] = NULL
        /\ ~cohe_pend[n][l]
        /\ UNCHANGED <<cohe_pend, mshrs, wrb_buf, atL1, coheIn, replies, requests, coheReps, l2fatal>>
    BY <1>3 DEF L2WriteHit, portVars
  <2>2. st' \in [Nodes -> [Lines -> States]] /\ st'[n][l] = "PR_DY"
        /\ \A k \in Nodes, j \in Lines : k # n \/ j # l => st'[k][j] = st[k][j]
    BY <1>1, <2>1, SetState DEF States
  <2>3. LineBooks(n, l)'
    BY <1>1, <2>1, <2>2 DEF LineBooks
  <2>4. \A k \in Nodes, j \in Lines : k # n \/ j # l => Same(k, j)
    BY <2>1, <2>2 DEF Same
  <2>5. TablesOK' /\ TrafficOK' /\ l2fatal' \in L2FatalCodes
    BY <1>1, <2>1, <2>2 DEF TablesOK, TrafficOK
  <2> QED BY <2>3, <2>4, <2>5, Elsewhere, PartsTo
<1>4. ASSUME L2WriteCoalesce(n, l) PROVE L2Consistent'
  <2> DEFINE h == [mshrs[n][l] EXCEPT !.writes_present = TRUE]
  <2>1. /\ mshrs' = Set(mshrs, n, l, h) /\ mshrs[n][l] # NULL /\ mshrs[n][l].excl
        /\ mshrs[n][l].pend_cohe_type = "NONE"
        /\ UNCHANGED <<st, cohe_pend, wrb_buf, atL1, coheIn, replies, requests, coheReps, l2fatal>>
    BY <1>1, <1>4 DEF L2WriteCoalesce, portVars, Set, TablesOK
  <2>2. mshrs[n][l] \in MSHR
    BY <1>1, <2>1 DEF TablesOK
  <2>3. h \in MSHR /\ h # NULL /\ h.excl /\ h.pend_cohe_type = "NONE"
        /\ h.installed = mshrs[n][l].installed
    BY <2>1, <2>2, MSHRAssumption DEF MSHR
  <2> HIDE DEF h
  <2>4. mshrs' \in [Nodes -> [Lines -> MSHR \cup {NULL}]] /\ mshrs'[n][l] = h
        /\ \A k \in Nodes, j \in Lines : k # n \/ j # l => mshrs'[k][j] = mshrs[k][j]
    BY <1>1, <2>1, <2>3, SetMSHR
  <2>5. LineBooks(n, l)'
    BY <1>1, <2>1, <2>3, <2>4 DEF LineBooks
  <2>6. \A k \in Nodes, j \in Lines : k # n \/ j # l => Same(k, j)
    BY <2>1, <2>4 DEF Same
  <2>7. TablesOK' /\ TrafficOK' /\ l2fatal' \in L2FatalCodes
    BY <1>1, <2>1, <2>4 DEF TablesOK, TrafficOK
  <2> QED BY <2>5, <2>6, <2>7, Elsewhere, PartsTo
<1> QED BY <1>2, <1>3, <1>4
-----------------------------------------------------------------------------
(* A message is for one line of one node.                                  *)
LEMMA MessageFields ==
  ASSUME NEW m \in REQ
  PROVE  /\ m.node \in Nodes /\ m.tag \in Lines /\ m.forward_to \in Nodes \cup {NULL}
  BY DEF REQ

(* An error leaves everything as it was.                                   *)
LEMMA ErrorStep ==
  ASSUME L2Consistent, NEW c \in L2FatalCodes, L2Errmsg(c) PROVE L2Consistent'
<1>1. UNCHANGED cacheVars /\ UNCHANGED portVars /\ l2fatal' \in L2FatalCodes
  BY DEF L2Errmsg
<1>2. TrafficOK'
  BY <1>1, PartsOf DEF cacheVars, portVars, TrafficOK
<1> QED BY <1>1, <1>2, NothingChanged, PartsTo

(* A REPLY sends the request again, or is bounced off the directory.       *)
LEMMA RetryStep ==
  ASSUME L2Consistent, NEW m, L2Retry(m) \/ L2Bounce(m) PROVE L2Consistent'
<1>1. m \in replies /\ TrafficOK /\ l2fatal \in L2FatalCodes
  BY PartsOf DEF L2Retry, L2Bounce
<1>2. m \in REQ
  BY <1>1 DEF TrafficOK
<1>3. CASE L2Retry(m) /\ mshrs[m.node][m.tag] = NULL
  BY <1>3, ErrorStep DEF L2Retry, L2FatalCodes
<1>4. CASE ~(L2Retry(m) /\ mshrs[m.node][m.tag] = NULL)
  <2>1. PICK r \in REQ : requests' = requests \cup {r} /\ replies' = replies \ {m}
                         /\ UNCHANGED <<coheIn, coheReps, l2fatal>> /\ UNCHANGED cacheVars
    <3>1. CASE L2Retry(m)
      <4>1. [m EXCEPT !.type = "REQUEST", !.reply = "REPLY"] \in REQ
        BY <1>2 DEF REQ
      <4> QED BY <1>4, <3>1, <4>1 DEF L2Retry
    <3>2. CASE L2Bounce(m)
      <4>1. [m EXCEPT !.type = "REQUEST", !.preprocessed = TRUE] \in REQ
        BY <1>2 DEF REQ
      <4> QED BY <3>2, <4>1 DEF L2Bounce
    <3> QED BY <3>1, <3>2
  <2>2. TrafficOK' /\ l2fatal' \in L2FatalCodes
    BY <1>1, <2>1 DEF TrafficOK, cacheVars
  <2> QED BY <2>1, <2>2, NothingChanged, PartsTo
<1> QED BY <1>3, <1>4

(* A REPLY sets the line, with the MSHR's write or merged COHE, and the    *)
(* MSHR goes or stays marked as installed.                                 *)
LEMMA InstallStep ==
  ASSUME L2Consistent, NEW m, NEW held \in BOOLEAN, L2Install(m, held) PROVE L2Consistent'
<1>1. m \in replies /\ TablesOK /\ TrafficOK /\ l2fatal \in L2FatalCodes
  BY PartsOf DEF L2Install
<1>2. m \in REQ
  BY <1>1 DEF TrafficOK
<1>3. PICK n \in Nodes, l \in Lines : n = m.node /\ l = m.tag
  BY <1>2, MessageFields
<1>4. CASE ReplyError(m) # "none"
  <2>1. ReplyError(m) \in L2FatalCodes
    BY DEF ReplyError, L2FatalCodes
  <2> QED BY <1>4, <2>1, ErrorStep DEF L2Install
<1>5. CASE ReplyError(m) = "none"
  <2> PICK h \in MSHR : h = mshrs[n][l]
    BY <1>1, <1>3, <1>5 DEF ReplyError, TablesOK
  <2> DEFINE s == ReplyState(m.req_type)
             v == IF h.writes_present THEN "PR_DY"
                  ELSE IF s = "SH_CL" /\ h.pend_cohe_type = "INVL" THEN "INVALID" ELSE s
             i == [h EXCEPT !.installed = TRUE]
             k == IF held THEN i ELSE NULL
  <2>1. /\ h # NULL /\ LineBooks(n, l)
        /\ st[n][l] = IF m.req_type = "REPLY_UPGRADE" THEN "SH_CL" ELSE "INVALID"
        /\ h.writes_present => s # "SH_CL"
    BY <1>3, <1>5, PartsOf DEF ReplyError, ReplyValid
  <2>2. s \in {"SH_CL", "PR_CL", "PR_DY"} /\ (m.req_type = "REPLY_UPGRADE" => s # "SH_CL")
    BY DEF ReplyState
  <2>3. v \in States /\ (st[n][l] = "SH_CL" => v # "INVALID")
    BY <2>1, <2>2 DEF States
  <2>4. i \in MSHR /\ i.installed /\ i.writes_present = h.writes_present
        /\ i.excl = h.excl /\ i.pend_cohe_type = h.pend_cohe_type
    BY DEF MSHR
  <2>5. /\ st' = Set(st, n, l, v)
        /\ cohe_pend' = IF st[n][l] = "INVALID" THEN Set(cohe_pend, n, l, FALSE) ELSE cohe_pend
        /\ mshrs' = IF held THEN [mshrs EXCEPT ![n][l].installed = TRUE]
                            ELSE Set(mshrs, n, l, NULL)
        /\ replies' = replies \ {m}
        /\ UNCHANGED <<wrb_buf, atL1, coheIn, requests, coheReps, l2fatal>>
    BY <1>3, <1>5 DEF L2Install
  <2>6. mshrs' = Set(mshrs, n, l, k)
    BY <1>1, <2>5 DEF Set, TablesOK
  <2> HIDE DEF s, v, i
  <2>7. k \in MSHR \cup {NULL}
    BY <2>4
  <2>8. st' \in [Nodes -> [Lines -> States]] /\ st'[n][l] = v
        /\ \A b \in Nodes, j \in Lines : b # n \/ j # l => st'[b][j] = st[b][j]
    BY <1>1, <2>3, <2>5, SetState
  <2>9. mshrs' \in [Nodes -> [Lines -> MSHR \cup {NULL}]] /\ mshrs'[n][l] = k
        /\ \A b \in Nodes, j \in Lines : b # n \/ j # l => mshrs'[b][j] = mshrs[b][j]
    <3> HIDE DEF k
    <3> QED BY <1>1, <2>6, <2>7, SetMSHR
  <2>10. /\ cohe_pend' \in [Nodes -> [Lines -> BOOLEAN]]
         /\ cohe_pend'[n][l] => cohe_pend[n][l] /\ st[n][l] = "SH_CL"
         /\ \A b \in Nodes, j \in Lines : b # n \/ j # l => cohe_pend'[b][j] = cohe_pend[b][j]
    BY <1>1, <2>1, <2>5 DEF Set, TablesOK
  <2>11. LineBooks(n, l)'
    <3>1. wrb_buf'[n][l] = "NONE"
      BY <1>1, <2>1, <2>5 DEF LineBooks
    <3>2. cohe_pend'[n][l] => /\ st'[n][l] # "INVALID"
                              /\ \E b \in DOMAIN atL1'[n] : atL1'[n][b].tag = l
      BY <2>1, <2>3, <2>5, <2>8, <2>10 DEF LineBooks
    <3>3. CASE held
      BY <2>1, <2>4, <2>9, <3>1, <3>2, <3>3 DEF LineBooks
    <3>4. CASE ~held
      BY <2>9, <3>1, <3>2, <3>4 DEF LineBooks
    <3> QED BY <3>3, <3>4
  <2>12. \A b \in Nodes, j \in Lines : b # n \/ j # l => Same(b, j)
    BY <2>5, <2>8, <2>9, <2>10 DEF Same
  <2>13. TablesOK' /\ TrafficOK' /\ l2fatal' \in L2FatalCodes
    BY <1>1, <2>5, <2>8, <2>9, <2>10 DEF TablesOK, TrafficOK
  <2> QED BY <2>11, <2>12, <2>13, Elsewhere, PartsTo
<1> QED BY <1>4, <1>5

(* The MSHR of an installed line goes.                                     *)
LEMMA RemoveStep ==
  ASSUME L2Consistent, NEW n \in Nodes, NEW l \in Lines, L2RemoveMSHR(n, l) PROVE L2Consistent'
<1>1. TablesOK /\ TrafficOK /\ l2fatal \in L2FatalCodes /\ LineBooks(n, l)
  BY PartsOf
<1>2. /\ mshrs' = Set(mshrs, n, l, NULL)
      /\ UNCHANGED <<st, cohe_pend, wrb_buf, atL1, coheIn, replies, requests, coheReps, l2fatal>>
  BY DEF L2RemoveMSHR, portVars
<1>3. mshrs' \in [Nodes -> [Lines -> MSHR \cup {NULL}]] /\ mshrs'[n][l] = NULL
      /\ \A k \in Nodes, j \in Lines : k # n \/ j # l => mshrs'[k][j] = mshrs[k][j]
  BY <1>1, <1>2, SetMSHR
<1>4. LineBooks(n, l)'
  BY <1>1, <1>2, <1>3 DEF LineBooks
<1>5. \A k \in Nodes, j \in Lines : k # n \/ j # l => Same(k, j)
  BY <1>2, <1>3 DEF Same
<1>6. TablesOK' /\ TrafficOK' /\ l2fatal' \in L2FatalCodes
  BY <1>1, <1>2, <1>3 DEF TablesOK, TrafficOK
<1> QED BY <1>4, <1>5, <1>6, Elsewhere, PartsTo

(* A victim without MSHR enters the write-back buffer ...                  *)
LEMMA EvictStep ==
  ASSUME L2Consistent, NEW n \in Nodes, NEW l \in Lines, L2Evict(n, l) PROVE L2Consistent'
<1>1. TablesOK /\ TrafficOK /\ l2fatal \in L2FatalCodes /\ LineBooks(n, l)
  BY PartsOf
<1>2. /\ mshrs[n][l] = NULL
      /\ st' = Set(st, n, l, "INVALID") /\ cohe_pend' = Set(cohe_pend, n, l, FALSE)
      /\ wrb_buf' = Set(wrb_buf, n, l, VictimEntry(st[n][l]))
      /\ UNCHANGED <<mshrs, atL1, coheIn, replies, requests, coheReps, l2fatal>>
  BY DEF L2Evict, portVars
<1>3. VictimEntry(st[n][l]) \in {"INVL", "REPL", "WRB"}
  BY DEF VictimEntry
<1>4. st' \in [Nodes -> [Lines -> States]] /\ st'[n][l] = "INVALID"
      /\ \A k \in Nodes, j \in Lines : k # n \/ j # l => st'[k][j] = st[k][j]
  BY <1>1, <1>2, SetState DEF States
<1>5. /\ cohe_pend' \in [Nodes -> [Lines -> BOOLEAN]] /\ ~cohe_pend'[n][l]
      /\ wrb_buf' \in [Nodes -> [Lines -> {"NONE", "INVL", "WRB", "REPL"}]]
      /\ \A k \in Nodes, j \in Lines : k # n \/ j # l =>
           cohe_pend'[k][j] = cohe_pend[k][j] /\ wrb_buf'[k][j] = wrb_buf[k][j]
  BY <1>1, <1>2, <1>3 DEF Set, TablesOK
<1>6. LineBooks(n, l)'
  BY <1>1, <1>2, <1>4, <1>5 DEF LineBooks
<1>7. \A k \in Nodes, j \in Lines : k # n \/ j # l => Same(k, j)
  BY <1>2, <1>4, <1>5 DEF Same
<1>8. TablesOK' /\ TrafficOK' /\ l2fatal' \in L2FatalCodes
  BY <1>1, <1>2, <1>4, <1>5 DEF TablesOK, TrafficOK
<1> QED BY <1>6, <1>7, <1>8, Elsewhere, PartsTo

(* ... and leaves it as a message, or as nothing.                          *)
LEMMA SendWRBStep ==
  ASSUME L2Consistent, NEW n \in Nodes, NEW l \in Lines, L2SendWRB(n, l) PROVE L2Consistent'
<1>1. TablesOK /\ TrafficOK /\ l2fatal \in L2FatalCodes /\ LineBooks(n, l)
  BY PartsOf
<1>2. /\ coheReps' = coheReps \/ coheReps' = coheReps \cup {WriteBackOf(n, l)}
      /\ wrb_buf[n][l] = "INVL" => coheReps' = coheReps
      /\ wrb_buf[n][l] # "NONE" /\ wrb_buf' = Set(wrb_buf, n, l, "NONE")
      /\ UNCHANGED <<st, cohe_pend, mshrs, atL1, coheIn, replies, requests, l2fatal>>
  BY DEF L2SendWRB, SendCoheRep
<1>3. wrb_buf[n][l] # "INVL" => WriteBackOf(n, l) \in REQ
  BY <1>1, <1>2 DEF WriteBackOf, REQ, TablesOK, WrbTypes
<1>4. /\ wrb_buf' \in [Nodes -> [Lines -> {"NONE", "INVL", "WRB", "REPL"}]]
      /\ wrb_buf'[n][l] = "NONE"
      /\ \A k \in Nodes, j \in Lines : k # n \/ j # l => wrb_buf'[k][j] = wrb_buf[k][j]
  BY <1>1, <1>2 DEF Set, TablesOK
<1>5. LineBooks(n, l)'
  BY <1>1, <1>2, <1>4 DEF LineBooks
<1>6. \A k \in Nodes, j \in Lines : k # n \/ j # l => Same(k, j)
  BY <1>2, <1>4 DEF Same
<1>7. TablesOK' /\ TrafficOK' /\ l2fatal' \in L2FatalCodes
  BY <1>1, <1>2, <1>3, <1>4 DEF TablesOK, TrafficOK
<1> QED BY <1>5, <1>6, <1>7, Elsewhere, PartsTo
-----------------------------------------------------------------------------
(* A COHE goes up to the L1 cache or is refused at once.                   *)
LEMMA CoheStep ==
  ASSUME L2Consistent, NEW n \in Nodes, L2Cohe(n) PROVE L2Consistent'
<1> DEFINE m == Head(coheIn[n])
<1>1. TablesOK /\ TrafficOK /\ l2fatal \in L2FatalCodes
  BY PartsOf
<1>2. m \in REQ /\ Tail(coheIn[n]) \in Seq(REQ) /\ atL1[n] \in Seq(REQ)
  BY <1>1 DEF L2Cohe, TrafficOK
<1>3. PICK l \in Lines : l = m.tag
  BY <1>2, MessageFields
<1>4. coheIn' \in [Nodes -> Seq(REQ)]
  BY <1>1, <1>2 DEF L2Cohe, TrafficOK
<1>5. CASE st[n][l] # "INVALID" \/ mshrs[n][l] # NULL
  <2> PICK b \in BOOLEAN : b = (st[n][l] # "INVALID" \/ cohe_pend[n][l])
    OBVIOUS
  <2>1. /\ atL1' = [atL1 EXCEPT ![n] = Append(@, m)] /\ cohe_pend' = Set(cohe_pend, n, l, b)
        /\ UNCHANGED <<st, mshrs, wrb_buf, replies, requests, coheReps, l2fatal>>
    BY <1>3, <1>5 DEF L2Cohe
  <2> HIDE DEF m
  <2>2. atL1' \in [Nodes -> Seq(REQ)] /\ atL1'[n] = Append(atL1[n], m)
        /\ \A k \in Nodes : k # n => atL1'[k] = atL1[k]
    BY <1>1, <1>2, <2>1 DEF TrafficOK
  <2>3. /\ cohe_pend' \in [Nodes -> [Lines -> BOOLEAN]] /\ cohe_pend'[n][l] = b
        /\ \A k \in Nodes, j \in Lines : k # n \/ j # l => cohe_pend'[k][j] = cohe_pend[k][j]
    BY <1>1, <2>1 DEF Set, TablesOK
  <2>4. \E i \in DOMAIN atL1'[n] : atL1'[n][i].tag = l
    <3>1. Len(atL1[n]) + 1 \in DOMAIN atL1'[n] /\ atL1'[n][Len(atL1[n]) + 1] = m
      BY <1>2, <2>2
    <3> QED BY <1>3, <3>1
  <2>5. LineBooks(n, l)'
    BY <2>1, <2>3, <2>4, PartsOf DEF LineBooks
  <2>6. \A i \in DOMAIN atL1[n] : i \in DOMAIN atL1'[n] /\ atL1'[n][i] = atL1[n][i]
    BY <1>2, <2>2
  <2>7. \A k \in Nodes, j \in Lines : k # n \/ j # l => Same(k, j)
    BY <2>1, <2>2, <2>3, <2>6 DEF Same
  <2>8. TablesOK' /\ TrafficOK' /\ l2fatal' \in L2FatalCodes
    BY <1>1, <1>4, <2>1, <2>2, <2>3 DEF TablesOK, TrafficOK
  <2> QED BY <2>5, <2>7, <2>8, Elsewhere, PartsTo
<1>6. CASE ~(st[n][l] # "INVALID" \/ mshrs[n][l] # NULL)
  <2>1. /\ coheReps' = coheReps \cup {Nack(m)} /\ UNCHANGED cacheVars
        /\ UNCHANGED <<replies, requests, l2fatal>>
    BY <1>3, <1>6 DEF L2Cohe, SendCoheRep, cacheVars
  <2>2. Nack(m) \in REQ
    BY <1>2 DEF Nack, REQ
  <2>3. TrafficOK' /\ l2fatal' \in L2FatalCodes
    BY <1>1, <1>4, <2>1, <2>2 DEF TrafficOK, cacheVars
  <2> QED BY <2>1, <2>3, NothingChanged, PartsTo
<1> QED BY <1>5, <1>6

(* What all answers of the L1 cache have in common; l is the line.         *)
Answered(n, l) ==
  /\ atL1[n] # <<>> /\ l = Head(atL1[n]).tag /\ atL1' = [atL1 EXCEPT ![n] = Tail(@)]
  /\ cohe_pend' = IF st[n][l] = "INVALID" THEN cohe_pend ELSE Set(cohe_pend, n, l, FALSE)
  /\ UNCHANGED <<wrb_buf, coheIn, requests, l2fatal>>

(* The line takes a state it had a copy for, its MSHR stays one or stays   *)
(* none, and the messages that leave are messages.                         *)
LEMMA AnswerStep ==
  ASSUME L2Consistent, NEW n \in Nodes, NEW l \in Lines, Answered(n, l),
         st' \in [Nodes -> [Lines -> States]],
         mshrs' \in [Nodes -> [Lines -> MSHR \cup {NULL}]],
         \A k \in Nodes, j \in Lines : k # n \/ j # l =>
            st'[k][j] = st[k][j] /\ mshrs'[k][j] = mshrs[k][j],
         st[n][l] = "INVALID" => st'[n][l] = "INVALID",
         mshrs[n][l] = NULL => mshrs'[n][l] = NULL,
         mshrs'[n][l] # NULL =>
           /\ mshrs'[n][l].writes_present => mshrs'[n][l].excl
           /\ mshrs'[n][l].pend_cohe_type # "NONE" => ~mshrs'[n][l].excl
           /\ ~mshrs'[n][l].installed => \/ st'[n][l] = "INVALID"
                                         \/ st'[n][l] = "SH_CL" /\ mshrs'[n][l].excl,
         coheReps' \subseteq REQ, replies' \subseteq REQ
  PROVE  L2Consistent'
<1>1. TablesOK /\ TrafficOK /\ l2fatal \in L2FatalCodes /\ LineBooks(n, l)
  BY PartsOf
<1>2. /\ atL1[n] # <<>> /\ atL1' = [atL1 EXCEPT ![n] = Tail(@)]
      /\ cohe_pend' = IF st[n][l] = "INVALID" THEN cohe_pend ELSE Set(cohe_pend, n, l, FALSE)
      /\ UNCHANGED <<wrb_buf, coheIn, requests, l2fatal>>
  BY DEF Answered
<1>3. atL1[n] \in Seq(REQ) /\ Tail(atL1[n]) \in Seq(REQ)
  BY <1>1, <1>2 DEF TrafficOK
<1>4. atL1' \in [Nodes -> Seq(REQ)] /\ atL1'[n] = Tail(atL1[n])
      /\ \A k \in Nodes : k # n => atL1'[k] = atL1[k]
  BY <1>1, <1>2, <1>3 DEF TrafficOK
<1>5. /\ cohe_pend' \in [Nodes -> [Lines -> BOOLEAN]] /\ ~cohe_pend'[n][l]
      /\ \A k \in Nodes, j \in Lines : k # n \/ j # l => cohe_pend'[k][j] = cohe_pend[k][j]
  BY <1>1, <1>2 DEF Set, TablesOK, LineBooks
<1>6. LineBooks(n, l)'
  BY <1>1, <1>2, <1>5 DEF LineBooks
<1>7. \A i \in DOMAIN atL1[n] : atL1[n][i].tag # l => i - 1 \in DOMAIN atL1'[n] /\ atL1'[n][i - 1] = atL1[n][i]
  <2> SUFFICES ASSUME NEW i \in DOMAIN atL1[n], atL1[n][i].tag # l
               PROVE  i - 1 \in DOMAIN atL1'[n] /\ atL1'[n][i - 1] = atL1[n][i]
    OBVIOUS
  <2>1. i \in 2..Len(atL1[n])
    BY <1>3 DEF Answered
  <2> QED BY <1>2, <1>3, <1>4, <2>1
<1>8. \A k \in Nodes, j \in Lines : k # n \/ j # l => Same(k, j)
  <2> SUFFICES ASSUME NEW k \in Nodes, NEW j \in Lines, k # n \/ j # l PROVE Same(k, j)
    OBVIOUS
  <2>1. \A i \in DOMAIN atL1[k] : atL1[k][i].tag = j => \E g \in DOMAIN atL1'[k] : atL1'[k][g].tag = j
    <3>1. CASE k = n
      BY <1>7, <3>1
    <3>2. CASE k # n
      BY <1>4, <3>2
    <3> QED BY <3>1, <3>2
  <2> QED BY <1>2, <1>5, <2>1 DEF Same
<1>9. TablesOK' /\ TrafficOK' /\ l2fatal' \in L2FatalCodes
  BY <1>1, <1>2, <1>4, <1>5 DEF TablesOK, TrafficOK
<1> QED BY <1>6, <1>8, <1>9, Elsewhere, PartsTo

(* Each kind of answer is one of these.                                    *)
LEMMA CoheRepStep ==
  ASSUME L2Consistent, NEW n \in Nodes, HandleCoheRep(n) PROVE L2Consistent'
<1> DEFINE m == Head(atL1[n])
<1>1. TablesOK /\ TrafficOK
  BY PartsOf
<1>2. atL1[n] # <<>>
  BY DEF HandleCoheRep, L2NackPend, L2Merge, L2NackInvl, L2NackMiss, L2Ack, L2Forward,
         L2CoheError, L1Answer
<1>3. m \in REQ
  BY <1>1, <1>2 DEF TrafficOK
<1>4. PICK l \in Lines : l = m.tag
  BY <1>3, MessageFields
<1>5. LineBooks(n, l) /\ st[n][l] \in States /\ mshrs[n][l] \in MSHR \cup {NULL}
  BY <1>1, PartsOf DEF TablesOK
<1>6. ASSUME NEW class, L1Answer(n, class)
      PROVE  Answered(n, l) /\ CoheClass(n, m) = class
  BY <1>4, <1>6 DEF L1Answer, Answered
<1>7. coheReps \subseteq REQ /\ replies \subseteq REQ
  BY <1>1 DEF TrafficOK
<1>8. Nack(m) \in REQ /\ [m EXCEPT !.type = "COHE_REPLY", !.reply = "REPLY"] \in REQ
      /\ [m EXCEPT !.type = "COHE_REPLY", !.reply = "NACK_PEND"] \in REQ
      /\ [m EXCEPT !.type = "COHE_REPLY", !.reply = "REPLY", !.isreq = FALSE] \in REQ
  BY <1>3 DEF Nack, REQ
<1>9. CoheState(m.req_type) \in States
  BY DEF CoheState, States
<1> HIDE DEF m
<1>10. ASSUME L2NackPend(n) \/ L2NackMiss(n) PROVE L2Consistent'
  <2>1. Answered(n, l) /\ UNCHANGED <<st, mshrs, replies>> /\ coheReps' \subseteq REQ
    BY <1>6, <1>7, <1>8, <1>10 DEF L2NackPend, L2NackMiss, SendCoheRep, m
  <2> QED BY <1>1, <1>5, <1>7, <2>1, AnswerStep DEF LineBooks, TablesOK
<1>11. ASSUME L2Merge(n) PROVE L2Consistent'
  <2> DEFINE h == [mshrs[n][l] EXCEPT !.pend_cohe_type = "INVL"]
  <2>1. Answered(n, l) /\ CoheClass(n, m) = "MERGE" /\ UNCHANGED <<st, replies>>
        /\ coheReps' \subseteq REQ /\ mshrs' = [mshrs EXCEPT ![n][l].pend_cohe_type = "INVL"]
    BY <1>4, <1>6, <1>7, <1>8, <1>11 DEF L2Merge, SendCoheRep, m
  <2>2. mshrs[n][l] # NULL /\ ~mshrs[n][l].excl
    <3>1. CASE mshrs[n][l] # NULL
      BY <1>4, <2>1, <3>1 DEF CoheClass
    <3>2. CASE mshrs[n][l] = NULL
      BY <1>4, <2>1, <3>2 DEF CoheClass
    <3> QED BY <3>1, <3>2
  <2>3. h \in MSHR /\ h.pend_cohe_type = "INVL" /\ h.excl = mshrs[n][l].excl
        /\ h.writes_present = mshrs[n][l].writes_present /\ h.installed = mshrs[n][l].installed
    BY <1>5, <2>2 DEF MSHR
  <2>4. mshrs' = Set(mshrs, n, l, h)
    BY <1>1, <2>1 DEF Set, TablesOK
  <2> HIDE DEF h
  <2>5. mshrs' \in [Nodes -> [Lines -> MSHR \cup {NULL}]] /\ mshrs'[n][l] = h
        /\ \A k \in Nodes, j \in Lines : k # n \/ j # l => mshrs'[k][j] = mshrs[k][j]
    BY <1>1, <2>3, <2>4, SetMSHR
  <2>6. /\ h.writes_present => h.excl
        /\ h.pend_cohe_type # "NONE" => ~h.excl
        /\ ~h.installed => \/ st[n][l] = "INVALID"
                           \/ st[n][l] = "SH_CL" /\ h.excl
    BY <1>5, <2>2, <2>3 DEF LineBooks
  <2>7. /\ mshrs'[n][l].writes_present => mshrs'[n][l].excl
        /\ mshrs'[n][l].pend_cohe_type # "NONE" => ~mshrs'[n][l].excl
        /\ ~mshrs'[n][l].installed => \/ st'[n][l] = "INVALID"
                                      \/ st'[n][l] = "SH_CL" /\ mshrs'[n][l].excl
    BY <2>1, <2>5, <2>6
  <2>8. /\ st' \in [Nodes -> [Lines -> States]]
        /\ \A k \in Nodes, j \in Lines : st'[k][j] = st[k][j]
    BY <1>1, <2>1 DEF TablesOK
  <2>9. (st[n][l] = "INVALID" => st'[n][l] = "INVALID") /\ replies' \subseteq REQ
    BY <1>7, <2>1
  <2>10. coheReps' \subseteq REQ /\ Answered(n, l)
    BY <2>1
  <2>11. /\ mshrs' \in [Nodes -> [Lines -> MSHR \cup {NULL}]]
         /\ \A k \in Nodes, j \in Lines : k # n \/ j # l => mshrs'[k][j] = mshrs[k][j]
    BY <2>5
  <2>12. \A k \in Nodes, j \in Lines : k # n \/ j # l =>
            st'[k][j] = st[k][j] /\ mshrs'[k][j] = mshrs[k][j]
    BY <2>8, <2>11
  <2> QED BY <2>2, <2>7, <2>8, <2>9, <2>10, <2>11, <2>12, AnswerStep
<1>12. ASSUME L2NackInvl(n) PROVE L2Consistent'
  <2>1. Answered(n, l) /\ st' = Set(st, n, l, "INVALID") /\ UNCHANGED <<mshrs, replies>>
        /\ coheReps' \subseteq REQ
    BY <1>4, <1>6, <1>7, <1>8, <1>12 DEF L2NackInvl, SendCoheRep, m
  <2>2. st' \in [Nodes -> [Lines -> States]] /\ st'[n][l] = "INVALID"
        /\ \A k \in Nodes, j \in Lines : k # n \/ j # l => st'[k][j] = st[k][j]
    BY <1>1, <2>1, SetState DEF States
  <2> QED BY <1>1, <1>5, <1>7, <2>1, <2>2, AnswerStep DEF LineBooks, TablesOK
<1>13. ASSUME L2Ack(n) \/ L2Forward(n) PROVE L2Consistent'
  <2> DEFINE v == CoheState(m.req_type)
  <2>1. Answered(n, l) /\ CoheClass(n, m) \in {"ACK", "FORWARD"} /\ UNCHANGED mshrs
        /\ st' = Set(st, n, l, v) /\ coheReps' \subseteq REQ
    BY <1>4, <1>6, <1>7, <1>8, <1>13 DEF L2Ack, L2Forward, SendCoheRep, m
  <2>2. mshrs[n][l] = NULL /\ st[n][l] # "INVALID"
    <3>1. CASE mshrs[n][l] # NULL
      BY <1>4, <2>1, <3>1 DEF CoheClass
    <3>2. CASE mshrs[n][l] = NULL
      BY <1>4, <2>1, <3>2 DEF CoheClass
    <3> QED BY <3>1, <3>2
  <2>3. replies' \subseteq REQ
    <3>1. CASE L2Ack(n)
      BY <1>7, <3>1 DEF L2Ack
    <3>2. CASE L2Forward(n)
      <4>1. m.forward_to \in Nodes
        BY <1>3, <1>4, <1>6, <2>2, <3>2 DEF L2Forward, CoheClass, REQ
      <4>2. ForwardType(m.req_type, st[n][m.tag]) \in DataTypes
        BY DEF ForwardType, DataTypes
      <4>3. [m EXCEPT !.type = "REPLY", !.reply = "REPLY", !.node = m.forward_to,
                      !.req_type = ForwardType(m.req_type, st[n][m.tag]),
                      !.forward_to = NULL, !.nack_st = "NACK_OK"] \in REQ
        BY <1>3, <4>1, <4>2 DEF REQ
      <4> QED BY <1>7, <3>2, <4>3 DEF L2Forward, m
    <3> QED BY <1>13, <3>1, <3>2
  <2> HIDE DEF v
  <2>4. v \in States
    BY <1>9 DEF v
  <2>5. st' \in [Nodes -> [Lines -> States]] /\ st'[n][l] = v
        /\ \A k \in Nodes, j \in Lines : k # n \/ j # l => st'[k][j] = st[k][j]
    BY <1>1, <2>1, <2>4, SetState
  <2> QED BY <1>1, <2>1, <2>2, <2>3, <2>5, AnswerStep DEF TablesOK
<1>14. ASSUME L2CoheError(n) PROVE L2Consistent'
  BY <1>14, ErrorStep DEF L2CoheError, L2FatalCodes
<1> QED BY <1>10, <1>11, <1>12, <1>13, <1>14 DEF HandleCoheRep
-----------------------------------------------------------------------------
(* What the bus brings and takes.                                          *)
LEMMA EnvironmentStep ==
  ASSUME L2Consistent, L2Environment, UNCHANGED <<cacheVars, l2fatal>> PROVE L2Consistent'
<1>1. TrafficOK /\ l2fatal' \in L2FatalCodes
  BY PartsOf
<1>2. coheIn' \in [Nodes -> Seq(REQ)]
  <2>1. ASSUME NEW m \in REQ, CoheArrives(m) PROVE coheIn' \in [Nodes -> Seq(REQ)]
    BY <1>1, <2>1, MessageFields DEF CoheArrives, TrafficOK
  <2> QED BY <1>1, <2>1 DEF L2Environment, ReplyArrives, TrafficOK
<1>3. replies' \subseteq REQ /\ requests' \subseteq REQ /\ coheReps' \subseteq REQ
  BY <1>1 DEF L2Environment, ReplyArrives, CoheArrives, TrafficOK
<1>4. TrafficOK'
  BY <1>1, <1>2, <1>3 DEF TrafficOK, cacheVars
<1> QED BY <1>1, <1>4, NothingChanged, PartsTo DEF cacheVars

(* Any step of a cache keeps L2Consistent.                                 *)
LEMMA CacheStep ==
  ASSUME L2Consistent, NEW n \in Nodes, L2Step(n) PROVE L2Consistent'
<1>1. CASE Access(n)
  BY <1>1, AccessStep
<1>2. CASE HandleReply(n) \/ HoldReply(n)
  BY <1>2, RetryStep, InstallStep DEF HandleReply, HoldReply, ReplyAt
<1>3. CASE L2Cohe(n)
  BY <1>3, CoheStep
<1>4. CASE HandleCoheRep(n)
  BY <1>4, CoheRepStep
<1>5. CASE \E l \in Lines : L2Evict(n, l) \/ L2SendWRB(n, l) \/ L2RemoveMSHR(n, l)
  BY <1>5, EvictStep, SendWRBStep, RemoveStep
<1> QED BY <1>1, <1>2, <1>3, <1>4, <1>5 DEF L2Step

(* The empty caches are consistent.                                        *)
LEMMA L2InitConsistent == L2Init => L2Consistent
<1> SUFFICES ASSUME L2Init PROVE L2Consistent
  OBVIOUS
<1>1. L2TypeOK
  BY DEF L2Init, L2TypeOK, States, L2FatalCodes
<1> QED BY <1>1 DEF L2Init, L2Consistent, WrbExclusive, CohePendOK, MSHROK

(* L2Consistent is inductive.                                              *)
LEMMA ConsistentStep ==
  ASSUME L2Consistent, [L2Next]_l2Vars PROVE L2Consistent'
<1>1. CASE UNCHANGED l2Vars
  <2>1. UNCHANGED cacheVars /\ TrafficOK' /\ l2fatal' \in L2FatalCodes
    BY <1>1, PartsOf DEF l2Vars, cacheVars, portVars, TrafficOK
  <2> QED BY <2>1, NothingChanged, PartsTo
<1> QED BY <1>1, CacheStep, EnvironmentStep DEF L2Next

(* Tags, MSHRs, write-back buffer and the COHEs at the L1 cache fit        *)
(* together at every node, whatever the directory and the other caches     *)
(* send: a line that is written back is neither cached nor requested, no   *)
(* cohe_pend is left behind, an MSHR is only for what its line lacks.      *)
THEOREM CachesConsistent == L2Spec => []L2Consistent
<1>1. L2Init => L2Consistent
  BY L2InitConsistent
<1>2. L2Consistent /\ [L2Next]_l2Vars => L2Consistent'
  BY ConsistentStep
<1> QED BY <1>1, <1>2, PTL DEF L2Spec
=============================================================================
