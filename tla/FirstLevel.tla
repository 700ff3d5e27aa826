----------------------------- MODULE FirstLevel -----------------------------
(***************************************************************************)
(* A node's write-through first-level cache and its coalescing write       *)
(* buffer (src/src/MemSys/l1cache.c, wb.c), with the part of the second    *)
(* level they rest on: its request and reply handlers (l2cache.c), which   *)
(* join requests of one line in one MSHR and send up a single REPLY.       *)
(*                                                                         *)
(* A REQ is known by the number of its access.  A message is a REQ with    *)
(* the REQs joined to it on the way.  The processor may issue any access;  *)
(* the directory answers when it likes and recalls or invalidates lines.   *)
(*                                                                         *)
(* A REPLY that leaves the data pipe of the second level, and a COHE that  *)
(* leaves its tags, enter the pipes of the first level in the same cycle   *)
(* (WBSim(L2WB) and L1CacheInSim follow, and one REPLY a cycle is all that *)
(* comes), so `up` is one queue.  What can be overtaken is a REPLY that is *)
(* still in the data pipe.                                                 *)
(*                                                                         *)
(* A definition named MutX is X with a slip; it is not part of the model.  *)
(***************************************************************************)
EXTENDS Naturals, Sequences, FiniteSets, SequencesExt

CONSTANTS
  Lines,
  MaxAccess,    \* accesses the processor makes
  FirstLines,   \* lines of the first of them (the lines are alike)
  MaxExternal,  \* COHEs the directory sends
  MaxMshrs,     \* L1_MAX_MSHRS
  MaxCoals,     \* MAX_COALS, of an MSHR and of an entry of the write buffer
  WbufSz,       \* wbuf_sz_tot
  L1Ports,      \* width of the request pipe of the L1 cache
  WbPort,       \* entries of the port from the L1 cache to the write buffer
  L2Port,       \* entries of the port and the request pipe of the L2 cache
  Recalls,      \* the COHEs with NACK_NOK that the directory may send
  NULL

ASSUME FirstLevelAssumption ==
  /\ {MaxAccess, MaxMshrs, MaxCoals, WbufSz, L1Ports, WbPort, L2Port} \subseteq Nat \ {0}
  /\ MaxExternal \in Nat /\ Recalls \subseteq {"COPYBACK", "COPYBACK_INVL"}

VARIABLES
  acc,        \* the accesses issued, oldest first
  l1req,      \* REQUESTs in the input port and the request pipe of the L1
  sending,    \* those with progress = 1: only room in the port is missing
  l1st,       \* state of the line in the L1 cache
  l1mshr,     \* MSHR of the line in the L1 cache, or NULL
  wbin,       \* the port from the L1 cache to the write buffer
  wbuf,       \* write_buffer: its entries, oldest first
  l2in,       \* REQUESTs at the L2 cache
  l2st, cohe_pend, l2mshr,  \* the same of the L2 cache; a COHE is at the L1
  wrb_buf,    \* lines replaced whose write-back is in the data pipe
  data,       \* the data pipe of the L2 cache
  up,         \* REPLYs and COHEs in the pipes of the L1 cache
  down,       \* COHE_REPLYs of the L1 cache
  done,       \* how often an access went to the memory unit's heap
  external,   \* COHEs sent
  fatal       \* the YS__errmsg reached

cpuVars == <<acc, l1req, sending>>
l1Vars  == <<l1st, l1mshr>>
wbVars  == <<wbin, wbuf>>
l2Vars  == <<l2st, cohe_pend, l2mshr, wrb_buf>>
vars == <<cpuVars, l1Vars, wbVars, l2in, l2Vars, data, up, down, done, external, fatal>>

Ids == 1..MaxAccess
Types == {"READ", "WRITE", "RMW"}
Type(i) == acc[i].type
Line(i) == acc[i].line
Excl(i) == Type(i) # "READ"
Private == {"PR_CL", "PR_DY"}
Message(i, joined) == [id |-> i, coal |-> joined, rww |-> FALSE]
AllOf(m) == {m.id} \cup m.coal

Init ==
  /\ acc = <<>> /\ l1req = <<>> /\ sending = {}
  /\ l1st = [l \in Lines |-> "INVALID"] /\ l1mshr = [l \in Lines |-> NULL]
  /\ wbin = <<>> /\ wbuf = <<>> /\ l2in = <<>>
  /\ l2st = [l \in Lines |-> "INVALID"] /\ cohe_pend = [l \in Lines |-> FALSE]
  /\ l2mshr = [l \in Lines |-> NULL] /\ wrb_buf = {}
  /\ data = <<>> /\ up = <<>> /\ down = <<>>
  /\ done = [i \in Ids |-> 0] /\ external = 0 /\ fatal = "none"

(* GlobalPerform and MemDoneHeapInsert of the REQs of S, then of those of T. *)
Perform(S, T) ==
  done' = [i \in Ids |-> done[i] + (IF i \in S THEN 1 ELSE 0)
                                 + (IF i \in T THEN 1 ELSE 0)]
-----------------------------------------------------------------------------
(* addrinsert.  A store or an RMW waits until it graduates, and an RMW     *)
(* graduates when it is done.                                              *)
Issue(t, l) ==
  /\ Len(acc) < MaxAccess /\ (acc = <<>> => l \in FirstLines)
  /\ t # "READ" => \A i \in 1..Len(acc) : Type(i) = "RMW" => done[i] > 0
  /\ acc' = Append(acc, [type |-> t, line |-> l])
  /\ l1req' = Append(l1req, Len(acc) + 1)
  /\ UNCHANGED <<sending, l1Vars, wbVars, l2in, l2Vars, data, up, down, done, external, fatal>>

(* notpres_mshr for a REQUEST at a write-through cache: writes take no     *)
(* MSHR and join none; an RMW always goes below.                           *)
Merged(m) == m.pend # "NONE" /\ (m.pend = "COPYBACK" => Excl(m.main))

L1Response(i) ==
  LET l == Line(i)
      m == l1mshr[l]
      hit == l1st[l] = "PR_CL" /\ ~Excl(i)
  IN  IF m = NULL
      THEN IF hit THEN "NOMSHR"
           ELSE IF Type(i) = "WRITE" THEN "NOMSHR_FWD"
           ELSE IF Cardinality({k \in Lines : l1mshr[k] # NULL}) = MaxMshrs
           THEN "NOMSHR_STALL" ELSE "MSHR_NEW"
      ELSE IF Merged(m) THEN "MSHR_STALL_COHE"
           ELSE IF hit THEN "NOMSHR"
           ELSE IF m.stall_WAR \/ Excl(i) THEN "MSHR_STALL_WAR"
           ELSE IF Cardinality(m.coal) = MaxCoals THEN "MSHR_STALL_COAL" ELSE "MSHR_COAL"

Stalls == {"NOMSHR_STALL", "MSHR_STALL_COHE", "MSHR_STALL_WAR", "MSHR_STALL_COAL"}
WbRoom == Len(wbin) < WbPort
MarksWAR(i) == i \notin sending /\ L1Response(i) = "MSHR_STALL_WAR" /\ ~l1mshr[Line(i)].stall_WAR

(* L1CacheOutSim tries the head stage of the pipe in order, and an entry   *)
(* that stalls is passed by the next.                                      *)
Settled(i) ==
  IF i \in sending THEN ~WbRoom ELSE L1Response(i) \in Stalls /\ ~MarksWAR(i)
HeadStage ==
  {k \in 1..Len(l1req) : k <= L1Ports /\ \A j \in 1..(k - 1) : Settled(l1req[j])}

L1Leave(k) == l1req' = RemoveAt(l1req, k)

(* AddReqToOutQ, or progress = 1 when the port is full. *)
SendOrWait(k) ==
  LET i == l1req[k]
  IN  IF WbRoom THEN /\ wbin' = Append(wbin, i) /\ L1Leave(k)
                     /\ sending' = sending \ {i}
                ELSE /\ sending' = sending \cup {i} /\ UNCHANGED <<wbin, l1req>>

L1Hit(k) ==
  /\ L1Response(l1req[k]) = "NOMSHR" /\ L1Leave(k) /\ Perform({l1req[k]}, {})
  /\ UNCHANGED <<sending, l1mshr, wbin>>

NewMSHR(i) == [main |-> i, coal |-> {}, pend |-> "NONE", stall_WAR |-> FALSE]

L1Request(k) ==
  LET i == l1req[k]
      l == Line(i)
      r == L1Response(i)
  IN  /\ i \notin sending
      /\ \/ L1Hit(k)
         \/ /\ r = "NOMSHR_FWD" /\ SendOrWait(k) /\ UNCHANGED <<l1mshr, done>>
         \/ /\ r = "MSHR_NEW" /\ SendOrWait(k) /\ UNCHANGED done
            /\ l1mshr' = [l1mshr EXCEPT ![l] = NewMSHR(i)]
         \/ /\ r = "MSHR_COAL" /\ L1Leave(k)
            /\ l1mshr' = [l1mshr EXCEPT ![l].coal = @ \cup {i}]
            /\ UNCHANGED <<sending, wbin, done>>
         \/ /\ MarksWAR(i) /\ l1mshr' = [l1mshr EXCEPT ![l].stall_WAR = TRUE]
            /\ UNCHANGED <<l1req, sending, wbin, done>>

L1Resend(k) ==
  /\ l1req[k] \in sending /\ WbRoom /\ SendOrWait(k) /\ UNCHANGED <<l1mshr, done>>

L1Pipe == /\ \E k \in HeadStage : L1Request(k) \/ L1Resend(k)
          /\ UNCHANGED <<acc, l1st, wbuf, l2in, l2Vars, data, up, down, external, fatal>>
-----------------------------------------------------------------------------
(***************************************************************************)
(* WBSim(L1WB): one request from the port, then at most one write sent.    *)
(* notpres_wb looks for an entry with the tag of the request.              *)
(***************************************************************************)
L2Room == Len(l2in) < L2Port
MutWbMatch(i) == {k \in 1..Len(wbuf) : Type(i) # "RMW" /\ Line(wbuf[k].id) = Line(i)}
WbMatch(i) == {k \in 1..Len(wbuf) : Line(wbuf[k].id) = Line(i)}

Reads == wbin # <<>> /\ Type(wbin[1]) # "WRITE"
Writes == wbin # <<>> /\ Type(wbin[1]) = "WRITE"

(* Whether the write at the head joins an entry or gets one. *)
Fits(i) == IF WbMatch(i) # {} THEN \A k \in WbMatch(i) : Cardinality(wbuf[k].coal) < MaxCoals
                              ELSE Len(wbuf) < WbufSz
Buffered(i) ==
  IF WbMatch(i) = {} THEN Append(wbuf, Message(i, {}))
  ELSE [k \in 1..Len(wbuf) |-> IF k \in WbMatch(i)
                               THEN [wbuf[k] EXCEPT !.coal = @ \cup {i}] ELSE wbuf[k]]

(* Case 9: the oldest entry goes if the port has room. *)
SendOldest(b) ==
  IF b # <<>> /\ L2Room THEN wbuf' = Tail(b) /\ l2in' = Append(l2in, b[1])
                        ELSE wbuf' = b /\ l2in' = l2in

WbRead ==
  /\ Reads /\ WbMatch(wbin[1]) = {} /\ L2Room
  /\ l2in' = Append(l2in, Message(wbin[1], {})) /\ wbin' = Tail(wbin)
  /\ UNCHANGED wbuf

WbWrite ==
  /\ Writes /\ Fits(wbin[1]) /\ wbin' = Tail(wbin) /\ SendOldest(Buffered(wbin[1]))

(* Nothing comes in, or what comes in must wait: a write trickles out. *)
MutNoneComes == (Reads /\ WbMatch(wbin[1]) # {}) \/ (Writes /\ ~Fits(wbin[1]))
NoneComes == (Reads => WbMatch(wbin[1]) # {}) /\ (Writes => ~Fits(wbin[1]))
WbTrickle ==
  /\ NoneComes /\ wbuf # <<>> /\ L2Room
  /\ SendOldest(wbuf) /\ UNCHANGED wbin

WBSim == /\ (WbRead \/ WbWrite \/ WbTrickle)
         /\ UNCHANGED <<cpuVars, l1Vars, l2Vars, data, up, down, done, external, fatal>>
-----------------------------------------------------------------------------
(***************************************************************************)
(* The second level.  A COHE_REPLY that left the L1 cache before a request *)
(* is handled before it.                                                   *)
(***************************************************************************)
InTurn(i) == \A k \in 1..Len(down) : i \in down[k].ahead
L2Hit(i) == l2st[Line(i)] \in (IF Excl(i) THEN Private ELSE {"SH_CL"} \cup Private)

(* A write that does not allocate in the L1 cache and a read that does, in *)
(* one MSHR: read_with_write tells the L1 cache.                           *)
MutWithWrite(m, i) == m.rww
WithWrite(m, i) == m.rww \/ (Type(m.main.id) = "WRITE" /\ Type(i) # "WRITE")

(* A hit goes through the data pipe.                                       *)
L2RequestHit(q) ==
  LET i == q.id
      l == Line(i)
  IN  /\ l2mshr[l] = NULL /\ L2Hit(i) /\ ~cohe_pend[l]
      /\ l2in' = Tail(l2in) /\ data' = Append(data, [msg |-> q, victim |-> NULL])
      /\ l2st' = [l2st EXCEPT ![l] = IF Excl(i) THEN "PR_DY" ELSE @]
      /\ UNCHANGED l2mshr

L2Request ==
  LET q == l2in[1]
      i == q.id
      l == Line(i)
      m == l2mshr[l]
      war == m # NULL /\ ~m.pend /\ Excl(i) /\ ~Excl(m.main.id) /\ ~m.stall_WAR
      joins == /\ m # NULL /\ ~m.pend /\ ~m.stall_WAR /\ (Excl(i) => Excl(m.main.id))
               /\ Len(m.coal) < MaxCoals
  IN  /\ l2in # <<>> /\ InTurn(i) /\ l \notin wrb_buf
      /\ \/ L2RequestHit(q)
         \/ /\ m = NULL /\ ~L2Hit(i) /\ l2in' = Tail(l2in)
            /\ l2mshr' = [l2mshr EXCEPT ![l] = [main |-> q, coal |-> <<>>, stall_WAR |-> FALSE,
                                                rww |-> FALSE, pend |-> FALSE]]
            /\ UNCHANGED <<l2st, data>>
         \/ /\ war /\ l2mshr' = [l2mshr EXCEPT ![l].stall_WAR = TRUE]
            /\ UNCHANGED <<l2in, l2st, data>>
         \/ /\ joins /\ l2in' = Tail(l2in)
            /\ l2mshr' = [l2mshr EXCEPT ![l].coal = Append(@, q), ![l].rww = WithWrite(m, i)]
            /\ UNCHANGED <<l2st, data>>
      /\ UNCHANGED <<cpuVars, l1Vars, wbVars, cohe_pend, wrb_buf, up, down, done, external, fatal>>

Invl(l, k) == [type |-> "COHE", line |-> l, kind |-> k, nack |-> "NACK_OK", absorb |-> TRUE]

(* The directory waits for the answer to an INVL before it serves another  *)
(* request; only the copy the INVL is about may still be on its way.       *)
Invalidating(l) ==
  \E c \in Range(up) \cup Range(down) :
     c.type # "REPLY" /\ c.line = l /\ c.nack = "NACK_OK" /\ ~c.absorb

(* A REPLY of the directory.  s is the state it brings; v is the line it   *)
(* replaces, or NULL.  The victim is invalidated in the L1 cache at once,  *)
(* or, when dirty, after it has been read from the data RAM.  The least    *)
(* recently used line of a set of several is never one whose data is still *)
(* being read.                                                             *)
InUse(v) == \E k \in 1..Len(data) : data[k].msg # NULL /\ Line(data[k].msg.id) = v
L2Reply(l, s, v) ==
  LET m == l2mshr[l]
      coals == {m.coal[k] : k \in 1..Len(m.coal)}
      joined == m.main.coal \cup UNION {AllOf(q) : q \in coals}
      dirty == v # NULL /\ l2st[v] = "PR_DY"
      new == IF m.pend /\ s = "SH_CL" THEN "INVALID"
             ELSE IF s = "PR_CL" /\ Excl(m.main.id) THEN "PR_DY" ELSE s
      reply == [msg |-> [id |-> m.main.id, coal |-> joined, rww |-> m.rww], victim |-> NULL]
  IN  /\ m # NULL /\ (s = "SH_CL" => ~Excl(m.main.id))
      /\ l2st[l] = "SH_CL" => v = NULL
      /\ Invalidating(l) => s = "SH_CL"
      /\ v # NULL => v # l /\ l2st[v] # "INVALID" /\ l2mshr[v] = NULL /\ ~InUse(v)
      /\ l2st' = [k \in Lines |-> IF k = l THEN new ELSE IF k = v THEN "INVALID" ELSE l2st[k]]
      /\ cohe_pend' = IF v = NULL THEN cohe_pend ELSE [cohe_pend EXCEPT ![v] = FALSE]
      /\ l2mshr' = [l2mshr EXCEPT ![l] = NULL]
      /\ wrb_buf' = IF dirty THEN wrb_buf \cup {v} ELSE wrb_buf
      /\ data' = (IF dirty THEN Append(data, [msg |-> NULL, victim |-> v]) ELSE data) \o <<reply>>
      /\ up' = IF v = NULL \/ dirty THEN up
               ELSE Append(up, Invl(v, IF l2st[v] = "SH_CL" THEN "INVL" ELSE "COPYBACK_INVL"))
      /\ UNCHANGED <<cpuVars, l1Vars, wbVars, l2in, down, done, external, fatal>>

(* L2ProcessDataReq. *)
L2Data ==
  /\ data # <<>> /\ data' = Tail(data)
  /\ IF data[1].msg # NULL
     THEN up' = Append(up, [type |-> "REPLY", msg |-> data[1].msg]) /\ UNCHANGED wrb_buf
     ELSE /\ up' = Append(up, Invl(data[1].victim, "COPYBACK_INVL"))
          /\ wrb_buf' = wrb_buf \ {data[1].victim}
  /\ UNCHANGED <<cpuVars, l1Vars, wbVars, l2in, l2st, cohe_pend, l2mshr, down, done, external, fatal>>

(* A COHE from the directory: INVL to a line it takes for shared, the      *)
(* recalls to one it takes for private.  A miss without an MSHR is NACKed  *)
(* at once; everything else goes up first.                                 *)
L2Cohe(l, k) ==
  /\ external < MaxExternal /\ external' = external + 1
  /\ IF k = "INVL" THEN l2st[l] = "SH_CL" \/ (l2st[l] = "INVALID" /\ l2mshr[l] # NULL)
                   ELSE l2st[l] \in Private \/ l2mshr[l] # NULL
  /\ ~cohe_pend[l] /\ cohe_pend' = [cohe_pend EXCEPT ![l] = l2st[l] # "INVALID"]
  /\ up' = Append(up, [type |-> "COHE", line |-> l, kind |-> k, absorb |-> FALSE,
                       nack |-> IF k = "INVL" THEN "NACK_OK" ELSE "NACK_NOK"])
  /\ UNCHANGED <<cpuVars, l1Vars, wbVars, l2in, l2st, l2mshr, wrb_buf, data, down, done, fatal>>

(* The COHE_REPLY at the L2 cache, where the coherence action takes place. *)
L2CoheReply ==
  LET c == down[1]
      l == c.line
      m == l2mshr[l]
      now == l2st[l] # "INVALID" /\ (m = NULL \/ (Excl(m.main.id) /\ c.nack = "NACK_OK"))
  IN  /\ down # <<>> /\ down' = Tail(down)
      /\ IF c.absorb THEN UNCHANGED l2Vars
         ELSE /\ cohe_pend' = [cohe_pend EXCEPT ![l] = FALSE]
              /\ l2st' = [l2st EXCEPT ![l] = IF ~now THEN @
                                             ELSE IF c.kind = "COPYBACK" THEN "SH_CL" ELSE "INVALID"]
              /\ l2mshr' = IF m # NULL /\ ~Excl(m.main.id) /\ c.nack = "NACK_OK"
                           THEN [l2mshr EXCEPT ![l].pend = TRUE] ELSE l2mshr
              /\ UNCHANGED wrb_buf
      /\ UNCHANGED <<cpuVars, l1Vars, wbVars, l2in, data, up, done, external, fatal>>
-----------------------------------------------------------------------------
(***************************************************************************)
(* REPLYs and COHEs at the L1 cache.                                       *)
(***************************************************************************)
Fatal(code) == fatal' = code /\ UNCHANGED <<l1Vars, done>>

(* A REPLY to a write has no MSHR, unless reads have joined it below: then *)
(* the writes are performed first and the MSHR's REQs next.  v is the line *)
(* it replaces, or NULL.                                                   *)
L1Reply(v) ==
  LET q == up[1].msg
      l == Line(q.id)
      m == l1mshr[l]
      own == {i \in AllOf(q) : Type(i) = "WRITE"}
      all == {m.main} \cup m.coal \cup (IF m.main = q.id THEN q.coal ELSE {})
      kept == IF m.pend \in {"INVL", "COPYBACK_INVL"} THEN "INVALID" ELSE "PR_CL"
  IN  IF (Type(q.id) = "WRITE" /\ ~q.rww) \/ (Type(q.id) = "WRITE" /\ m = NULL)
      THEN v = NULL /\ Perform(AllOf(q), {}) /\ UNCHANGED <<l1Vars, fatal>>
      ELSE IF m = NULL THEN v = NULL /\ Fatal("reply for a nonexistent MSHR")
      ELSE IF q.rww /\ Type(q.id) # "WRITE" THEN v = NULL /\ Fatal("Read has read_with_write set")
      ELSE /\ v # NULL => v # l /\ l1st[l] = "INVALID" /\ l1st[v] # "INVALID"
           /\ l1st' = [k \in Lines |-> IF k = l THEN kept ELSE IF k = v THEN "INVALID" ELSE l1st[k]]
           /\ l1mshr' = [l1mshr EXCEPT ![l] = NULL]
           /\ Perform(IF q.rww THEN own ELSE {}, all)
           /\ UNCHANGED fatal

(* notpres_mshr for a COHE: what is merged into the MSHR.  A read's MSHR   *)
(* takes only those that may be NACKed, any other only those that may not. *)
MutMerges(m, c) == Excl(m.main) /\ c.nack = "NACK_NOK"
Merges(m, c) == Excl(m.main) <=> c.nack = "NACK_NOK"

L1Cohe ==
  LET c == up[1]
      l == c.line
      m == l1mshr[l]
      now == m = NULL \/ (Excl(m.main) /\ c.nack = "NACK_OK")
  IN  /\ l1st' = [l1st EXCEPT ![l] = IF now /\ c.kind # "COPYBACK" THEN "INVALID" ELSE @]
      /\ l1mshr' = IF m # NULL /\ Merges(m, c) THEN [l1mshr EXCEPT ![l].pend = c.kind] ELSE l1mshr
      /\ down' = Append(down,
           [type |-> "COHE_REPLY", line |-> l, kind |-> c.kind, nack |-> c.nack, absorb |-> c.absorb,
            ahead |-> Range(wbin) \cup UNION {AllOf(wbuf[k]) : k \in 1..Len(wbuf)}
                                  \cup {l2in[k].id : k \in 1..Len(l2in)}])
      /\ UNCHANGED <<done, fatal>>

L1Above ==
  /\ up # <<>> /\ up' = Tail(up)
  /\ \/ up[1].type = "REPLY" /\ (\E v \in Lines \cup {NULL} : L1Reply(v)) /\ UNCHANGED down
     \/ up[1].type = "COHE" /\ L1Cohe
  /\ UNCHANGED <<cpuVars, wbVars, l2in, l2Vars, data, external>>
-----------------------------------------------------------------------------
Answers == \E l \in Lines, s \in {"SH_CL", "PR_CL"}, v \in Lines \cup {NULL} : L2Reply(l, s, v)
Processor == \E t \in Types, l \in Lines : Issue(t, l)
Directory == \E l \in Lines, k \in {"INVL"} \cup Recalls : L2Cohe(l, k)
Below == L2Request \/ L2Data \/ L2CoheReply

Next == fatal = "none" /\ (Processor \/ Directory \/ L1Pipe \/ WBSim \/ Below \/ Answers \/ L1Above)

Spec == Init /\ [][Next]_vars

(* The caches are called in every cycle and the directory answers.  No     *)
(* handler undoes what another did, so that runs are finite and one        *)
(* condition of fairness covers them all.                                  *)
Handlers == fatal = "none" /\ (L1Pipe \/ WBSim \/ Below \/ Answers \/ L1Above)
FairSpec == Spec /\ WF_vars(Handlers)
-----------------------------------------------------------------------------
(***************************************************************************)
(* Properties.                                                             *)
(***************************************************************************)
InMsg(i, q) == i \in AllOf(q)

(* Where the REQ of an access is. *)
Places(i) ==
       {<<"L1", k>>   : k \in {k \in 1..Len(l1req) : l1req[k] = i}}
  \cup {<<"mshr", l>> : l \in {l \in Lines : l1mshr[l] # NULL /\ i \in l1mshr[l].coal}}
  \cup {<<"port", k>> : k \in {k \in 1..Len(wbin) : wbin[k] = i}}
  \cup {<<"wb", k>>   : k \in {k \in 1..Len(wbuf) : InMsg(i, wbuf[k])}}
  \cup {<<"L2", k>>   : k \in {k \in 1..Len(l2in) : InMsg(i, l2in[k])}}
  \cup {<<"main", l>> : l \in {l \in Lines : l2mshr[l] # NULL /\ InMsg(i, l2mshr[l].main)}}
  \cup {<<"coal", l>> : l \in {l \in Lines : l2mshr[l] # NULL
                                  /\ \E k \in 1..Len(l2mshr[l].coal) : InMsg(i, l2mshr[l].coal[k])}}
  \cup {<<"data", k>> : k \in {k \in 1..Len(data) : data[k].msg # NULL /\ InMsg(i, data[k].msg)}}
  \cup {<<"up", k>>   : k \in {k \in 1..Len(up) : up[k].type = "REPLY" /\ InMsg(i, up[k].msg)}}

(* No access is lost or performed twice, however reads and writes of a     *)
(* line were joined in the L1 cache, the write buffer and the L2 cache     *)
(* (GlobalPerformAndHeapInsert..., read_with_write): an MSHR lasts until   *)
(* its REQ is performed, and no REPLY finds its MSHR gone.                 *)
EachOnce == /\ fatal = "none"
            /\ \A i \in 1..Len(acc) : Cardinality(Places(i)) + done[i] = 1
            /\ \A l \in Lines : l1mshr[l] # NULL => done[l1mshr[l].main] = 0

(* "Reads are normally allowed to bypass the write-buffer, but stall in    *)
(* case of a match" (wb.c): no access is sent down past an older write of  *)
(* the processor to its line.                                              *)
Above(i) == i \in Range(l1req) \cup Range(wbin) \/ \E k \in 1..Len(wbuf) : InMsg(i, wbuf[k])
Sent(i) == \/ \E k \in 1..Len(l2in) : InMsg(i, l2in[k])
           \/ l2mshr[Line(i)] # NULL /\ InMsg(i, l2mshr[Line(i)].main)
           \/ l2mshr[Line(i)] # NULL /\ \E k \in 1..Len(l2mshr[Line(i)].coal) :
                                           InMsg(i, l2mshr[Line(i)].coal[k])
           \/ \E k \in 1..Len(data) : data[k].msg # NULL /\ InMsg(i, data[k].msg)
NoneAround ==
  \A a, b \in 1..Len(acc) :
     (a < b /\ Excl(a) /\ Line(a) = Line(b) /\ Sent(b)) =>
        /\ ~Above(a)
        /\ \A j, k \in 1..Len(l2in) : InMsg(a, l2in[j]) /\ InMsg(b, l2in[k]) => j <= k

(* Inclusion, which mshr.c and l2cache.c build on ("miss at L2 means miss  *)
(* at L1 also"): a line of the L1 cache is in the L2 cache, or is about to *)
(* be invalidated.                                                         *)
Inclusion ==
  \A l \in Lines : l1st[l] = "PR_CL" /\ l2st[l] = "INVALID" =>
     \/ l \in wrb_buf
     \/ \E k \in 1..Len(up) : up[k].type = "COHE" /\ up[k].line = l /\ up[k].kind # "COPYBACK"
     \/ l1mshr[l] # NULL /\ l1mshr[l].pend \in {"INVL", "COPYBACK_INVL"}

(* Every access is answered: a write does not stay in the buffer, and what *)
(* stalls for a full buffer, a full MSHR or a write after read moves on.   *)
EveryAccessDone == \A i \in Ids : (Len(acc) >= i) ~> (done[i] = 1)
=============================================================================
