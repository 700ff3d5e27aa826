------------------------------- MODULE MemUnit -------------------------------
(***************************************************************************)
(* The memory unit of one processor (memunit.cc, memprocess.cc) in the     *)
(* default build, release consistency (STORE_ORDERING undefined), between  *)
(* the active list (mark_stores_ready and the graduation of graduate.cc)   *)
(* and the caches, which perform and complete requests in any order.       *)
(*                                                                         *)
(* A program is a sequence of memory operations, memory barriers and       *)
(* branches.  Positions in it serve as tags: they grow in program order.   *)
(* An instruction that is flushed gets a new tag when it is fetched again, *)
(* which the model writes as the same position with the next generation.   *)
(* All addresses are simulated ones (addr >= lowsimmed, MEMSYS on).        *)
(***************************************************************************)
EXTENDS Integers, FiniteSets, Sequences

CONSTANTS
  Cases,        \* programs and command lines: [prog : Seq(Instr), mode : Modes]
  Addrs,        \* words in memory
  MaxMemOps,    \* MAX_MEM_OPS
  GraduateRate, \* instructions that may graduate in a cycle
  MaxLength,    \* bound: the longest program
  MaxExternal,  \* bound: writes by other processors
  MaxMispredict \* bound: mispredicted branches

BarrierBits == {"SS", "LS", "SL", "LL", "MEMISSUE"}
Instr == [kind : {"LD", "ST", "RMW", "MB", "BR"}, a : Addrs, size : {"d", "w", "b"},
          bar : SUBSET BarrierBits]
\* spec_stores and Speculative_Loads
Modes == [st : {"STALL", "LIMBO", "EXCEPT"}, ld : BOOLEAN]

ASSUME CasesAssumption ==
  \A c \in Cases : c.mode \in Modes /\ c.prog \in Seq(Instr) /\ Len(c.prog) \in 1..MaxLength
ASSUME BoundsAssumption == /\ MaxMemOps \in Nat \ {0}
                           /\ GraduateRate \in Nat \ {0}
                           /\ MaxExternal \in Nat
                           /\ MaxMispredict \in Nat

VARIABLES
  prog, mode,
  op,           \* per position: the fields of its instance
  decoded,      \* instructions fetched so far, the last one in the window
  head,         \* the oldest instruction in the active list
  unitq,        \* UnitQ[uMEM]: decoded, but the memory queue was full
  loadq, storeq,\* LoadQueue and StoreQueue; both are in tag order
  storesToMem,  \* StoresToMem: ordinary stores that were issued
  membars,      \* membar_tags
  minload, minstore, \* as IssueMem last computed them
  phase,        \* of the cycle, see below
  fresh,        \* instructions marked done in this cycle
  flying,       \* requests at the caches
  heap,         \* MemDoneHeap
  issued,       \* positions in the order of their issuetime
  fatal,        \* an exit(-1) was reached
  externals, mispredicts \* counters for the bounds

vars == <<prog, mode, op, decoded, head, unitq, loadq, storeq, storesToMem, membars,
          minload, minstore, phase, fresh, flying, heap, issued, fatal, externals,
          mispredicts>>

Pos == DOMAIN prog
Infinity == Len(prog) + 1                         \* INT_MAX
LeastOf(S) == IF S = {} THEN Infinity ELSE CHOOSE x \in S : \A y \in S : x <= y
Load(i) == prog[i].kind = "LD"
RMW(i) == prog[i].kind = "RMW"
IsStore(i) == prog[i].kind \in {"ST", "RMW"}
InMemUnit(i) == i \in loadq \/ (i \in storeq /\ ~op[i].copied)  \* in_memunit
Before(i, j) == /\ \E m \in DOMAIN issued : issued[m] = i       \* i.issuetime < j.issuetime
                /\ \A m, n \in DOMAIN issued : issued[m] = i /\ issued[n] = j => m < n
Unissue(i) == SelectSeq(issued, LAMBDA x : x # i)               \* issuetime = INT_MAX

(***************************************************************************)
(* A cycle (RSIM_EVENT).  "caches": the caches and what reaches them from  *)
(* outside.  "complete": CompleteMemQueue empties MemDoneHeap, then        *)
(* CompleteQueues takes the addresses and branches that were computed.     *)
(* graduate_cycle ends that phase; "decode" follows, then IssueMem with    *)
(* "stores" and "loads".                                                   *)
(***************************************************************************)
InCompletion == phase \in {"caches", "complete"}

(***************************************************************************)
(* An instance as NewInstance and AddToMemorySystem leave it.  mp is       *)
(* memprogress: 0 unissued, -1 issued, 1 completed, and -s-3 if forwarded  *)
(* from store s.  copied: the StoreQueue holds a copy made by              *)
(* mark_stores_ready that outlives the instance.  The last three fields    *)
(* are history: was the value bound; the own older stores it contains; and *)
(* did another processor overwrite it while an operation that must come    *)
(* before it was outstanding.                                              *)
(***************************************************************************)
NewInstance(gen) ==
  [gen |-> gen, mp |-> 0, vsb |-> 0, addr |-> FALSE, strdy |-> FALSE, copied |-> FALSE,
   limbo |-> FALSE, kill |-> FALSE, exc |-> "OK", aexc |-> "OK", done |-> FALSE,
   gperf |-> FALSE, bound |-> FALSE, seen |-> {}, stale |-> FALSE]

\* A load that has to be issued once more (and what is forgotten with it).
Again(r) == [r EXCEPT !.mp = 0, !.vsb = 0, !.limbo = FALSE, !.kill = FALSE,
                      !.bound = FALSE, !.seen = {}, !.stale = FALSE]

Init ==
  /\ \E c \in Cases : prog = c.prog /\ mode = c.mode
  /\ op = [i \in Pos |-> NewInstance(0)]
  /\ decoded = 0 /\ head = 1
  /\ unitq = {} /\ loadq = {} /\ storeq = {} /\ storesToMem = 0 /\ membars = {}
  /\ minload = Infinity /\ minstore = Infinity /\ phase = "caches" /\ fresh = {}
  /\ flying = {} /\ heap = {} /\ issued = <<>>
  /\ fatal = FALSE /\ externals = 0 /\ mispredicts = 0

(***************************************************************************)
(* SStag, LStag, SLtag, LLtag and MEMISSUEtag: the first barrier of each   *)
(* kind, -1 if there is none.                                              *)
(***************************************************************************)
BarTag(bit) == LET B == {m \in membars : bit \in prog[m].bar}
               IN  IF B = {} THEN -1 ELSE LeastOf(B)
\* What is still to be done before a barrier that orders stores or loads.
StoresBefore(tag) == minstore < tag
LoadsBefore(tag) == minload < tag
Past(i, bit) == i > BarTag(bit)

Overlap(i, j) == prog[i].a = prog[j].a
\* MemMatch, and the forward of half a double: the load lies inside the store.
MemMatch(ld, st) ==
  \/ prog[st].kind = "ST" /\ prog[st].size = prog[ld].size
  \/ prog[st].kind = "ST" /\ prog[st].size = "d" /\ prog[ld].size = "w"
  \/ prog[st].kind = "RMW" /\ prog[st].size = "b" /\ prog[ld].size = "b"
OlderStores(i) == {s \in storeq : s < i}
Ambiguous == {s \in storeq : ~op[s].addr}         \* ambig_st_tags

(***************************************************************************)
(* The memory queue.  AddToMemorySystem for one more operation, and        *)
(* AddFullToMemorySystem, which lets the oldest waiting one in when an     *)
(* entry is freed.                                                         *)
(***************************************************************************)
NumInMemorySystem == Cardinality(storeq) + Cardinality(loadq) - storesToMem
Enter(S, L, U) ==
  /\ storeq' = S \cup {i \in U : IsStore(i)}
  /\ loadq' = L \cup {i \in U : Load(i)}
MutAddFull == {}  \* nobody waiting comes in
AddFull == IF unitq = {} THEN {} ELSE {LeastOf(unitq)}

\* decode_instruction and check_dependencies: the next instruction.
Decode ==
  LET i == decoded + 1
  IN  /\ phase = "decode" /\ i \in Pos
      /\ decoded' = i
      /\ IF prog[i].kind = "MB" THEN membars' = membars \cup {i} ELSE UNCHANGED membars
      /\ op' = [op EXCEPT ![i] = [NewInstance(op[i].gen) EXCEPT !.done = prog[i].kind = "MB"]]
      /\ IF ~IsStore(i) /\ ~Load(i) THEN UNCHANGED <<unitq, loadq, storeq>>
         ELSE IF NumInMemorySystem < MaxMemOps
              THEN Enter(storeq, loadq, {i}) /\ UNCHANGED unitq
              ELSE unitq' = unitq \cup {i} /\ UNCHANGED <<loadq, storeq>>
      /\ UNCHANGED <<prog, mode, head, storesToMem, minload, minstore, phase, fresh,
                     flying, heap, issued, fatal, externals, mispredicts>>

(***************************************************************************)
(* PerformMemOp for a load that is complete: it leaves the queue unless it *)
(* is in limbo or has passed a barrier that still waits for older          *)
(* operations.                                                             *)
(***************************************************************************)
Speculative(i) == /\ mode.ld
                  /\ \/ Past(i, "SL") /\ StoresBefore(BarTag("SL"))
                     \/ Past(i, "LL") /\ LoadsBefore(BarTag("LL"))

(***************************************************************************)
(* Disambiguate: an address is known.  A store looks for younger loads     *)
(* that went ahead of it.  One that waits in limbo is wrong (it restarts:  *)
(* SPEC_LIMBO issues it again, SPEC_EXCEPT takes a soft exception), or is  *)
(* released when no older store is ambiguous; one on its way is killed.    *)
(***************************************************************************)
Disambiguate(i) ==
  LET stillAmbiguous == Ambiguous \ {i}
      younger == {c \in loadq : c >= i}
      wrong == {c \in younger : op[c].limbo /\ Overlap(c, i)}
      released == {c \in younger : op[c].limbo /\ ~Overlap(c, i)
                                               /\ LeastOf(stillAmbiguous) > c}
      killed == {c \in younger : ~op[c].limbo /\ op[c].mp < 0 /\ Overlap(c, i)}
      excepted == IF mode.st = "EXCEPT" THEN wrong ELSE {}
      leaving == excepted \cup {c \in released : ~Speculative(c)}
      entering == IF Cardinality(leaving) >= Cardinality(unitq) THEN unitq
                  ELSE {u \in unitq : Cardinality({v \in unitq : v < u}) < Cardinality(leaving)}
      Flag(r) == [r EXCEPT !.exc = IF @ = "OK" THEN "LIMBO" ELSE @,
                           !.aexc = IF r.exc = "OK" THEN "LIMBO" ELSE @]
      Outcome(c) ==
        CASE c = i -> [op[c] EXCEPT !.addr = TRUE]
          [] c \in excepted ->
               LET r == Flag(op[c]) IN [r EXCEPT !.limbo = FALSE, !.done = TRUE, !.aexc = r.exc]
          [] c \in wrong \ excepted -> Again(op[c])
          [] c \in released -> [op[c] EXCEPT !.limbo = FALSE, !.mp = 1, !.done = TRUE,
                                             !.aexc = op[c].exc]
          [] c \in killed -> IF mode.st = "EXCEPT" THEN Flag(op[c]) ELSE [op[c] EXCEPT !.kill = TRUE]
          [] OTHER -> op[c]
  IN  /\ InCompletion /\ heap = {} /\ phase' = "complete"
      /\ i \in loadq \cup storeq /\ ~op[i].addr
      /\ IF ~IsStore(i)
         THEN /\ op' = [op EXCEPT ![i].addr = TRUE]
              /\ UNCHANGED <<unitq, loadq, storeq, fresh, issued, fatal>>
         ELSE /\ op' = [c \in Pos |-> Outcome(c)]
              /\ issued' = SelectSeq(issued, LAMBDA c : c \notin wrong \ excepted)
              /\ fresh' = fresh \cup excepted \cup released
              /\ unitq' = unitq \ entering
              /\ Enter(storeq, loadq \ leaving, entering)
              /\ fatal' = (fatal \/ (mode.st = "STALL" /\ wrong \cup killed # {}))
      /\ UNCHANGED <<prog, mode, decoded, head, storesToMem, membars, minload, minstore,
                     flying, heap, externals, mispredicts>>

(***************************************************************************)
(* IssueMem, every cycle: what is outstanding; barriers that are satisfied *)
(* go, from the oldest on; if one went, completed loads that no barrier    *)
(* holds any more leave the queue.  The release runs PerformMemOp, and     *)
(* with it AddFullToMemorySystem, for each of them.                        *)
(***************************************************************************)
Satisfied(m, minl, mins) ==
  LET bar == prog[m].bar
  IN  /\ bar \cap {"LL", "LS", "MEMISSUE"} = {} \/ minl > m
      /\ bar \cap {"SL", "SS", "MEMISSUE"} = {} \/ mins > m

IssueMem ==
  LET ls == loadq \cup {i \in storeq : RMW(i)}
      minl == LeastOf(ls)
      mins == LeastOf(storeq)
      gone == {m \in membars : \A n \in membars : n <= m => Satisfied(n, minl, mins)}
      left == membars \ gone
      Tag(bit) == LET B == {m \in left : bit \in prog[m].bar} IN IF B = {} THEN -1 ELSE LeastOf(B)
      Held(i) == (mins < Tag("SL") /\ i > Tag("SL")) \/ (minl < Tag("LL") /\ i > Tag("LL"))
      done == IF gone = {} \/ ~mode.ld THEN {}
              ELSE {i \in loadq : op[i].mp = 1 /\ ~op[i].limbo /\ ~Held(i)}
      entering == {u \in unitq : Cardinality({v \in unitq : v < u}) < Cardinality(done)}
  IN  /\ phase = "decode"
      /\ decoded = Len(prog) \/ head <= decoded    \* decode_cycle stalls only for what is ahead
      /\ phase' = "stores"
      /\ minload' = minl /\ minstore' = mins
      /\ membars' = left
      /\ Enter(storeq, loadq \ done, entering)
      /\ unitq' = unitq \ entering
      /\ UNCHANGED <<prog, mode, op, decoded, head, storesToMem, fresh, flying, heap, issued,
                     fatal, externals, mispredicts>>

(***************************************************************************)
(* IssueOp: the request goes to the caches.  A prefetch never counts, so   *)
(* a demand access is all that is sent.                                    *)
(***************************************************************************)
\* The own stores that a value forwarded from s is not older than.
UpTo(i, s) == {t \in Pos : t <= s /\ IsStore(t) /\ Overlap(t, i)}
Request(i) == [i |-> i, gen |-> op[i].gen, copied |-> op[i].copied, done |-> FALSE]
IssueOp(i, from) ==
  /\ op' = [op EXCEPT ![i].mp = -1, ![i].gperf = FALSE,
                      ![i].vsb = IF from = 0 THEN 0 ELSE -from - 3,
                      ![i].bound = from # 0, ![i].seen = UpTo(i, from)]
  /\ flying' = flying \cup {Request(i)}
  /\ issued' = Append(Unissue(i), i)

(***************************************************************************)
(* IssueStores: the stores mark_stores_ready has released (their address   *)
(* is known, so confstore stays 0), held back by older unissued stores to  *)
(* the word and by barriers.  The condition on LLtag is meant for RMWs but *)
(* binds all stores, by the precedence of && and ||.  An ordinary store    *)
(* frees its entry of the memory queue.                                    *)
(***************************************************************************)
StoreHeld(i) ==
  \/ \E s \in OlderStores(i) : op[s].mp = 0 /\ Overlap(s, i)
  \/ Past(i, "SS") /\ StoresBefore(BarTag("SS"))
  \/ Past(i, "LS") /\ LoadsBefore(BarTag("LS"))
  \/ RMW(i) /\ Past(i, "SL") /\ StoresBefore(BarTag("SL"))
  \/ Past(i, "LL") /\ LoadsBefore(BarTag("LL"))
MemIssueHeld(i) == BarTag("MEMISSUE") >= 0 /\ Past(i, "MEMISSUE")
MutStoreIssuable(i) == op[i].mp = 0 /\ op[i].addr /\ ~MemIssueHeld(i) /\ ~StoreHeld(i)  \* without st_ready
StoreIssuable(i) == /\ op[i].mp = 0 /\ op[i].strdy /\ op[i].addr
                    /\ ~MemIssueHeld(i) /\ ~StoreHeld(i)

IssueStore(i) ==
  LET entering == IF RMW(i) THEN {} ELSE AddFull
  IN  /\ phase = "stores"
      /\ i \in storeq /\ StoreIssuable(i)
      /\ \A s \in OlderStores(i) : ~StoreIssuable(s)      \* the queue is scanned in order
      /\ storesToMem' = IF RMW(i) THEN storesToMem ELSE storesToMem + 1
      /\ Enter(storeq, loadq, entering) /\ unitq' = unitq \ entering
      /\ IssueOp(i, 0)
      /\ UNCHANGED <<prog, mode, decoded, head, membars, minload, minstore, phase, fresh,
                     heap, fatal, externals, mispredicts>>

(***************************************************************************)
(* IssueLoads.  The scan of the older stores is decided by the youngest    *)
(* one that says anything: it forwards its value, or the load waits.       *)
(***************************************************************************)
NoForward(i, s) == /\ ~mode.ld
                   /\ \/ Past(i, "SL") /\ s < BarTag("SL")
                      \/ Past(i, "LL") /\ LoadsBefore(BarTag("LL"))
MutAcrossBarrier(i) == Past(i, "SL") /\ StoresBefore(BarTag("SL"))  \* #LoadLoad is forgotten
AcrossBarrier(i) == \/ Past(i, "SL") /\ StoresBefore(BarTag("SL"))
                    \/ Past(i, "LL") /\ LoadsBefore(BarTag("LL"))
Forwards(i, s) == MemMatch(i, s) /\ ~NoForward(i, s)
Blocks(i, s) == ~Forwards(i, s) /\ (op[s].mp = 0 \/ RMW(s) \/ ~AcrossBarrier(i))
Deciding(i) == {s \in OlderStores(i) : op[s].addr /\ Overlap(s, i)
                                       /\ (Forwards(i, s) \/ Blocks(i, s))}
MutYoungest(S) == LeastOf(S)  \* the oldest store decides
Youngest(S) == CHOOSE s \in S : \A t \in S : t <= s
ForwardedFrom(i) == IF Deciding(i) # {} /\ Forwards(i, Youngest(Deciding(i)))
                    THEN Youngest(Deciding(i)) ELSE 0
\* A store that is already at the caches: the load follows it there.
FromVSB(i) == ForwardedFrom(i) # 0 /\ op[ForwardedFrom(i)].mp # 0
LoadIssuable(i) ==
  /\ op[i].mp = 0 /\ op[i].addr
  /\ ~MemIssueHeld(i)
  /\ mode.st = "STALL" => OlderStores(i) \cap Ambiguous = {}
  /\ Deciding(i) # {} => ForwardedFrom(i) # 0
  /\ (ForwardedFrom(i) = 0 \/ FromVSB(i)) => mode.ld \/ ~AcrossBarrier(i)

IssueLoad(i) ==
  /\ phase \in {"stores", "loads"}
  /\ i \in loadq /\ LoadIssuable(i)
  /\ \A j \in loadq : j < i => ~LoadIssuable(j)
  /\ phase' = "loads"
  /\ IF ForwardedFrom(i) # 0 /\ ~FromVSB(i)
     THEN /\ op' = [op EXCEPT ![i].vsb = 0, ![i].mp = -ForwardedFrom(i) - 3,
                              ![i].bound = TRUE, ![i].seen = UpTo(i, ForwardedFrom(i))]
          /\ heap' = heap \cup {Request(i)}
          /\ issued' = Append(Unissue(i), i)
          /\ UNCHANGED <<flying, fatal>>
     ELSE /\ IssueOp(i, ForwardedFrom(i))
          /\ fatal' = (fatal \/ op[i].limbo \/ op[i].kill)
          /\ UNCHANGED heap
  /\ UNCHANGED <<prog, mode, decoded, head, unitq, loadq, storeq, storesToMem, membars, minload,
                 minstore, fresh, externals, mispredicts>>

\* Nothing more to issue, or the ports are taken (L1Q_FULL, UnitsFree).
EndIssue ==
  /\ phase \in {"stores", "loads"}
  /\ \/ flying # {}
     \/ /\ \A i \in storeq : phase = "stores" => ~StoreIssuable(i)
        /\ \A l \in loadq : ~LoadIssuable(l)
  /\ phase' = "caches"
  /\ UNCHANGED <<prog, mode, op, decoded, head, unitq, loadq, storeq, storesToMem, membars,
                 minload, minstore, fresh, flying, heap, issued, fatal, externals, mispredicts>>

(***************************************************************************)
(* The caches (external here).  They perform a request (GlobalPerform) and *)
(* then hand it back (MemDoneHeapInsert), in any order, but stores to one  *)
(* word in the order in which they were issued.  Both calls compare tags:  *)
(* the instance of a flushed request is gone; the copy of a store is not.  *)
(***************************************************************************)
SameWordStores(j, i) == IsStore(j) /\ IsStore(i) /\ Overlap(j, i)
MutTagMatches(r) == TRUE  \* a flushed request completes
TagMatches(r) == r.copied \/ op[r.i].gen = r.gen
Perform(r) ==
  LET i == r.i
      o == op[i]
  IN  /\ phase = "caches" /\ r \in flying /\ ~r.done
      /\ \A q \in flying : SameWordStores(q.i, i) /\ ~q.done => ~Before(q.i, i)
      /\ flying' = (flying \ {r}) \cup {[r EXCEPT !.done = TRUE]}
      /\ op' = IF ~TagMatches(r) \/ o.gen # r.gen \/ o.gperf THEN op
               ELSE [op EXCEPT ![i] =
                  IF o.vsb # 0
                  THEN [o EXCEPT !.mp = IF @ = -1 THEN o.vsb ELSE @, !.vsb = 0, !.gperf = TRUE]
                  ELSE [o EXCEPT !.gperf = TRUE, !.bound = TRUE,
                                 !.seen = {t \in Pos : t < i /\ IsStore(t) /\ Overlap(t, i)
                                                         /\ op[t].gperf}]]
      /\ UNCHANGED <<prog, mode, decoded, head, unitq, loadq, storeq, storesToMem, membars,
                     minload, minstore, phase, fresh, heap, issued, fatal, externals, mispredicts>>

Return(r) ==
  /\ phase = "caches" /\ r \in flying /\ r.done
  /\ \A q \in flying : SameWordStores(q.i, r.i) => ~Before(q.i, r.i)
  /\ flying' = flying \ {r}
  /\ heap' = IF TagMatches(r) THEN heap \cup {[r EXCEPT !.done = FALSE]} ELSE heap
  /\ UNCHANGED <<prog, mode, op, decoded, head, unitq, loadq, storeq, storesToMem, membars,
                 minload, minstore, phase, fresh, issued, fatal, externals, mispredicts>>

(***************************************************************************)
(* Which operations a barrier puts before which, by what they are.         *)
(***************************************************************************)
Reads(i) == prog[i].kind \in {"LD", "RMW"}
Ordered(j, i) ==
  \E m \in Pos : /\ j < m /\ m < i /\ prog[m].kind = "MB"
                 /\ \/ Reads(j) /\ Reads(i) /\ "LL" \in prog[m].bar
                    \/ Reads(j) /\ IsStore(i) /\ "LS" \in prog[m].bar
                    \/ IsStore(j) /\ Reads(i) /\ "SL" \in prog[m].bar
                    \/ IsStore(j) /\ IsStore(i) /\ "SS" \in prog[m].bar
HasPerformed(i) == IF IsStore(i) THEN op[i].gperf ELSE op[i].bound

(***************************************************************************)
(* Another processor writes a word: its line is invalidated, and the L1    *)
(* cache tells the load queue (SpecLoadBufCohe).                           *)
(***************************************************************************)
MinSpec == IF BarTag("LL") >= 0 THEN BarTag("LL")
           ELSE IF BarTag("SL") >= 0 /\ BarTag("SL") < -1 THEN BarTag("SL") ELSE -1
SpecLoadBufCohe(a) ==
  IF ~mode.ld \/ MinSpec = -1 THEN {}
  ELSE {i \in loadq : op[i].mp # 0 /\ prog[i].a = a /\ i > MinSpec}

\* History: the load has its value already, an operation before it has not performed.
Overtaken(a) ==
  {i \in head .. decoded : /\ Load(i) /\ prog[i].a = a /\ op[i].bound
                           /\ \A t \in op[i].seen : op[t].gperf
                           /\ \E j \in Pos : Ordered(j, i) /\ ~HasPerformed(j)}

External(a) ==
  /\ phase = "caches" /\ externals < MaxExternal
  /\ externals' = externals + 1
  /\ op' = [i \in Pos |->
              [op[i] EXCEPT !.exc = IF i \in SpecLoadBufCohe(a) THEN "SL" ELSE @,
                            !.aexc = IF i \in SpecLoadBufCohe(a) THEN "SL" ELSE @,
                            !.stale = @ \/ i \in Overtaken(a)]]
  /\ UNCHANGED <<prog, mode, decoded, head, unitq, loadq, storeq, storesToMem, membars,
                 minload, minstore, phase, fresh, flying, heap, issued, fatal, mispredicts>>

(***************************************************************************)
(* CompleteMemOp for what comes off MemDoneHeap.                           *)
(***************************************************************************)
\* PerformMemOp takes these out of the queues; what waits in UnitQ comes in.
Leave(i, freed) ==
  LET entering == IF freed THEN AddFull ELSE {}
  IN  Enter(storeq \ {i}, loadq \ {i}, entering) /\ unitq' = unitq \ entering

CompleteStore(r) ==
  LET i == r.i
      flushed == op[i].gen # r.gen          \* memprogress = 2: only a copy gets here
  IN  /\ IsStore(i)
      /\ fatal' = (fatal \/ flushed \/ ~op[i].gperf)
      /\ op' = IF flushed THEN op ELSE [op EXCEPT ![i].mp = 1, ![i].done = TRUE]
      /\ IF flushed THEN UNCHANGED <<storesToMem, unitq, loadq, storeq>>
         ELSE /\ storesToMem' = IF RMW(i) THEN storesToMem ELSE storesToMem - 1
              /\ Leave(i, RMW(i))
      /\ fresh' = IF RMW(i) THEN fresh \cup {i} ELSE fresh
      /\ UNCHANGED issued

(***************************************************************************)
(* A load is checked against the older stores: one that is ambiguous puts  *)
(* it in limbo, one that it overtook makes it start over, unless its value *)
(* was forwarded from a younger one.                                       *)
(***************************************************************************)
CompleteLoad(r) ==
  LET i == r.i
      o == op[i]
      soft == o.exc # "OK"
      checked == IF mode.st = "STALL" THEN {} ELSE {s \in OlderStores(i) : o.mp > -s - 3}
      overtook == {s \in checked : op[s].addr /\ Overlap(s, i) /\ Before(i, s)}
      limbo == \/ mode.st = "LIMBO" /\ OlderStores(i) \cap Ambiguous # {}
               \/ mode.st = "EXCEPT" /\ \E s \in checked :
                     s \in Ambiguous /\ \A t \in overtook : s < t
      again == soft \/ o.kill \/ overtook # {}
      finished == ~again /\ ~limbo
  IN  /\ Load(i)
      /\ op' = [op EXCEPT ![i] =
                  IF soft THEN [Again(o) EXCEPT !.exc = "OK", !.gperf = FALSE, !.kill = o.kill]
                  ELSE IF again THEN Again(o)
                  ELSE [o EXCEPT !.limbo = limbo, !.mp = IF limbo THEN @ ELSE 1,
                                 !.done = ~limbo, !.aexc = IF limbo THEN @ ELSE "OK"]]
      /\ issued' = IF again THEN Unissue(i) ELSE issued
      /\ fatal' = (fatal \/ (~again /\ (o.mp = 0 \/ (o.mp = -1 /\ ~o.gperf))))
      /\ IF finished /\ ~Speculative(i) THEN Leave(i, TRUE)
         ELSE UNCHANGED <<unitq, loadq, storeq>>
      /\ fresh' = IF finished THEN fresh \cup {i} ELSE fresh
      /\ UNCHANGED storesToMem

CompleteMemOp(r) ==
  /\ InCompletion /\ phase' = "complete" /\ r \in heap
  /\ heap' = heap \ {r}
  /\ IF TagMatches(r) THEN CompleteStore(r) \/ CompleteLoad(r)
     ELSE UNCHANGED <<op, unitq, loadq, storeq, storesToMem, fresh, issued, fatal>>
  /\ UNCHANGED <<prog, mode, decoded, head, membars, minload, minstore, flying,
                 externals, mispredicts>>

(***************************************************************************)
(* FlushMems: what is younger than a tag leaves the queues.                *)
(***************************************************************************)
FlushedOp(o, tag) == [i \in Pos |-> IF i > tag /\ i <= decoded
                                    THEN NewInstance(op[i].gen + 1) ELSE o[i]]
FlushMems(tag) ==
  /\ loadq' = {i \in loadq : i <= tag}
  /\ unitq' = {i \in unitq : i <= tag}
  /\ membars' = {i \in membars : i <= tag}
  /\ issued' = SelectSeq(issued, LAMBDA i : i <= tag)
  /\ decoded' = tag

\* A branch resolves; if it was mispredicted, what follows is flushed and fetched again.
ResolveBranch(i, wrong) ==
  /\ InCompletion /\ heap = {} /\ phase' = "complete"
  /\ i \in head .. decoded /\ prog[i].kind = "BR" /\ ~op[i].done
  /\ fresh' = {j \in fresh : j < i \/ ~wrong} \cup {i}
  /\ IF wrong
     THEN /\ mispredicts < MaxMispredict /\ mispredicts' = mispredicts + 1
          /\ FlushMems(i)
          /\ storeq' = {s \in storeq : s <= i}
          /\ op' = [FlushedOp(op, i) EXCEPT ![i].done = TRUE]
     ELSE /\ op' = [op EXCEPT ![i].done = TRUE]
          /\ UNCHANGED <<mispredicts, unitq, loadq, storeq, membars, issued, decoded>>
  /\ UNCHANGED <<prog, mode, head, storesToMem, minload, minstore, flying, heap, fatal,
                 externals>>

(***************************************************************************)
(* graduate_cycle.  Instructions leave the active list in order when they  *)
(* are done and out of the memory unit; one with an exception (here always *)
(* a soft one) is flushed with all after it and fetched again.  Then       *)
(* mark_stores_ready lets those stores go that have only completed         *)
(* instructions without exceptions before them; an ordinary one is done    *)
(* and lives on as a copy in the StoreQueue.                               *)
(***************************************************************************)
GraduateCycle ==
  LET MayGo(i) == op[i].done /\ i \notin fresh /\ (~InMemUnit(i) \/ op[i].exc # "OK")
      going == {i \in head .. decoded :
                  /\ i < head + GraduateRate
                  /\ \A j \in head .. i : MayGo(j) /\ op[j].aexc = "OK"}
      next == head + Cardinality(going)
      except == next <= decoded /\ next < head + GraduateRate /\ MayGo(next) /\ op[next].aexc # "OK"
      last == IF except THEN next - 1 ELSE decoded
      Markable(i) == /\ IsStore(i) /\ i \in storeq /\ ~op[i].strdy /\ op[i].addr
      Passes(i) == (op[i].done \/ (Markable(i) /\ ~RMW(i))) /\ op[i].aexc = "OK"
      marked == {i \in next .. last : i < next + GraduateRate /\ Markable(i) /\ \A j \in next .. (i - 1) : Passes(j)}
      o == IF except THEN FlushedOp(op, last) ELSE op
  IN  /\ InCompletion /\ heap = {} /\ phase' = "decode" /\ fresh' = {}
      /\ head' = next
      /\ op' = [i \in Pos |->
                  IF i \notin marked THEN o[i]
                  ELSE [o[i] EXCEPT !.strdy = TRUE, !.copied = ~RMW(i),
                                    !.done = @ \/ ~RMW(i)]]
      /\ IF except
         THEN FlushMems(last) /\ storeq' = {s \in storeq : s <= last}
         ELSE UNCHANGED <<loadq, unitq, membars, issued, storeq, decoded>>
      /\ UNCHANGED <<prog, mode, storesToMem, minload, minstore, flying, heap, fatal,
                     externals, mispredicts>>

Next ==
  \/ Decode
  \/ \E i \in Pos : Disambiguate(i)
  \/ IssueMem
  \/ \E i \in Pos : IssueStore(i)
  \/ \E i \in Pos : IssueLoad(i)
  \/ EndIssue
  \/ \E r \in flying : Perform(r)
  \/ \E r \in flying : Return(r)
  \/ \E a \in Addrs : External(a)
  \/ \E r \in heap : CompleteMemOp(r)
  \/ \E i \in Pos, wrong \in BOOLEAN : ResolveBranch(i, wrong)
  \/ GraduateCycle

\* RSIM_EVENT runs every cycle, functional units have finite latencies, and the caches answer
\* every request.
Cycle == \/ Decode \/ IssueMem \/ EndIssue \/ GraduateCycle
         \/ \E i \in Pos : IssueStore(i) \/ IssueLoad(i)
         \/ \E r \in heap : CompleteMemOp(r)
Units == \E i \in Pos : Disambiguate(i) \/ \E wrong \in BOOLEAN : ResolveBranch(i, wrong)
Caches == \E r \in flying : Perform(r) \/ Return(r)
Fairness == WF_vars(Cycle) /\ SF_vars(Units) /\ SF_vars(Caches)

Spec == Init /\ [][Next]_vars
FairSpec == Spec /\ Fairness

-----------------------------------------------------------------------------
Graduated(i) == i < head

TypeOK ==
  /\ [prog |-> prog, mode |-> mode] \in Cases
  /\ decoded \in 0..Len(prog) /\ head \in 1..(decoded + 1)
  /\ unitq \cup loadq \subseteq head..decoded
  /\ storeq \cup membars \subseteq 1..decoded
  /\ storesToMem \in 0..Len(prog)
  /\ minload \in 1..Infinity /\ minstore \in 1..Infinity
  /\ phase \in {"caches", "complete", "decode", "stores", "loads"}
  /\ fresh \subseteq 1..decoded
  /\ fatal \in BOOLEAN
  /\ externals \in 0..MaxExternal /\ mispredicts \in 0..MaxMispredict
  /\ \A i \in Pos : op[i].mp \in (-Len(prog) - 3)..1

\* None of the consistency checks of the memory unit ends the simulation (the exits of
\* IssueOp, PerformMemOp, CompleteMemOp and Disambiguate).
NoFatal == ~fatal

\* A processor sees its own stores: a load that has left the active list has the effect of
\* every older store to its word, by whatever way its value came (the caches, a forward
\* from the queue, a forward behind a store on its way, or after starting over).
OwnStoresSeen ==
  \A i \in Pos : Graduated(i) /\ Load(i) =>
     {t \in Pos : t < i /\ IsStore(t) /\ Overlap(t, i)} \subseteq op[i].seen

\* Memory barriers hold.  A store is performed only after all that a barrier puts before it;
\* a load that graduates did not keep a value another processor overwrote while an operation
\* that must come before the load was outstanding.
BarrierKept ==
  \A i \in Pos :
     /\ IsStore(i) /\ op[i].gperf => \A j \in Pos : Ordered(j, i) => HasPerformed(j)
     /\ Load(i) /\ Graduated(i) => ~op[i].stale

\* A store goes to the caches only when nothing before it can be undone any more: once
\* issued it is never flushed (comment at memunit.cc:1305).
NoSpeculativeStore ==
  [][\A i \in Pos : IsStore(i) /\ op[i].mp = -1 => op'[i].gen = op[i].gen]_vars

\* Every program ends: all its instructions graduate and the memory system becomes idle.
EverythingGraduates ==
  <>(head = Len(prog) + 1 /\ loadq = {} /\ storeq = {} /\ flying = {} /\ heap = {})

\* The queues agree with each other, and no consistency check fails on them.
QueuesConsistent == TypeOK /\ NoFatal
=============================================================================
