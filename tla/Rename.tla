------------------------------- MODULE Rename -------------------------------
(***************************************************************************)
(* Register renaming, the active list and speculation in one processor     *)
(* (src/src/Processor: pipestages.cc, active.cc, freelist.cc, tagcvt.cc,   *)
(* branchresolve.cc, graduate.cc, except.cc).                              *)
(*                                                                         *)
(* An instruction is decoded, renamed (check_dependencies), executed in    *)
(* some order, completed (update_cycle) and graduated in program order.    *)
(* Predicted branches save the mappers in a shadow mapper; mispredictions  *)
(* and exceptions flush the window.  An action is one instruction's turn   *)
(* in a stage: the rates and latencies of the stages are left open, and so *)
(* are the programs and the paths that are fetched.  Integer and condition *)
(* code registers are "IntRegs", the others "FpRegs".                      *)
(***************************************************************************)
EXTENDS Naturals, Integers, Sequences, SequencesExt

CONSTANTS
  IntRegs, FpRegs,    \* the logical registers
  ZEROREG,            \* the integer register that reads as zero
  IntSpare, FpSpare,  \* the physical registers beyond the logical ones
  Codes,              \* the instructions a program may hold
  MAX_ACTIVE_NUMBER,  \* entries of the active list: two per instruction
  MAX_SPEC,           \* shadow mappers
  NUM_WINS,           \* register windows
  MaxTag              \* bound: instructions fetched in a run

Regs == IntRegs \cup FpRegs
IntPhys == IntRegs \cup IntSpare
FpPhys == FpRegs \cup FpSpare
Phys == IntPhys \cup FpPhys

(* What the pipeline sees of an instruction: destination, condition code   *)
(* (or second half of a pair), source, kind of branch, window change, and  *)
(* whether it is a load, whose speculative value may be recalled.          *)
Branches == {"none", "delay", "annul", "jump"}
Code == [rd : Regs, cc : IntRegs, rs : Regs, br : Branches, wp : {-1, 0, 1},
         load : BOOLEAN]

ASSUME RegsAssumption ==
  /\ ZEROREG \in IntRegs /\ ZEROREG \notin FpRegs
  /\ IntPhys \cap FpPhys = {} /\ IntRegs \cap IntSpare = {} /\ FpRegs \cap FpSpare = {}
ASSUME CodesAssumption == Codes \subseteq Code
ASSUME SizeAssumption ==
  /\ MAX_ACTIVE_NUMBER \in Nat \ {0} /\ MAX_ACTIVE_NUMBER % 2 = 0
  /\ MAX_SPEC \in Nat \ {0} /\ NUM_WINS \in Nat /\ NUM_WINS > 2 /\ MaxTag \in Nat

VARIABLES
  insts,              \* tag_cvt: the instances in the processor, oldest first
  active_list,        \* old mappings of renamed registers, oldest first
  map,                \* intmapper and fpmapper
  free,               \* free_int_list and free_fp_list
  busy,               \* intregbusy and fpregbusy: registers not yet written
  dist_stallq,        \* <<register, tag of an instruction waiting for it>>
  branchq,            \* unresolved branches with a shadow mapper
  BranchDepQ,         \* tags of the branches waiting for a shadow mapper
  stallq,             \* tag of the instruction that could not be renamed
  stall_the_rest,     \* tag of the instruction that stops decoding, or 0
  type_of_stall_rest, \* why
  copymappernext,     \* the next instruction is a speculative delay slot
  unpredbranch,       \* fetch waits for an unpredicted jump
  instruction_count,  \* the tag of the next instruction
  in_exception,       \* tag of the excepting instruction being held, or 0
  max_active_list_size,
  CANSAVE, CANRESTORE, cwp,
  rfatal              \* the exit() that was reached

regVars   == <<active_list, map, free, busy, dist_stallq>>
specVars  == <<branchq, BranchDepQ, copymappernext, unpredbranch>>
stallVars == <<stallq, stall_the_rest, type_of_stall_rest>>
winVars   == <<CANSAVE, CANRESTORE, cwp>>
vars == <<insts, regVars, specVars, stallVars, winVars, instruction_count,
          in_exception, max_active_list_size, rfatal>>

StallTypes == {"NOEFF_LOSS", "RENAME", "SHADOW", "BADBR"}
Exceptions == {"OK", "SOFT", "TRAP", "WINTRAP"}
FatalCodes == {"none", "active list full in case 6", "TCT", "UTh", "BUSY",
               "BRANCH STALLING", "REVIVING", "no delay slot", "busy at exception"}

(* strucdep is 2 before renaming, 5 when only the first destination is     *)
(* renamed, 0 when both are; branchdep is 1 for an unpredicted jump and 2  *)
(* where a shadow mapper is still to be made.                              *)
Instance ==
  [tag : Nat, code : Codes, lrd : Regs, lrcc : IntRegs, prd : Phys,
   prcc : IntPhys, prs : Phys, truedep : BOOLEAN, strucdep : {0, 2, 5},
   branchdep : {0, 1, 2}, done : BOOLEAN, exception : Exceptions]
ActiveEntry == [tag : Nat, logicalreg : Regs, phyreg : Phys]
MapTable == [Regs -> Phys]

TypeOK ==
  /\ insts \in Seq(Instance) /\ active_list \in Seq(ActiveEntry)
  /\ map \in MapTable /\ free \subseteq Phys /\ busy \subseteq Phys
  /\ dist_stallq \subseteq (Phys \X Nat)
  /\ branchq \in Seq([tag : Nat, specmap : MapTable])
  /\ BranchDepQ \in Seq(Nat) /\ stallq \in Seq(Nat)
  /\ stall_the_rest \in Nat /\ type_of_stall_rest \in StallTypes
  /\ copymappernext \in BOOLEAN /\ unpredbranch \in BOOLEAN
  /\ instruction_count \in Nat \ {0} /\ in_exception \in Nat
  /\ max_active_list_size \in {2, MAX_ACTIVE_NUMBER}
  /\ CANSAVE \in Int /\ CANRESTORE \in Int /\ cwp \in 0..(NUM_WINS - 1)
  /\ rfatal \in FatalCodes

(* Tags are counted from 1 here, from 0 in the code.                       *)
Init ==
  /\ insts = <<>> /\ active_list = <<>>
  /\ map = [r \in Regs |-> r] /\ free = IntSpare \cup FpSpare
  /\ busy = {} /\ dist_stallq = {}
  /\ branchq = <<>> /\ BranchDepQ = <<>> /\ copymappernext = FALSE /\ unpredbranch = FALSE
  /\ stallq = <<>> /\ stall_the_rest = 0 /\ type_of_stall_rest = "NOEFF_LOSS"
  /\ instruction_count = 1 /\ in_exception = 0
  /\ max_active_list_size = MAX_ACTIVE_NUMBER
  /\ CANSAVE = NUM_WINS - 2 /\ CANRESTORE = 0 /\ cwp = NUM_WINS - 1
  /\ rfatal = "none"

Tags == {insts[k].tag : k \in 1..Len(insts)}
Inst(t) == insts[CHOOSE k \in 1..Len(insts) : insts[k].tag = t]

(* The stack of free registers of r's file.  Any of them will do.          *)
FreeFor(r) == IF r \in FpRegs THEN free \cap FpPhys ELSE free \cap IntPhys
getfreereg(r) == IF r = ZEROREG THEN ZEROREG ELSE CHOOSE p \in FreeFor(r) : TRUE

(* What renaming gives back: never the zero register.                      *)
MutAddfreereg(ps) == free \cup ps
addfreereg(ps) == free \cup (ps \ {ZEROREG})

Unstall == stall_the_rest' = 0 /\ type_of_stall_rest' = "NOEFF_LOSS"
StallTheRest(t, why) == stall_the_rest' = t /\ type_of_stall_rest' = why
-----------------------------------------------------------------------------
(***************************************************************************)
(* check_dependencies: rename i, which is the youngest instruction; older  *)
(* are the others.  Several steps can fail and be retried: each leaves i   *)
(* in the stall queue with strucdep at the step to redo.                   *)
(***************************************************************************)
NoRegister(i) == i.lrd # ZEROREG /\ FreeFor(i.lrd) = {}
ListFull == Len(active_list) = max_active_list_size

StallInRename(older, i, why) ==
  /\ insts' = Append(older, i) /\ stallq' = <<i.tag>> /\ StallTheRest(i.tag, why)

(* The first destination: active list, mapper, window pointer, busy bit.   *)
First(i) ==
  IF i.strucdep = 5
    THEN [inst |-> i, list |-> active_list, map |-> map, free |-> free, busy |-> busy, wp |-> 0]
    ELSE LET p == getfreereg(i.lrd)
         IN [inst |-> [i EXCEPT !.prd = p, !.strucdep = 5],
             list |-> Append(active_list, [tag |-> i.tag, logicalreg |-> i.lrd,
                                           phyreg |-> map[i.lrd]]),
             map  |-> [map EXCEPT ![i.lrd] = p],
             free |-> free \ {p},
             busy |-> busy \cup ({p} \ {ZEROREG}),
             wp   |-> IF i.exception = "WINTRAP" THEN 0 ELSE i.code.wp]

(* AddBranchQ: a shadow mapper for t holds the mappers m.                  *)
MutAddBranchQ(t, m) ==  \* copied before t itself is renamed
  [tag |-> t, specmap |-> map]
AddBranchQ(t, m) == [tag |-> t, specmap |-> m]

(* A speculation point takes a shadow mapper or waits for one.             *)
TakesMapper(i) == i.branchdep = 2 /\ Len(branchq) < MAX_SPEC
WaitsForMapper(i) == i.branchdep = 2 /\ Len(branchq) >= MAX_SPEC

(* A source still to be written is waited for on its dist_stallq.          *)
SourceBusy(i, nowbusy) == i.prs \in nowbusy

(* The second destination, and what i waits for.  A delay slot of an       *)
(* unpredicted jump stops the fetch.                                       *)
RenameBoth(older, i, f, p) ==
  LET newmap == [f.map EXCEPT ![i.lrcc] = p]
      nowbusy == f.busy \cup ({p} \ {ZEROREG})
      wait   == SourceBusy(i, nowbusy)
      j      == [f.inst EXCEPT !.prcc = p, !.strucdep = 0, !.truedep = wait,
                               !.branchdep = IF TakesMapper(i) THEN 0 ELSE @]
  IN /\ insts' = Append(older, j) /\ stallq' = <<>>
     /\ active_list' = Append(f.list, [tag |-> i.tag, logicalreg |-> i.lrcc,
                                       phyreg |-> f.map[i.lrcc]])
     /\ map' = newmap /\ free' = f.free \ {p} /\ busy' = nowbusy
     /\ dist_stallq' = dist_stallq \cup (IF wait THEN {<<i.prs, i.tag>>} ELSE {})
     /\ branchq' = IF TakesMapper(i) THEN Append(branchq, AddBranchQ(i.tag, newmap))
                                     ELSE branchq
     /\ BranchDepQ' = IF WaitsForMapper(i) THEN Append(BranchDepQ, i.tag) ELSE BranchDepQ
     /\ IF unpredbranch' /\ i.branchdep # 1 THEN StallTheRest(i.tag, "BADBR")
        ELSE IF WaitsForMapper(i) THEN StallTheRest(i.tag, "SHADOW")
        ELSE IF stall_the_rest = i.tag THEN Unstall
        ELSE UNCHANGED <<stall_the_rest, type_of_stall_rest>>

check_dependencies(older, i) ==
  IF i.strucdep # 5 /\ (NoRegister(i) \/ ListFull)
    THEN /\ StallInRename(older, i, IF NoRegister(i) THEN "RENAME" ELSE "NOEFF_LOSS")
         /\ UNCHANGED <<regVars, branchq, BranchDepQ, winVars, rfatal>>
    ELSE LET f == First(i)
             left == f.free \cap IntPhys
         IN /\ cwp' = (cwp + f.wp) % NUM_WINS
            /\ CANSAVE' = CANSAVE + f.wp /\ CANRESTORE' = CANRESTORE - f.wp
            /\ IF i.lrcc # ZEROREG /\ left = {}
                 THEN /\ StallInRename(older, f.inst, "RENAME")
                      /\ active_list' = f.list /\ map' = f.map /\ free' = f.free /\ busy' = f.busy
                      /\ UNCHANGED <<dist_stallq, branchq, BranchDepQ, rfatal>>
                 ELSE /\ RenameBoth(older, i, f, IF i.lrcc = ZEROREG THEN ZEROREG
                                                 ELSE CHOOSE p \in left : TRUE)
                      /\ rfatal' = IF Len(f.list) = max_active_list_size
                                     THEN "active list full in case 6" ELSE rfatal

(* A branch's delay slot has not been fetched yet.                         *)
SlotNext == /\ insts # <<>> /\ Last(insts).code.br \in {"delay", "jump"}
            /\ Last(insts).tag + 1 = instruction_count

(* A source is read in the window of before a save or a restore.           *)
Source(c) == map[c.rs]

(* decode_cycle, the loop over new instructions: nothing is fetched past a *)
(* stalled instruction.  Branches are not put in delay slots.  A save or a *)
(* restore with no window left becomes a WINTRAP without destination.      *)
Decode(c) ==
  LET trap == (c.wp = -1 /\ CANSAVE = 0) \/ (c.wp = 1 /\ CANRESTORE = 0)
      i == [tag |-> instruction_count, code |-> c,
            lrd |-> IF trap THEN ZEROREG ELSE c.rd,
            lrcc |-> IF trap THEN ZEROREG ELSE c.cc,
            prd |-> ZEROREG, prcc |-> ZEROREG, prs |-> Source(c),
            truedep |-> TRUE, strucdep |-> 2,
            branchdep |-> IF copymappernext \/ c.br = "annul" THEN 2
                          ELSE IF c.br = "jump" THEN 1 ELSE 0,
            done |-> FALSE, exception |-> IF trap THEN "WINTRAP" ELSE "OK"]
  IN /\ rfatal = "none" /\ in_exception = 0 /\ stallq = <<>> /\ stall_the_rest = 0
     /\ instruction_count <= MaxTag /\ (SlotNext => c.br = "none")
     /\ instruction_count' = instruction_count + 1
     /\ copymappernext' = (c.br = "delay")
     /\ unpredbranch' = (unpredbranch \/ c.br = "jump")
     /\ check_dependencies(insts, i)
     /\ UNCHANGED <<in_exception, max_active_list_size>>

(* decode_cycle, the loop over the stall queue.                            *)
DecodeStalled ==
  /\ rfatal = "none" /\ in_exception = 0 /\ stallq # <<>>
  /\ UNCHANGED <<instruction_count, copymappernext, unpredbranch,
                 in_exception, max_active_list_size>>
  /\ check_dependencies(Front(insts), Last(insts))
-----------------------------------------------------------------------------
(***************************************************************************)
(* Resolution of branches and completion.                                  *)
(***************************************************************************)
Predicted(i) == i.code.br \in {"delay", "annul"}

(* The instruction whose tag names the speculation: the delay slot, unless *)
(* it can be annulled.                                                     *)
tag_to_use(i) == IF i.code.br = "annul" THEN i.tag ELSE i.tag + 1
SlotMissing(i) == tag_to_use(i) = instruction_count

HasMapper(t) == \E k \in 1..Len(branchq) : branchq[k].tag = t
GetElement(t) == branchq[CHOOSE k \in 1..Len(branchq) : branchq[k].tag = t]

(* MiniStallQ::GetNext drops the entries of flushed instructions.          *)
Asleep == SelectSeq(BranchDepQ, LAMBDA t : t \in Tags)

(* The instructions is when i is done with exception e, the registers rs   *)
(* are no longer waited for and the speculations in slots are settled.     *)
Marked(is, i, e, rs, slots) ==
  [k \in 1..Len(is) |->
     [is[k] EXCEPT !.done = @ \/ is[k].tag = i.tag,
                   !.exception = IF is[k].tag = i.tag THEN e ELSE @,
                   !.truedep = @ /\ ~ \E r \in rs : <<r, is[k].tag>> \in dist_stallq,
                   !.branchdep = IF is[k].tag \in slots THEN 0 ELSE @]]

Woken(rs) == {w \in dist_stallq : w[1] \in rs}
Dests(i) == {i.prd, i.prcc}

(* update_cycle's last part, after a misprediction has left the            *)
(* instructions is and freed the registers given.                          *)
Finish(is, i, e, given, slots) ==
  LET rs == given \cup Dests(i)
  IN /\ insts' = Marked(is, i, e, rs, slots)
     /\ busy' = busy \ rs /\ dist_stallq' = dist_stallq \ Woken(rs)
     /\ free' = addfreereg(given)

FinishOnly(i, e, slots) ==
  Finish(insts, i, e, {}, slots) /\ UNCHANGED <<active_list, map, stallq, winVars>>

(* update_cycle's first part: i stopped the rest and has completed.        *)
StallOver(i) ==
  IF stall_the_rest = i.tag /\ i.branchdep = 0 /\ ~unpredbranch
    THEN Unstall ELSE UNCHANGED <<stall_the_rest, type_of_stall_rest>>

CompletePlain(i, e) ==
  /\ i.code.br = "none"
  /\ FinishOnly(i, e, {}) /\ StallOver(i) /\ UNCHANGED <<specVars, rfatal>>

(* HandleUnPredicted: the target is known, fetch goes on.                  *)
CompleteJump(i, e) ==
  /\ i.code.br = "jump"
  /\ FinishOnly(i, e, {tag_to_use(i)}) /\ unpredbranch' = FALSE
  /\ IF stall_the_rest = i.tag \/ type_of_stall_rest = "BADBR"
       THEN Unstall ELSE UNCHANGED <<stall_the_rest, type_of_stall_rest>>
  /\ rfatal' = IF SlotMissing(i) \/ tag_to_use(i) \in Tags THEN rfatal ELSE "no delay slot"
  /\ UNCHANGED <<branchq, BranchDepQ, copymappernext>>

(* GoodPrediction and BadPrediction when the delay slot is not there yet.  *)
ResolveEarly(i, e) ==
  /\ Predicted(i) /\ SlotMissing(i)
  /\ FinishOnly(i, e, {}) /\ StallOver(i) /\ copymappernext' = FALSE
  /\ UNCHANGED <<branchq, BranchDepQ, unpredbranch, rfatal>>

(* The branch or delay slot t got no shadow mapper: it stops the rest, and *)
(* if anything sleeps it is t.                                             *)
ForgetSleeper(t) ==
  /\ BranchDepQ' = IF Asleep = <<>> THEN <<>> ELSE Tail(Asleep)
  /\ rfatal' = IF stall_the_rest # t \/ (Asleep # <<>> /\ Head(Asleep) # t)
                 THEN "BRANCH STALLING" ELSE rfatal

(* RemoveFromBranchQ: the mapper of t goes to the branch that sleeps for   *)
(* one, which copies the mappers of the moment.                            *)
RemoveFromBranchQ(t) ==
  LET rest == SelectSeq(branchq, LAMBDA b : b.tag # t)
  IN IF Asleep = <<>>
       THEN branchq' = rest /\ BranchDepQ' = <<>> /\ UNCHANGED rfatal
       ELSE /\ branchq' = Append(rest, AddBranchQ(Head(Asleep), map))
            /\ BranchDepQ' = Tail(Asleep)
            /\ rfatal' = IF Len(rest) >= MAX_SPEC \/ stall_the_rest # Head(Asleep)
                           THEN "REVIVING" ELSE rfatal

GoodPrediction(i, e) ==
  LET t == tag_to_use(i)
  IN /\ Predicted(i) /\ ~SlotMissing(i)
     /\ UNCHANGED <<copymappernext, unpredbranch>>
     /\ \/ /\ HasMapper(t) /\ RemoveFromBranchQ(t)
           /\ FinishOnly(i, e, IF Asleep = <<>> THEN {} ELSE {Head(Asleep)})
           /\ IF Asleep = <<>> THEN StallOver(i) ELSE Unstall
        \/ /\ ~HasMapper(t) /\ t \in Tags /\ Inst(t).branchdep = 2
           /\ ForgetSleeper(t) /\ FinishOnly(i, e, {t}) /\ Unstall /\ UNCHANGED branchq
        \/ /\ ~HasMapper(t) /\ t \in Tags /\ Inst(t).branchdep # 2
           /\ FinishOnly(i, e, {}) /\ StallOver(i)
           /\ UNCHANGED <<branchq, BranchDepQ, rfatal>>
        \/ /\ ~HasMapper(t) /\ t \notin Tags /\ rfatal' = "no delay slot"
           /\ FinishOnly(i, e, {}) /\ UNCHANGED <<branchq, BranchDepQ, stall_the_rest, type_of_stall_rest>>
-----------------------------------------------------------------------------
(***************************************************************************)
(* Flushing (FlushStallQ, FlushActiveList): everything younger than t.     *)
(* Each flushed instruction gives back what it renamed, its busy bits and  *)
(* its window change; an instruction renamed by half is dropped from the   *)
(* tag converter only, whose tail then is not the active list's.           *)
(***************************************************************************)
Younger(t) == SelectSeq(insts, LAMBDA i : i.tag > t)
Given(is) == UNION {IF is[k].strucdep = 0 THEN Dests(is[k]) ELSE {} : k \in 1..Len(is)}
HalfRenamed(is) == \E k \in 1..Len(is) : is[k].strucdep = 5

MutWindowChange(i) == i.code.wp  \* also of a save that never moved
WindowChange(i) == IF i.strucdep = 2 \/ i.exception = "WINTRAP" THEN 0 ELSE i.code.wp
UndoWindows(is, more) ==
  LET w == FoldSeq(LAMBDA i, sum : WindowChange(i) + sum, 0, is)
  IN /\ cwp' = (cwp - w) % NUM_WINS
     /\ CANSAVE' = CANSAVE - w - more /\ CANRESTORE' = CANRESTORE + w + more

(* CopyBranchQ: the mappers of before the speculation.                     *)
CopyBranchQ(t) == GetElement(t).specmap
FlushBranchQ(t) == SelectSeq(branchq, LAMBDA b : b.tag < t)

MutFlushRest(t) ==  \* the flushed instruction still stops the rest
  /\ stallq' = SelectSeq(stallq, LAMBDA s : s <= t)
  /\ copymappernext' = FALSE /\ unpredbranch' = FALSE
  /\ UNCHANGED <<stall_the_rest, type_of_stall_rest>>
FlushRest(t) ==
  /\ stallq' = SelectSeq(stallq, LAMBDA s : s <= t)
  /\ copymappernext' = FALSE /\ unpredbranch' = FALSE /\ Unstall

BadPrediction(i, e) ==
  LET t == tag_to_use(i)
      gone == Younger(t)
      unsaved == t \in Tags /\ Inst(t).branchdep = 2
  IN /\ Predicted(i) /\ ~SlotMissing(i)
     /\ Finish(SelectSeq(insts, LAMBDA j : j.tag <= t), i, e, Given(gone),
               IF unsaved THEN {t} ELSE {})
     /\ map' = IF ~unsaved /\ HasMapper(t) THEN CopyBranchQ(t) ELSE map
     /\ branchq' = FlushBranchQ(t)
     /\ active_list' = SelectSeq(active_list, LAMBDA a : a.tag <= t)
     /\ UndoWindows(gone, 0) /\ FlushRest(t)
     /\ IF t \notin Tags THEN rfatal' = "no delay slot" /\ UNCHANGED BranchDepQ
        ELSE IF HalfRenamed(gone) THEN rfatal' = "TCT" /\ UNCHANGED BranchDepQ
        ELSE IF unsaved THEN ForgetSleeper(t)
        ELSE UNCHANGED <<BranchDepQ, rfatal>>

(* update_cycle, for one finished instruction.  Only instructions that are *)
(* no branches raise exceptions here.                                      *)
Complete(k, e) ==
  LET i == insts[k]
  IN /\ rfatal = "none" /\ in_exception = 0
     /\ ~i.done /\ i.strucdep = 0 /\ ~i.truedep
     /\ IF i.exception = "WINTRAP" THEN e = "WINTRAP"
        ELSE e = "OK" \/ (e = "TRAP" /\ i.code.br = "none")
     /\ \/ CompletePlain(i, e) \/ CompleteJump(i, e)
        \/ ResolveEarly(i, e) \/ GoodPrediction(i, e) \/ BadPrediction(i, e)
     /\ UNCHANGED <<instruction_count, in_exception, max_active_list_size>>

(* flag_exception_in_active_list: the memory unit recalls the value of a   *)
(* load that ran ahead.                                                    *)
FlagException(k) ==
  /\ rfatal = "none" /\ insts[k].done /\ insts[k].code.load /\ insts[k].exception = "OK"
  /\ insts' = [insts EXCEPT ![k].exception = "SOFT"]
  /\ UNCHANGED <<regVars, specVars, stallVars, winVars, instruction_count,
                 in_exception, max_active_list_size, rfatal>>
-----------------------------------------------------------------------------
(***************************************************************************)
(* Graduation and exceptions.                                              *)
(***************************************************************************)
(* The head of the active list belongs to the head of the tag converter.   *)
HeadEntries == Len(active_list) >= 2 /\ \A k \in 1..2 : active_list[k].tag = Head(insts).tag

(* remove_from_active_list: both old mappings are free.                    *)
OldMappings == {active_list[k].phyreg : k \in 1..2}

Graduate ==
  /\ rfatal = "none" /\ in_exception = 0
  /\ insts # <<>> /\ Head(insts).done /\ Head(insts).exception = "OK"
  /\ rfatal' = IF ~HeadEntries THEN "UTh"
               ELSE IF Dests(Head(insts)) \cap busy # {} THEN "BUSY" ELSE rfatal
  /\ free' = addfreereg(OldMappings)
  /\ active_list' = Tail(Tail(active_list)) /\ insts' = Tail(insts)
  /\ UNCHANGED <<map, busy, dist_stallq, specVars, stallVars, winVars,
                 instruction_count, in_exception, max_active_list_size>>

(* ExceptionHandler: flush everything and start again from the logical     *)
(* registers.  A window trap's routine spills or fills a window; a system  *)
(* trap may turn the detailed simulation off and on.                       *)
ExceptionHandler ==
  LET h == Head(insts)
  IN /\ insts' = <<>> /\ active_list' = <<>>
     /\ map' = [r \in Regs |-> r] /\ free' = IntSpare \cup FpSpare /\ busy' = {}
     /\ dist_stallq' = dist_stallq \ Woken(Given(insts))
     /\ branchq' = FlushBranchQ(h.tag) /\ UNCHANGED BranchDepQ
     /\ FlushRest(0)
     /\ UndoWindows(insts, IF h.exception = "WINTRAP" THEN h.code.wp ELSE 0)
     /\ \/ UNCHANGED max_active_list_size
        \/ h.exception = "TRAP" /\ max_active_list_size' \in {2, MAX_ACTIVE_NUMBER}
     /\ rfatal' = IF HalfRenamed(insts) THEN "TCT" ELSE rfatal
     /\ in_exception' = 0 /\ UNCHANGED instruction_count

Excepting ==
  /\ rfatal = "none" /\ in_exception = 0
  /\ insts # <<>> /\ Head(insts).done /\ Head(insts).exception # "OK"

(* PreExceptionHandler: a soft exception is taken at once, a hard one when *)
(* the stores before it have issued.                                       *)
TakeException == Excepting /\ ExceptionHandler

HoldException ==
  /\ Excepting /\ Head(insts).exception # "SOFT"
  /\ in_exception' = Head(insts).tag /\ active_list' = Tail(active_list)
  /\ UNCHANGED <<insts, map, free, busy, dist_stallq, specVars, stallVars, winVars,
                 instruction_count, max_active_list_size, rfatal>>

TakeHeldException == rfatal = "none" /\ in_exception # 0 /\ ExceptionHandler

(* The bound on instructions is reached and the processor is empty.        *)
Drained == insts = <<>> /\ instruction_count > MaxTag /\ UNCHANGED vars

Next ==
  \/ \E c \in Codes : Decode(c)
  \/ DecodeStalled
  \/ \E k \in 1..Len(insts), e \in Exceptions : Complete(k, e)
  \/ \E k \in 1..Len(insts) : FlagException(k)
  \/ Graduate \/ TakeException \/ HoldException \/ TakeHeldException
  \/ Drained

Spec == Init /\ [][Next]_vars
-----------------------------------------------------------------------------
(***************************************************************************)
(* Safety properties.                                                      *)
(***************************************************************************)
Positions == 1..Len(insts)
Entries == 1..Len(active_list)
Mapped == {map[r] : r \in Regs}
Old == {active_list[k].phyreg : k \in Entries}

(* None of the exit()s of the pipeline is reached: the tag converter and   *)
(* the active list agree at both ends, a graduating instruction's          *)
(* registers have been written, a slept branch can be revived, and the     *)
(* active list is never full between an instruction's two entries.         *)
NoFatal == rfatal = "none"

(* Each physical register is in exactly one place: free, mapped, or an old *)
(* mapping kept until the instruction that replaced it graduates.  None is *)
(* lost or handed out twice, whatever is flushed or retried.  (While an    *)
(* exception is held, one of its old mappings has left the active list.)   *)
RegisterPartition ==
  in_exception = 0 =>
    /\ \A r, s \in Regs : map[r] = map[s] => r = s
    /\ \A j, k \in Entries : active_list[j].phyreg = active_list[k].phyreg
                               => j = k \/ active_list[j].phyreg = ZEROREG
    /\ Mapped \cap Old \subseteq {ZEROREG}
    /\ free \cap (Mapped \cup Old) = {}
    /\ free \cup Mapped \cup Old = Phys

(* The mapping as it was after instruction t: undo the younger entries.    *)
MapAfter(t) ==
  [r \in Regs |->
     LET later == {k \in Entries : active_list[k].tag > t /\ active_list[k].logicalreg = r}
     IN IF later = {} THEN map[r]
        ELSE active_list[CHOOSE k \in later : \A j \in later : k <= j].phyreg]

(* Restoring a shadow mapper is the same as undoing, one by one, the       *)
(* renamings of everything younger: also for a mapper that was given late, *)
(* to a branch that slept while older ones resolved.                       *)
ShadowMapsExact ==
  \A k \in 1..Len(branchq) : branchq[k].specmap = MapAfter(branchq[k].tag)

(* A speculation can always be undone: an unresolved branch whose delay    *)
(* slot is there has a shadow mapper, or nothing younger was decoded.      *)
Unresolved(i) == Predicted(i) /\ ~i.done /\ ~SlotMissing(i)
SpeculationCovered ==
  \A k \in Positions : Unresolved(insts[k]) =>
    LET t == tag_to_use(insts[k])
    IN HasMapper(t) \/ (t \in Tags /\ Inst(t).branchdep = 2 /\ Last(insts).tag = t)

(* Shadow mappers are held by unresolved branches only, one each: none is  *)
(* left behind by a flush, which would stop the fetch for ever.            *)
MappersInUse ==
  /\ Len(branchq) <= MAX_SPEC
  /\ \A k \in 1..Len(branchq) :
       \E j \in Positions : Unresolved(insts[j]) /\ tag_to_use(insts[j]) = branchq[k].tag

(* An instruction that has not executed reads the registers its program    *)
(* order says: its source is still the mapping at its place in the window, *)
(* neither freed nor handed to another instruction.                        *)
SourcesLive ==
  \A k \in Positions : ~insts[k].done =>
    /\ insts[k].prs = MapAfter(insts[k].tag - 1)[insts[k].code.rs]
    /\ insts[k].prs \notin free

(* Whoever waits for a register waits for an older instruction that will   *)
(* write it, and is on that register's queue to be woken.                  *)
WaitsForProducer ==
  \A k \in Positions : (insts[k].strucdep = 0 /\ insts[k].truedep) =>
    /\ <<insts[k].prs, insts[k].tag>> \in dist_stallq
    /\ insts[k].prs \in busy
    /\ \E j \in 1..(k - 1) : ~insts[j].done /\ insts[j].strucdep = 0 /\ insts[k].prs \in Dests(insts[j])

(* The comment of check_dependencies: the active list grows in pairs and   *)
(* there is a register for each of its entries, so an instruction that got *)
(* its first destination gets its second at once.                          *)
NeverHalfRenamed == ~HalfRenamed(insts)

(* The pool of instances (MAX_ACTIVE_INSTS + 1) never runs dry: the window *)
(* and at most one instruction that waits to enter it.                     *)
PoolOK == /\ Len(insts) <= MAX_ACTIVE_NUMBER \div 2 + 1
          /\ Len(stallq) <= 1
          /\ stallq # <<>> => Last(insts).tag = stallq[1] /\ Last(insts).strucdep # 0

(* Decoding is stopped only for a reason that will go away: by the         *)
(* youngest instruction, which waits to be renamed, for a shadow mapper    *)
(* while all are in use, or for an unpredicted jump before it.             *)
StallJustified ==
  stall_the_rest # 0 =>
    /\ insts # <<>> /\ Last(insts).tag = stall_the_rest
    /\ \/ stallq = <<stall_the_rest>>
       \/ /\ Last(insts).branchdep = 2 /\ stall_the_rest \in {BranchDepQ[k] : k \in 1..Len(BranchDepQ)}
          /\ Len(branchq) = MAX_SPEC
       \/ /\ unpredbranch
          /\ \E k \in Positions : insts[k].code.br = "jump" /\ ~insts[k].done
                                  /\ insts[k].tag + 1 = stall_the_rest

(* A save is renamed only with a window to save into, a restore only with  *)
(* one to restore, and a flush takes back exactly the changes made.        *)
WindowsInRange == CANSAVE \in 0..(NUM_WINS - 2) /\ CANRESTORE \in 0..(NUM_WINS - 2)

(* No physical register is lost, doubled or freed while it may be read.    *)
RegistersConserved == RegisterPartition /\ SourcesLive

(* The shadow mappers are those of the speculations there are, and each    *)
(* restores what it should.                                                *)
MappersConsistent == ShadowMapsExact /\ SpeculationCovered /\ MappersInUse

(* Nobody sleeps, and decoding does not stop, without a reason that ends.  *)
NobodyForgotten == WaitsForProducer /\ StallJustified

(* The structures of the window agree, at both ends and at their limits.   *)
WindowConsistent == TypeOK /\ NoFatal /\ NeverHalfRenamed /\ PoolOK /\ WindowsInRange
=============================================================================
