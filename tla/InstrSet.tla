------------------------------ MODULE InstrSet ------------------------------
(***************************************************************************)
(* The machine that a program sees: SPARC instructions, decoded by         *)
(* Predecode and computed by Funcs, register windows that spill and fill   *)
(* through the trap table, a stack and a heap that grow, branches with     *)
(* their delay slots and predictors, and the traps to the simulator.       *)
(*                                                                         *)
(* Instructions complete one at a time, in program order: that the         *)
(* pipeline keeps up this appearance is the business of Rename and         *)
(* MemUnit.  What is left of it here is the branch that waits for its      *)
(* resolution while the delay slot completes, and the store whose value a  *)
(* later load may take before memory has it.  Instruction addresses start  *)
(* at 0, pc counts instructions.                                           *)
(***************************************************************************)
EXTENDS Funcs, TLC

CONSTANTS Globals,     \* the global registers that the programs use
          Programs,    \* records, with the predictor that is in use as "bpb"
          Code(_),     \* the instruction words of each
          Inputs(_),   \* the registers a program may start with: the others are 0
          NUM_WINS,
          SZ_BUF,      \* the entries of the branch prediction buffer
          RAS_STKSZ,   \* and of the return address stack
          ALLOC_SIZE,  \* the bytes of a page
          Heap, Stack, \* the first byte after the heap and that of the stack, at the start
          lowshared,   \* the first byte of shared memory
          Shared,      \* the bytes of shared memory that are mapped
          MAXSTACKSIZE,
          Fresh        \* what the bytes of a fresh page happen to hold

IsPower(n) == \E k \in 0 .. n : n = 2^k
ASSUME SizesAssumption ==
  /\ \A n \in {NUM_WINS, SZ_BUF, RAS_STKSZ, ALLOC_SIZE} : n \in Nat \ {0} /\ IsPower(n)
  /\ Heap % ALLOC_SIZE = 0 /\ Stack % ALLOC_SIZE = 0 /\ lowshared % ALLOC_SIZE = 0
  /\ Heap <= Stack /\ Stack <= lowshared /\ MAXSTACKSIZE \in Nat
ASSUME ProgramsAssumption ==
  \A p \in Programs : p.bpb \in {"TWOBIT", "TWOBITAGREE", "STATIC"} /\ Len(Code(p)) < 2^W \div 4

VARIABLES
  program, given,                \* what runs, with which registers
  text,                          \* the instructions, predecoded
  regs, mem, store,              \* registers by window, mapped bytes, the last store
  pc, npc, branch,               \* the branch that is not resolved
  BranchPred, PrevPred,          \* the prediction buffer
  ReturnAddressStack, rasptr,
  cwp, CANSAVE, CANRESTORE,      \* register windows
  privstate, trappc, trapnpc,    \* the trap that is being handled
  highheap, lowstack,            \* the ends of the heap and of the stack
  exception                      \* why the program ended
input == <<program, given, text>>
predictor == <<BranchPred, PrevPred, ReturnAddressStack, rasptr>>
windows == <<cwp, CANSAVE, CANRESTORE>>
trap == <<privstate, trappc, trapnpc>>
breaks == <<highheap, lowstack>>
vars == <<input, regs, mem, store, pc, npc, branch, predictor, windows, trap,
          breaks, exception>>

----------------------------------------------------------------------------
(* Registers.  The outs of a window are the ins of the one below; only the *)
(* registers that the programs use are kept.                               *)

OutToIn == [o0 |-> "i0", o1 |-> "i1", o6 |-> "i6", o7 |-> "i7"]
Kept == <<"l0", "l1", "l2", "i0", "i1", "i6", "i7">>
StateRegs == {"y", "icc", "asi", "fprs"} \cup FccRegs
FpRegs == {"f0", "f2"}
FpHome == [f0 |-> "f0", f1 |-> "f0", f2 |-> "f2", f3 |-> "f2"]
OddHalf == {"f1", "f3"}
\* The registers that may be the first of a pair, with the second.
PairOf == [o0 |-> "o1", l0 |-> "l1", i0 |-> "i1"]
Window == 0 .. NUM_WINS - 1

Register ==
  ({"g0"} \cup Globals \cup StateRegs \cup FpRegs) \X {0} \cup Range(Kept) \X Window

convert_to_logical(w, r) ==
  CASE r \in DOMAIN OutToIn -> <<OutToIn[r], (w - 1) % NUM_WINS>>
    [] r \in Range(Kept) -> <<r, w>>
    [] r = "xcc" -> <<"icc", 0>>
    [] OTHER -> <<r, 0>>

Word1(w, r) == regs[convert_to_logical(w, r)]
Read(w, type, r) ==
  LET double == regs[<<FpHome[r], 0>>]
  IN CASE type = "FP" -> double
       [] type = "FPHALF" -> IF r \in OddHalf THEN Lower(double) ELSE Upper(double)
       [] type = "INTPAIR" -> Pair(Word1(w, r), Word1(w, PairOf[r]))
       [] OTHER -> Word1(w, r)

SetWord(file, w, r, v) ==
  IF r = "g0" THEN file ELSE [file EXCEPT ![convert_to_logical(w, r)] = v]
SetReg(file, w, type, r, v) ==
  LET home == <<FpHome[r], 0>>
  IN CASE type = "FP" -> [file EXCEPT ![home] = v]
       [] type = "FPHALF" ->
            [file EXCEPT ![home] = IF r \in OddHalf THEN Pair(Upper(@), v) ELSE Pair(v, Lower(@))]
       [] type = "INTPAIR" -> SetWord(SetWord(file, w, r, Upper(v)), w, PairOf[r], Lower(v))
       [] OTHER -> SetWord(file, w, r, v)

----------------------------------------------------------------------------
(* Where instructions come from. *)

TRAPTABLE_BASE == 2^W
Handler(op) == [Blank EXCEPT !.instruction = op]
HandlerSave == [Handler("SAVE") EXCEPT !.wpchange = -1]
HandlerRestore == [Handler("RESTORE") EXCEPT !.wpchange = 1]
HandlerStore(r, base, k) ==
  [Handler("STW") EXCEPT !.rs1 = r, !.rs2 = base, !.aux1 = TRUE, !.imm = 4 * (k - 1)]
HandlerLoad(r, k) ==
  [Handler("LDUW") EXCEPT !.rd = r, !.rs2 = "o6", !.aux1 = TRUE, !.imm = 4 * (k - 1)]
SAVED == Handler("SAVRESTD")
RESTORED == [Handler("SAVRESTD") EXCEPT !.aux1 = TRUE]
DONE == Handler("DONERETRY")
RETRY == [Handler("DONERETRY") EXCEPT !.aux1 = TRUE]

Overflow ==
  <<HandlerSave, HandlerSave>>
    \o [k \in DOMAIN Kept |-> HandlerStore(Kept[k], "o6", k)]
    \o <<HandlerRestore, HandlerRestore, SAVED, RETRY>>
Underflow ==
  <<HandlerRestore>> \o [k \in DOMAIN Kept |-> HandlerLoad(Kept[k], k)]
    \o <<HandlerSave, RESTORED, RETRY>>
StoreFSR == <<HandlerSave, HandlerStore("l1", "l2", 1), HandlerRestore, DONE>>
StoreXFSR == <<HandlerSave, HandlerStore("l0", "l2", 1), HandlerStore("l1", "l2", 2),
               HandlerRestore, DONE>>
trapstable == Overflow \o Underflow \o StoreFSR \o StoreXFSR
TRAPTABLE_SAVE == TRAPTABLE_BASE
TRAPTABLE_RESTORE == TRAPTABLE_SAVE + Len(Overflow)
TRAPTABLE_STFSR == TRAPTABLE_RESTORE + Len(Underflow)
TRAPTABLE_STXFSR == TRAPTABLE_STFSR + Len(StoreFSR)

UserCode == pc \in DOMAIN text
TrapCode == privstate /\ pc - TRAPTABLE_BASE \in 0 .. Len(trapstable) - 1
Fetchable == UserCode \/ TrapCode
in == IF UserCode THEN text[pc] ELSE trapstable[pc - TRAPTABLE_BASE + 1]

----------------------------------------------------------------------------
(* What the instruction at pc computes. *)

\* The operands are read in the old window, the result goes to the new one.
rs1val == Read(cwp, in.rs1_regtype, in.rs1)
rs2val == IF in.aux1 THEN Wrap(in.imm) ELSE Read(cwp, in.rs2_regtype, in.rs2)
rsccval == Word1(cwp, in.rscc)
newcwp == (cwp + in.wpchange) % NUM_WINS

\* The window is not there: the instruction traps, except in a trap.
WindowMissing ==
  ~privstate /\ \/ in.wpchange = -1 /\ CANSAVE = 0
                \/ in.wpchange = 1 /\ CANRESTORE = 0
OddPair ==
  \/ in.rs1_regtype = "INTPAIR" /\ in.rs1 \notin DOMAIN PairOf
  \/ in.rd_regtype = "INTPAIR" /\ in.rd \notin DOMAIN PairOf

addr ==
  LET base == Word1(cwp, in.rs2)
  IN IF in.instruction \in Cas THEN base
     ELSE Wrap(base + IF in.aux1 THEN in.imm ELSE rsccval)

\* mem_length - 1 masks the address: for the length 0, all of it.
Aligned == IF mem_length(in.instruction) = 0 THEN addr = 0
           ELSE addr % mem_length(in.instruction) = 0

\* A page that is not mapped counts more than a misaligned address, and so
\* does the exception that a store of the FSR raises anyway.
AddressException ==
  IF addr \notin DOMAIN mem /\ in.instruction # "PREFETCH" THEN "SEGV"
  ELSE IF in.instruction \in StoreState THEN "SERIALIZE"
  ELSE IF ~Aligned THEN "BUSERR" ELSE "OK"

MemOutcomes ==
  IF AddressException # "OK" THEN Exc(AddressException)
  ELSE LET bytes == [k \in 1 .. Moved(in.instruction) |-> mem[addr + k - 1]]
       IN MemFunction(in, rs1val, rsccval, bytes)
            \cup Results(MemMatch(in.instruction, addr, store), 0)

Outcomes ==
  IF WindowMissing THEN Exc("WINTRAP")
  ELSE IF OddPair THEN Exc("ILLEGAL")
  ELSE IF Unit(in.instruction) = "MEM" THEN MemOutcomes
  ELSE Function(in, rs1val, rs2val, rsccval, privstate)
Raises(code) == \E out \in Outcomes : out.exc = code

----------------------------------------------------------------------------
(* Branches. *)

NoBranch == [pending |-> FALSE]
IsBranch == in.cond_branch \/ in.uncond_branch # 0
InstrNumToAddr(n) == 4 * n

BPBPredict(statpred) ==
  CASE program.bpb = "TWOBIT" -> BranchPred[pc % SZ_BUF]
    [] program.bpb = "TWOBITAGREE" -> BranchPred[pc % SZ_BUF] = statpred
    [] OTHER -> statpred

\* Two bits, which agree or not: one that agrees with the prediction is
\* contradicted twice before the prediction changes.
BPBComplete(bpc, taken, statpred) ==
  LET inbit == IF program.bpb = "TWOBIT" THEN taken ELSE taken = statpred
      posn == bpc % SZ_BUF
  IN IF program.bpb = "STATIC" THEN UNCHANGED <<BranchPred, PrevPred>>
     ELSE /\ PrevPred' = [PrevPred EXCEPT ![posn] = inbit]
          /\ BranchPred' = IF PrevPred[posn] = BranchPred[posn] THEN BranchPred
                           ELSE [BranchPred EXCEPT ![posn] = inbit]

RASInsert(retpc) ==
  /\ ReturnAddressStack' = [ReturnAddressStack EXCEPT ![rasptr] = retpc]
  /\ rasptr' = (rasptr + 1) % RAS_STKSZ
RASTop == (rasptr - 1) % RAS_STKSZ

\* A branch never is predicted taken: it serves to prefetch instructions.
Predicted ==
  CASE in.uncond_branch = 4 -> [taken |-> TRUE, to |-> ReturnAddressStack[RASTop]]
    [] in.uncond_branch = 1 -> [taken |-> TRUE, to |-> -1]
    [] OTHER -> LET takeit == in.aux2 = "N" \/ BPBPredict(in.taken)
                IN [taken |-> takeit, to |-> IF takeit THEN pc + in.imm ELSE pc + 2]

\* What the function of the branch will find: whether it is taken, and where
\* it goes; badpc for a jump between instructions.
Resolved ==
  IF in.cond_branch
  THEN [taken |-> Taken(in, rs1val), badpc |-> FALSE,
        newpc |-> IF Taken(in, rs1val) THEN pc + in.imm ELSE pc + 2]
  ELSE LET target == Wrap(rs1val + rs2val)
       IN [taken |-> TRUE, badpc |-> target % 4 # 0, newpc |-> target \div 4]

\* The window moves when the instruction is decoded; traps move it uncounted.
MoveWindow ==
  /\ cwp' = newcwp
  /\ IF privstate THEN UNCHANGED <<CANSAVE, CANRESTORE>>
     ELSE /\ CANSAVE' = CANSAVE + in.wpchange
          /\ CANRESTORE' = CANRESTORE - in.wpchange

WriteBack(out) ==
  regs' = SetWord(SetReg(regs, newcwp, in.rd_regtype, in.rd, out.rd), newcwp, in.rcc, out.rcc)

----------------------------------------------------------------------------
Page(a) == a .. a + ALLOC_SIZE - 1
Filled(S) == [a \in S |-> Fresh]
NoStore == [op |-> "none", addr |-> 0, value |-> 0]

Init ==
  /\ program \in Programs
  /\ given \in Inputs(program)
  /\ text = [k \in DOMAIN Code(program) |-> Decode(Code(program)[k], 4)]
  /\ cwp = NUM_WINS - 1 /\ CANSAVE = NUM_WINS - 2 /\ CANRESTORE = 0
  /\ regs = [r \in Register |->
               LET names == {n \in DOMAIN given : convert_to_logical(cwp, n) = r}
               IN IF names = {} THEN 0 ELSE given[CHOOSE n \in names : TRUE]]
  /\ mem = Filled((0 .. Heap - 1) \cup (Stack .. lowshared - 1) \cup Shared)
  /\ store = NoStore
  /\ pc = 1 /\ npc = 2 /\ branch = NoBranch
  /\ BranchPred = [k \in 0 .. SZ_BUF - 1 |-> TRUE]
  /\ PrevPred = [k \in 0 .. SZ_BUF - 1 |-> FALSE]
  /\ ReturnAddressStack = [k \in 0 .. RAS_STKSZ - 1 |-> 0] /\ rasptr = 0
  /\ privstate = FALSE /\ trappc = 0 /\ trapnpc = 0
  /\ highheap = Heap /\ lowstack = Stack
  /\ exception = "OK"

Running == exception = "OK" /\ Fetchable
\* While a branch waits only its delay slot is certain to be executed.
Decodable == Running /\ (branch.pending => branch.slot)
Sequential == pc' = npc /\ npc' = npc + 1

\* The functional unit or the memory is done.
Complete ==
  /\ Decodable /\ ~IsBranch
  /\ \E out \in Outcomes :
       /\ out.exc = "OK"
       /\ WriteBack(out)
       /\ mem' = IF out.bytes = << >> THEN mem
                 ELSE [a \in addr .. addr + Len(out.bytes) - 1 |-> out.bytes[a - addr + 1]] @@ mem
       /\ store' = IF out.bytes = << >> THEN store
                   ELSE [op |-> in.instruction, addr |-> addr, value |-> rs1val]
  /\ MoveWindow
  /\ Sequential
  /\ branch' = IF branch.pending THEN [branch EXCEPT !.slot = FALSE] ELSE branch
  /\ UNCHANGED <<input, predictor, trap, breaks, exception>>

\* A call or a branch always: the address is known.
BranchKnown ==
  /\ Running /\ ~branch.pending
  /\ in.uncond_branch \in {2, 3}
  /\ WriteBack([Left EXCEPT !.rd = InstrNumToAddr(pc)])
  /\ IF in.annul THEN pc' = pc + in.imm /\ npc' = pc + in.imm + 1
                 ELSE pc' = npc /\ npc' = pc + in.imm
  /\ IF in.uncond_branch = 3 THEN RASInsert(pc + 2) ELSE UNCHANGED <<ReturnAddressStack, rasptr>>
  /\ UNCHANGED <<input, mem, store, branch, BranchPred, PrevPred, windows, trap,
                 breaks, exception>>

\* The others are predicted, or stall what follows the delay slot.  An
\* annulled branch keeps its delay slot only when it is taken.
BranchPredicted ==
  /\ Running /\ ~branch.pending
  /\ in.cond_branch \/ in.uncond_branch \in {1, 4}
  /\ ~WindowMissing
  /\ WriteBack([Left EXCEPT !.rd = InstrNumToAddr(pc)])
  /\ MoveWindow
  /\ branch' = [pending |-> TRUE, pc |-> pc, slot |-> ~in.annul, annul |-> in.annul,
                cond |-> in.cond_branch, never |-> in.aux2 = "N", static |-> in.taken,
                predicted |-> Predicted, resolved |-> Resolved]
  /\ IF in.annul /\ ~Predicted.taken THEN pc' = npc + 1 /\ npc' = npc + 2
                                     ELSE pc' = npc /\ npc' = Predicted.to
  /\ rasptr' = IF in.uncond_branch = 4 THEN RASTop ELSE rasptr
  /\ UNCHANGED <<input, mem, store, BranchPred, PrevPred, ReturnAddressStack,
                 trap, breaks, exception>>

\* A misprediction goes back to the delay slot if that is still to come, or
\* was annulled by mistake; otherwise to the target.
ResolveBranch ==
  /\ exception = "OK" /\ branch.pending
  /\ ~branch.resolved.badpc
  /\ LET newpc == branch.resolved.newpc
         good == IF branch.cond THEN branch.predicted.taken = branch.resolved.taken
                 ELSE branch.predicted.to = newpc
     IN IF good THEN UNCHANGED <<pc, npc>>
        ELSE IF branch.slot \/ (branch.annul /\ ~branch.predicted.taken)
             THEN pc' = branch.pc + 1 /\ npc' = newpc
             ELSE pc' = newpc /\ npc' = newpc + 1
  /\ IF branch.cond /\ ~branch.never
     THEN BPBComplete(branch.pc, branch.resolved.taken, branch.static)
     ELSE UNCHANGED <<BranchPred, PrevPred>>
  /\ branch' = NoBranch
  /\ UNCHANGED <<input, regs, mem, store, ReturnAddressStack, rasptr, windows, trap,
                 breaks, exception>>

----------------------------------------------------------------------------
(* Exceptions, when the instruction heads the active list.                 *)

Excepting(code) == Running /\ ~branch.pending /\ ~IsBranch /\ Raises(code)

\* Enter the trap table.
TrapTableHandle(handler) ==
  /\ privstate' = TRUE /\ trappc' = pc /\ trapnpc' = npc
  /\ pc' = handler /\ npc' = handler + 1

WindowTrap ==
  /\ Running /\ ~branch.pending
  /\ WindowMissing
  /\ TrapTableHandle(IF in.wpchange = -1 THEN TRAPTABLE_SAVE ELSE TRAPTABLE_RESTORE)
  /\ rasptr' = IF in.uncond_branch = 4 THEN RASTop ELSE rasptr
  /\ store' = NoStore
  /\ UNCHANGED <<input, regs, mem, branch, BranchPred, PrevPred, ReturnAddressStack,
                 windows, breaks, exception>>

\* A fault between the heap and the stack, not too far from the top.
Growable == addr < lowshared /\ addr >= highheap /\ lowshared - addr <= MAXSTACKSIZE

\* The instruction is restarted; but its successor is taken to be the next in
\* memory, also when it is in a delay slot.
GrowStack ==
  /\ Excepting("SEGV") /\ Growable
  /\ lowstack' = (addr \div ALLOC_SIZE) * ALLOC_SIZE
  /\ mem' = mem @@ Filled(lowstack' .. lowstack - 1)
  /\ npc' = pc + 1
  /\ store' = NoStore
  /\ UNCHANGED <<input, regs, pc, branch, predictor, windows, trap, highheap,
                 exception>>

\* An instruction that runs alone, on the register file.
AfterSerialized == Sequential /\ UNCHANGED trap

SerializedMultiply ==
  /\ LET res == IF in.instruction = "MULScc"
                THEN MulStep(rs1val, rs2val, Word1(cwp, "y"), Word1(cwp, "icc"))
                ELSE MulCC(in.instruction, rs1val, rs2val)
     IN regs' = SetWord(SetWord(SetWord(regs, cwp, in.rd, res.rd), cwp, "y", res.y),
                        cwp, "icc", res.icc)
  /\ AfterSerialized /\ UNCHANGED <<CANSAVE, CANRESTORE>>

SerializedState ==
  /\ regs' = SetWord(regs, cwp, in.rd, rs1val)
  /\ AfterSerialized /\ UNCHANGED <<CANSAVE, CANRESTORE>>

\* The place of fcc0 in the FSR; its other fields are not modelled.
FccShift == (10 * W) \div 32

\* For the long form, the upper word is taken for all; shifted by a word and
\* more, what is left of it is its sign.
LoadFSR ==
  /\ \E out \in {o \in Outcomes : o.exc = "SERIALIZE"} :
       LET long == in.instruction = "LDXFSR"
           v == IF long THEN Upper(out.rd) ELSE out.rd
           sign == IF Negative(v) THEN 3 ELSE 0
       IN regs' = [r \in Register |->
                     CASE r[1] = "fcc0" -> (v \div 2^FccShift) % 4
                       [] r[1] \in FccRegs \ {"fcc0"} /\ long -> sign
                       [] OTHER -> regs[r]]
  /\ AfterSerialized /\ UNCHANGED <<CANSAVE, CANRESTORE>>

\* The handler finds the address and the value in the locals of the next
\* window; in the long form, fcc1 is shifted into the place of fcc3.
StoreFSRTrap ==
  /\ LET w == cwp - 1
         fsr == Word1(cwp, "fcc0") * 2^FccShift
         Placed(f, n) == Bits(Word1(cwp, f) * 2^n)
         upper == Word(Placed("fcc3", 4) \cup Placed("fcc2", 2) \cup Placed("fcc1", 4))
         short == SetWord(SetWord(regs, w % NUM_WINS, "l2", addr), w % NUM_WINS, "l1", fsr)
     IN regs' = IF in.instruction = "STXFSR" THEN SetWord(short, w % NUM_WINS, "l0", upper)
                ELSE short
  /\ TrapTableHandle(IF in.instruction = "STFSR" THEN TRAPTABLE_STFSR ELSE TRAPTABLE_STXFSR)
  /\ UNCHANGED <<CANSAVE, CANRESTORE>>

\* SAVED and RESTORED: one window more, or less, can be entered.
WindowSaved ==
  /\ CANSAVE' = IF in.aux1 THEN CANSAVE - 1 ELSE CANSAVE + 1
  /\ CANRESTORE' = IF in.aux1 THEN CANRESTORE + 1 ELSE CANRESTORE - 1
  /\ AfterSerialized /\ UNCHANGED regs

\* DONE goes on behind the instruction that trapped, RETRY tries it again.
MutTrapReturn ==
  /\ privstate' = FALSE
  /\ IF in.aux1 THEN pc' = trappc /\ npc' = trappc + 1 ELSE pc' = trapnpc /\ npc' = trapnpc + 1
  /\ UNCHANGED <<regs, CANSAVE, CANRESTORE, trappc, trapnpc>>

TrapReturn ==
  /\ privstate' = FALSE
  /\ IF in.aux1 THEN pc' = trappc /\ npc' = trapnpc ELSE pc' = trapnpc /\ npc' = trapnpc + 1
  /\ UNCHANGED <<regs, CANSAVE, CANRESTORE, trappc, trapnpc>>

ProcessSerializedInstruction ==
  /\ Excepting("SERIALIZE")
  /\ \/ in.instruction \in {"MULScc", "UMULcc", "SMULcc"} /\ SerializedMultiply
     \/ in.instruction = "arithSPECIAL2" /\ SerializedState
     \/ in.instruction \in LoadState /\ LoadFSR
     \/ in.instruction \in StoreState /\ StoreFSRTrap
     \/ in.instruction = "SAVRESTD" /\ WindowSaved
     \/ in.instruction = "DONERETRY" /\ TrapReturn
  /\ store' = NoStore
  /\ UNCHANGED <<input, mem, branch, predictor, cwp, breaks, exception>>

UP_TO_PAGE(n) == ((n + ALLOC_SIZE - 1) \div ALLOC_SIZE) * ALLOC_SIZE

\* The break moves up by whole pages; the old one is returned.
Sbrk ==
  LET incr == UP_TO_PAGE(rs1val)
      grows == Signed(rs1val) > 0
  IN /\ highheap' = IF grows THEN highheap + incr ELSE highheap
     /\ mem' = IF grows THEN Filled(highheap .. highheap + incr - 1) @@ mem ELSE mem
     /\ regs' = SetWord(regs, cwp, "o0", highheap)

Sym_Bzero ==
  /\ mem' = [a \in DOMAIN mem |->
               IF a \in rs1val .. rs1val + Word1(cwp, "o1") - 1 THEN 0 ELSE mem[a]]
  /\ UNCHANGED <<highheap, regs>>

Exit == exception' = "EXIT" /\ UNCHANGED <<regs, mem, highheap>>

SysTrapHandle ==
  /\ Excepting("SYSTRAP")
  /\ \/ in.aux2 = "exit" /\ Exit
     \/ in.aux2 = "sbrk" /\ Sbrk /\ UNCHANGED exception
     \/ in.aux2 = "bzero" /\ Sym_Bzero /\ UNCHANGED exception
  /\ Sequential
  /\ store' = NoStore
  /\ UNCHANGED <<input, branch, predictor, windows, trap, lowstack>>

\* The end of the simulation.
FatalCodes == {"DIV0", "FPERR", "ILLEGAL", "PRIVILEGED", "BUSERR"}
FatalException ==
  /\ exception = "OK"
  /\ \/ branch.pending /\ branch.resolved.badpc /\ exception' = "BADPC"
     \/ ~branch.pending /\ ~Fetchable /\ exception' = "BADPC"
     \/ \E code \in FatalCodes : Excepting(code) /\ exception' = code
     \/ Excepting("SEGV") /\ ~Growable /\ exception' = "SEGV"
  /\ UNCHANGED <<input, regs, mem, store, pc, npc, branch, predictor, windows, trap,
                 breaks>>

Next ==
  \/ Complete \/ BranchKnown \/ BranchPredicted \/ ResolveBranch
  \/ WindowTrap \/ GrowStack \/ ProcessSerializedInstruction \/ SysTrapHandle
  \/ FatalException

Spec == Init /\ [][Next]_vars
=============================================================================
