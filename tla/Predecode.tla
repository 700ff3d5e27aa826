----------------------------- MODULE Predecode ------------------------------
(***************************************************************************)
(* The predecoder (predecode_instr.cc, predecode_table.cc): from the       *)
(* fields of an instruction word to the fields that the pipeline reads.    *)
(*                                                                         *)
(* A raw instruction is a record of the fields that the format functions   *)
(* extract, registers by their names; Format says which function reads     *)
(* them.  The two tables of opcodes are the names of the instructions.     *)
(***************************************************************************)
EXTENDS Integers, Sequences

----------------------------------------------------------------------------
(* The opcode tables: for each format function the instructions that the   *)
(* table sends to it.                                                      *)

Arith3 == {"ADD", "AND", "OR", "XOR", "SUB", "ANDN", "ORN", "XNOR"}
Arith3sc == {"ADDC", "SUBC"}
Arith3cc == {"ADDcc", "ANDcc", "ORcc", "XORcc", "SUBcc", "ANDNcc", "ORNcc", "XNORcc"}
Arith3sccc == {"ADDCcc", "SUBCcc"}
Arith3x == {"MULX", "UDIVX", "SDIVX"}
Arith3y == {"UMUL", "SMUL", "UDIV", "SDIV", "UDIVcc", "SDIVcc",
            "MULScc", "UMULcc", "SMULcc"}
Tagged == {"TADDcc", "TSUBcc", "TADDccTV", "TSUBccTV"}
Shift == {"SLL", "SRL", "SRA"}
IntBranch == {"Bicc", "BPcc"}
FpBranch == {"FBfcc", "FBPfcc"}
Branches == IntBranch \cup FpBranch \cup {"BPr"}
Reserved == {"RESERVED", "IMPDEP1", "IMPDEP2", "Tcc"}
Privileged == {"RDPR", "WRPR", "FLUSHW", "SAVRESTD", "DONERETRY"}
StateOps == {"arithSPECIAL1", "arithSPECIAL2"}

\* Floating point: from two registers, from one, with the formats in order
\* source and destination, s single, d double (q, quad, is handled as one).
Fp3s == {"FADDs", "FSUBs", "FMULs", "FDIVs"}
Fp3 == {"FADDd", "FSUBd", "FMULd", "FDIVd", "FADDq", "FSUBq", "FMULq", "FDIVq", "FdMULq"}
Fp3sd == {"FsMULd"}
Fp2s == {"FMOVs", "FNEGs", "FABSs", "FSQRTs", "FiTOs", "FsTOi"}
Fp2 == {"FMOVd", "FNEGd", "FABSd", "FSQRTd", "FMOVq", "FNEGq", "FABSq", "FSQRTq",
        "FdTOx", "FqTOx", "FxTOd", "FxToq", "FqTOd", "FdTOq"}
Fp2sd == {"FiTOd", "FsTOd", "FsTOx", "FiTOq", "FsTOq"}
Fp2ds == {"FdTOs", "FdTOi", "FxTOs", "FqTOs", "FqTOi"}
FcmpS == {"FCMPs", "FCMPEs"}
FcmpD == {"FCMPd", "FCMPEd", "FCMPq", "FCMPEq"}
FMovS == {"FMOVs0", "FMOVRs"}

\* What becomes of a store to one of the address spaces for remote writes.
RemoteWrites == {"RWWT_I", "RWWTI_I", "RWWS_I", "RWWT_F", "RWWTI_F", "RWWS_F"}

\* Memory: loads, stores, and both at once; those of the alternate address
\* spaces end in A.
LoadInt == {"LDUW", "LDUB", "LDUH", "LDSW", "LDSB", "LDSH", "LDX", "LDSTUB"}
             \cup {"LDUWA", "LDUBA", "LDUHA", "LDSWA", "LDSBA", "LDSHA", "LDXA", "LDSTUBA"}
LoadPair == {"LDD", "LDDA"}
LoadFp == {"LDDF", "LDQF", "LDDFA", "LDQFA"}
LoadHalf == {"LDF", "LDFA"}
LoadState == {"LDFSR", "LDXFSR"}
Prefetches == {"PREFETCH", "PREFETCHA"}
StoreInt == {"STW", "STB", "STH", "STX"}
StoreAlt == {"STWA", "STBA", "STHA", "STXA"}
StorePair == {"STD", "STDA"}
StoreFp == {"STDF", "STQF"}
StoreFpAlt == {"STDFA", "STQFA"}
StoreHalf == {"STF", "STFA"}
StoreState == {"STFSR", "STXFSR"}
Swaps == {"SWAP", "SWAPA"}
Cas == {"CASA", "CASXA"}

----------------------------------------------------------------------------
(* The tables of the memory instructions.  Only for them is the unit uMEM. *)

MemInstr ==
  UNION {LoadInt, LoadPair, LoadFp, LoadHalf, LoadState, Prefetches, StoreInt, StoreAlt,
         StorePair, StoreFp, StoreFpAlt, StoreHalf, StoreState, Swaps, Cas, {"FLUSH"}}
Unit(op) == IF op \in MemInstr \cup {"FLUSHW"} \cup RemoteWrites THEN "MEM" ELSE "ALU"

mem_length(op) ==
  CASE op \in {"LDUB", "STB", "LDSB", "LDSTUB", "LDUBA", "STBA", "LDSBA", "LDSTUBA",
               "PREFETCH"} -> 1
    [] op \in {"LDUH", "STH", "LDSH", "LDUHA", "STHA", "LDSHA"} -> 2
    [] op \in {"LDD", "STD", "LDX", "STX", "LDDA", "STDA", "LDXA", "STXA", "LDXFSR",
               "STXFSR", "LDDF", "STDF", "LDDFA", "STDFA", "CASXA"}
              \cup {"RWWT_F", "RWWTI_F", "RWWS_F"} -> 8
    [] op \in {"LDQF", "STQF", "LDQFA", "STQFA"} -> 16
    [] op \in {"FLUSH", "FLUSHW"} -> 0
    [] OTHER -> 4

----------------------------------------------------------------------------
(* The format functions.  A field that none of them sets is 0.             *)

\* uncond_branch: 0 no, 1 to a computed address, 2 to an immediate one,
\* 3 a call, 4 probably a return.
Blank == [instruction |-> "RESERVED", rd |-> "g0", rcc |-> "g0", rs1 |-> "g0",
          rs2 |-> "g0", rscc |-> "g0", aux1 |-> FALSE, aux2 |-> "N", imm |-> 0,
          rd_regtype |-> "INT", rs1_regtype |-> "INT", rs2_regtype |-> "INT",
          taken |-> FALSE, annul |-> FALSE, cond_branch |-> FALSE,
          uncond_branch |-> 0, wpchange |-> 0]

Op(u) == [Blank EXCEPT !.instruction = u.op]

\* rs2, or an immediate.
Second(in, u) == [in EXCEPT !.aux1 = u.i, !.imm = IF u.i THEN u.imm ELSE 0,
                            !.rs2 = IF u.i THEN "g0" ELSE u.rs2]
Operands(u) == Second([Op(u) EXCEPT !.rd = u.rd, !.rs1 = u.rs1], u)

\* Y and icc, as source and as destination; a division that should set icc
\* has neither, because its name is compared with an opcode.
DecodeArith(u) ==
  [Operands(u) EXCEPT
    !.rscc = CASE u.op \in Arith3sc \cup Arith3sccc -> "icc"
               [] u.op \in {"SDIV", "UDIV"} -> "y"
               [] OTHER -> "g0",
    !.rcc = CASE u.op \in Arith3cc \cup Arith3sccc \cup Tagged -> "icc"
              [] u.op \in {"SMUL", "UMUL"} -> "y"
              [] OTHER -> "g0"]

DecodeWindow(u) ==
  [Operands(u) EXCEPT !.wpchange = IF u.op = "SAVE" THEN -1 ELSE 1]

\* The count of a shift is in five bits or six, without a sign.
DecodeShift(u) == Operands(u)

\* A conditional move reads what it overwrites.
Move(u) == [Second([Op(u) EXCEPT !.rd = u.rd, !.rs1 = u.rd], u) EXCEPT !.aux2 = u.cond]
DecodeMovcc(u) == [Move(u) EXCEPT !.rscc = u.cc]
DecodeMovr(u) == [Move(u) EXCEPT !.rscc = u.rs1]

\* The condition of a floating-point move goes to aux1, where its function
\* does not look for it: aux2 stays "never".
FMove(u, type) ==
  [Op(u) EXCEPT !.rd = u.rd, !.rs1 = u.rd, !.rs2 = u.rs2, !.rd_regtype = type,
                !.rs1_regtype = type, !.rs2_regtype = type]
TypeOfFMove(u) == IF u.op \in FMovS THEN "FPHALF" ELSE "FP"
DecodeFMovcc(u) == [FMove(u, TypeOfFMove(u)) EXCEPT !.rscc = u.cc]
DecodeFMovr(u) == [FMove(u, TypeOfFMove(u)) EXCEPT !.rscc = u.rs1]

Popc(u) == Second([Op(u) EXCEPT !.rd = u.rd], u)

\* Reading and writing a state register is a move from rs1 to rd.  The
\* condition codes are one register; reading MEMBAR is a barrier.
DecodeState(u) ==
  LET StateReg(r) == IF r = "ccr" THEN "icc" ELSE r
  IN [Op(u) EXCEPT !.rd = StateReg(u.rd), !.rs1 = StateReg(u.rs1)]

FpFormat(u, rdt, rst) ==
  [Op(u) EXCEPT !.rd = u.rd, !.rs1 = u.rs1, !.rs2 = u.rs2, !.rd_regtype = rdt,
                !.rs1_regtype = rst, !.rs2_regtype = rst]
DecodeFp3(u) ==
  FpFormat(u, IF u.op \in Fp3s THEN "FPHALF" ELSE "FP",
              IF u.op \in Fp3 THEN "FP" ELSE "FPHALF")
DecodeFp2(u) ==
  [FpFormat(u, IF u.op \in Fp2s \cup Fp2ds THEN "FPHALF" ELSE "FP",
               IF u.op \in Fp2s \cup Fp2sd THEN "FPHALF" ELSE "FP")
    EXCEPT !.rs1 = "g0", !.rs1_regtype = "INT"]
DecodeFcmp(u) ==
  [FpFormat(u, "INT", IF u.op \in FcmpS THEN "FPHALF" ELSE "FP") EXCEPT !.rd = u.cc]

\* A branch always has no register to wait for.  The old formats take the
\* hint from the direction.
DecodeBranch(u) ==
  LET always == u.op # "BPr" /\ u.cond = "A" IN
  [Op(u) EXCEPT
    !.imm = u.imm, !.aux2 = u.cond, !.annul = u.annul,
    !.taken = IF u.op \in {"Bicc", "FBfcc"} THEN u.imm < 0 ELSE u.taken,
    !.uncond_branch = IF always THEN 2 ELSE 0,
    !.cond_branch = ~always,
    !.rs1 = IF u.op = "BPr" THEN u.rs1
            ELSE IF always THEN "g0"
            ELSE IF u.op \in IntBranch THEN "icc" ELSE u.cc]

\* A call leaves its own address in %o7.
DecodeCall(u) == [Op(u) EXCEPT !.rd = "o7", !.imm = u.imm, !.uncond_branch = 3]

\* A jump two instructions behind the address that a call left is a return.
DecodeJump(u, size) ==
  LET in == Operands(u)
      return == in.imm = 2 * size /\ in.rs1 \in {"o7", "i7"}
  IN IF u.op = "JMPL" THEN [in EXCEPT !.uncond_branch = IF return THEN 4 ELSE 1]
     ELSE [in EXCEPT !.rd = "g0", !.uncond_branch = 4, !.wpchange = 1]

DecodeSethi(u) == [Op(u) EXCEPT !.rd = u.rd, !.imm = u.imm]

\* The hook for system calls passes %o0.
DecodeTrap(u) ==
  [Op(u) EXCEPT !.rs1 = "o0", !.rd = "o0", !.rs2_regtype = "FP", !.rs2 = "f0",
                !.aux2 = u.cond]

\* The address is rs2 and an immediate, or rs2 and rscc.
Address(in, u) == [in EXCEPT !.rs2 = u.rs1, !.aux1 = u.i,
                             !.imm = IF u.i THEN u.imm ELSE 0,
                             !.rscc = IF u.i THEN "g0" ELSE u.rs2]

DecodeLoad(u) ==
  Address([Op(u) EXCEPT
    !.rd = u.rd,
    !.rd_regtype = CASE u.op \in LoadPair -> "INTPAIR"
                     [] u.op \in LoadFp -> "FP"
                     [] u.op \in LoadHalf -> "FPHALF"
                     [] OTHER -> "INT"], u)
DecodeLoadState(u) ==
  Address([Op(u) EXCEPT !.rd_regtype = IF u.op = "LDXFSR" THEN "INT64" ELSE "INT"], u)
DecodePrefetch(u) == Address(Op(u), u)

\* What is stored is rs1.
DecodeStore(u) ==
  Address([Op(u) EXCEPT
    !.rs1 = u.rd,
    !.rs1_regtype = CASE u.op \in StorePair -> "INTPAIR"
                      [] u.op \in StoreFp \cup StoreFpAlt -> "FP"
                      [] u.op \in StoreHalf -> "FPHALF"
                      [] OTHER -> "INT"], u)

\* Some address spaces make a store a remote write; one of them, that of the
\* write-send with invalidation, makes it a write-through.
RemoteWrite(u) ==
  IF u.i THEN u.op
  ELSE CASE u.op = "STWA" /\ u.asi \in {"RW_WT_I", "RW_WSI_I"} -> "RWWT_I"
         [] u.op = "STWA" /\ u.asi = "RW_WTI_I" -> "RWWTI_I"
         [] u.op = "STWA" /\ u.asi = "RW_WS_I" -> "RWWS_I"
         [] u.op = "STDFA" /\ u.asi \in {"RW_WT_F", "RW_WSI_F"} -> "RWWT_F"
         [] u.op = "STDFA" /\ u.asi = "RW_WTI_F" -> "RWWTI_F"
         [] u.op = "STDFA" /\ u.asi = "RW_WS_F" -> "RWWS_F"
         [] OTHER -> u.op
DecodeStoreAlt(u) == [DecodeStore(u) EXCEPT !.instruction = RemoteWrite(u)]
DecodeStoreState(u) ==
  Address([Op(u) EXCEPT !.rs1_regtype = IF u.op = "STXFSR" THEN "INT64" ELSE "INT"], u)

DecodeSwap(u) == Address([Op(u) EXCEPT !.rd = u.rd, !.rs1 = u.rd], u)

\* The operands are decoded as those of an addition: rs1 is not in the address.
DecodeFlush(u) == Second([Op(u) EXCEPT !.rs1 = u.rs1], u)

\* Compare with rs1, exchange rscc; the address is rs2.
DecodeCas(u) == [Op(u) EXCEPT !.rd = u.rd, !.rs1 = u.rs2, !.rs2 = u.rs1, !.rscc = u.rd]

----------------------------------------------------------------------------
DecodeArithOp(u, size) ==
  CASE u.op \in {"SAVE", "RESTORE"} -> DecodeWindow(u)
    [] u.op \in Shift -> DecodeShift(u)
    [] u.op = "MOVcc" -> DecodeMovcc(u)
    [] u.op = "MOVR" -> DecodeMovr(u)
    [] u.op \in StateOps -> DecodeState(u)
    [] u.op \in Fp3 \cup Fp3s \cup Fp3sd -> DecodeFp3(u)
    [] u.op \in Fp2 \cup Fp2s \cup Fp2sd \cup Fp2ds -> DecodeFp2(u)
    [] u.op \in FcmpS \cup FcmpD -> DecodeFcmp(u)
    [] u.op \in {"FMOVRs", "FMOVRd"} -> DecodeFMovr(u)
    [] u.op \in {"FMOVs0", "FMOVd0"} -> DecodeFMovcc(u)
    [] u.op = "POPC" -> Popc(u)
    [] u.op \in {"JMPL", "RETURN"} -> DecodeJump(u, size)
    [] u.op \in Reserved \cup Privileged -> Op(u)
    [] OTHER -> DecodeArith(u)

DecodeMem(u) ==
  CASE u.op \in LoadInt \cup LoadPair \cup LoadFp \cup LoadHalf -> DecodeLoad(u)
    [] u.op \in LoadState -> DecodeLoadState(u)
    [] u.op \in Prefetches -> DecodePrefetch(u)
    [] u.op \in StoreAlt \cup StoreFpAlt -> DecodeStoreAlt(u)
    [] u.op \in StoreState -> DecodeStoreState(u)
    [] u.op \in Swaps -> DecodeSwap(u)
    [] u.op \in Cas -> DecodeCas(u)
    [] u.op = "FLUSH" -> DecodeFlush(u)
    [] OTHER -> DecodeStore(u)

\* size: the bytes of an instruction.
Decode(u, size) ==
  CASE u.op = "CALL" -> DecodeCall(u)
    [] u.op \in Branches -> DecodeBranch(u)
    [] u.op = "SETHI" -> DecodeSethi(u)
    [] u.op = "ILLTRAP" -> DecodeTrap(u)
    [] u.op \in MemInstr -> DecodeMem(u)
    [] OTHER -> DecodeArithOp(u, size)
=============================================================================
