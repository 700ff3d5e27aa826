------------------------------- MODULE Funcs --------------------------------
(***************************************************************************)
(* The functions that emulate the instructions (funcs.cc): what each one   *)
(* computes from the values of its operands.                               *)
(*                                                                         *)
(* A word has W bits instead of 32; it is written as the natural number    *)
(* with those bits, and Signed gives the int.  A double, a pair of words   *)
(* and a long long have 2 * W bits, the even register in the upper half.   *)
(* A byte is a quarter of a word.                                          *)
(***************************************************************************)
EXTENDS Predecode, FiniteSetsExt, Functions

CONSTANT W
ASSUME WAssumption == W \in Nat \ {0} /\ W % 4 = 0

Words == 0 .. 2^W - 1
Doubles == 0 .. 2^(2 * W) - 1

WrapTo(n, x) == x % 2^n
Wrap(x) == WrapTo(W, x)
NegativeIn(n, x) == x >= 2^(n - 1)
Negative(x) == NegativeIn(W, x)
SignedIn(n, x) == IF NegativeIn(n, x) THEN x - 2^n ELSE x
Signed(x) == SignedIn(W, x)
Upper(d) == d \div 2^W
Lower(d) == d % 2^W
Pair(a, b) == a * 2^W + b
Bits(x) == {b \in 0 .. W - 1 : (x \div 2^b) % 2 = 1}
Word(S) == MapThenSumSet(LAMBDA b : 2^b, S)
Not(x) == 2^W - 1 - x
Abs(x) == IF x < 0 THEN -x ELSE x

\* Division in C truncates towards 0.
Truncated(n, d) ==
  LET q == Abs(n) \div Abs(d) IN IF (n < 0) # (d < 0) THEN -q ELSE q

\* What a function may leave: the values of rd and rcc and the bytes that it
\* writes, or an exception.
Left == [exc |-> "OK", rd |-> 0, rcc |-> 0, bytes |-> << >>]
Exc(code) == {[Left EXCEPT !.exc = code]}
Results(S, cc) == {[Left EXCEPT !.rd = r, !.rcc = cc] : r \in S}
Result(r) == Results({r}, 0)

----------------------------------------------------------------------------
(* Conditions. *)

\* The value of icc: one bit each.  That of xcc is in the upper half of the
\* same register, where no function writes.
icCARRY == 1
icOVERFLOW == 2
icZERO == 4
icNEG == 8
If(flag, holds) == IF holds THEN flag ELSE 0
Test(cc, flag) == (cc \div flag) % 2 = 1
NZ(x) == If(icNEG, Negative(x)) + If(icZERO, x = 0)
CC(rscc, v) == IF rscc = "xcc" THEN v \div 2^(W \div 2) ELSE v

MutIntCondition(cond, v1) ==
  LET C == Test(v1, icCARRY)
      V == Test(v1, icOVERFLOW)
      Z == Test(v1, icZERO)
      N == Test(v1, icNEG)
  IN [A |-> TRUE, N |-> FALSE, E |-> Z, NE |-> ~Z,
      G |-> ~(Z \/ N), LE |-> Z \/ N # V, GE |-> N = V, L |-> N # V,
      GU |-> ~(C \/ Z), LEU |-> C \/ Z, CC |-> ~C, CS |-> C,
      POS |-> ~N, NEG |-> N, VC |-> ~V, VS |-> V][cond]

IntCondition(cond, v1) ==
  LET C == Test(v1, icCARRY)
      V == Test(v1, icOVERFLOW)
      Z == Test(v1, icZERO)
      N == Test(v1, icNEG)
  IN [A |-> TRUE, N |-> FALSE, E |-> Z, NE |-> ~Z,
      G |-> ~(Z \/ N # V), LE |-> Z \/ N # V, GE |-> N = V, L |-> N # V,
      GU |-> ~(C \/ Z), LEU |-> C \/ Z, CC |-> ~C, CS |-> C,
      POS |-> ~N, NEG |-> N, VC |-> ~V, VS |-> V][cond]

fccEQ == 0
fccLT == 1
fccGT == 2
fccUO == 3

\* The values of the floating-point condition code under which it holds.
FpCondition(cond, v1) ==
  v1 \in [A |-> {fccEQ, fccLT, fccGT, fccUO}, N |-> {}, U |-> {fccUO},
          G |-> {fccGT}, UG |-> {fccUO, fccGT}, L |-> {fccLT},
          UL |-> {fccUO, fccLT}, LG |-> {fccLT, fccGT},
          NE |-> {fccLT, fccGT, fccUO}, E |-> {fccEQ}, UE |-> {fccEQ, fccUO},
          GE |-> {fccGT, fccEQ}, UGE |-> {fccUO, fccGT, fccEQ},
          LE |-> {fccLT, fccEQ}, ULE |-> {fccUO, fccLT, fccEQ},
          O |-> {fccEQ, fccLT, fccGT}][cond]

\* N stands for the two codes that are reserved.
RegCondition(cond, v) ==
  LET v1 == Signed(v)
  IN [N |-> FALSE, Z |-> v1 = 0, LEZ |-> v1 <= 0, LZ |-> v1 < 0,
      NZ |-> v1 # 0, GZ |-> v1 > 0, GEZ |-> v1 >= 0][cond]

FccRegs == {"fcc0", "fcc1", "fcc2", "fcc3"}

\* What a move leaves: v2 under its condition on v, which it reads from rscc,
\* otherwise v1, which was there.
fnMOVcc(in, v1, v2, v) ==
  LET holds == IF in.rscc \in FccRegs THEN FpCondition(in.aux2, v)
               ELSE IntCondition(in.aux2, CC(in.rscc, v))
  IN IF holds THEN v2 ELSE v1
fnMOVR(in, v1, v2, v) == IF RegCondition(in.aux2, v) THEN v2 ELSE v1
\* Of floating-point registers: the same cases, once for each format.
fnFMOVd0(in, v1, v2, v) == fnMOVcc(in, v1, v2, v)
fnFMOVs0(in, v1, v2, v) == fnMOVcc(in, v1, v2, v)
fnFMOVR(in, v1, v2, v) == fnMOVR(in, v1, v2, v)

\* The condition of a branch on what it reads from rs1.
Taken(in, v) ==
  CASE in.instruction = "BPr" -> RegCondition(in.aux2, v)
    [] in.instruction \in FpBranch -> FpCondition(in.aux2, v)
    [] OTHER -> IntCondition(in.aux2, CC(in.rs1, v))

----------------------------------------------------------------------------
(* Integer arithmetic.  v1 is the word read from rs1, v2 the one from rs2  *)
(* or the immediate, vcc what is read from rscc.                           *)

Carry(vcc) == vcc % 2

Logic(op, v1, v2) ==
  LET a == Bits(v1)
      b == Bits(v2)
      nb == Bits(Not(v2))
      xor == (a \ b) \cup (b \ a)
  IN CASE op \in {"AND", "ANDcc"} -> Word(a \cap b)
       [] op \in {"OR", "ORcc"} -> Word(a \cup b)
       [] op \in {"XOR", "XORcc"} -> Word(xor)
       [] op \in {"ANDN", "ANDNcc"} -> Word(a \cap nb)
       [] op \in {"ORN", "ORNcc"} -> Word(a \cup nb)
       [] op \in {"XNOR", "XNORcc"} -> Not(Word(xor))

\* With the condition codes: of the result, without carry and overflow.
LogicCC(op, v1, v2) == Results({Logic(op, v1, v2)}, NZ(Logic(op, v1, v2)))

\* The carry of an addition is not set when the sum of a negative and of a
\* positive word is 0; one that comes in is added to v2 first, and lost there.
AddCC(v1, v2) ==
  LET tmp == Wrap(v1 + v2) IN
  NZ(tmp)
    + If(icOVERFLOW, Negative(v1) = Negative(v2) /\ Negative(tmp) # Negative(v1))
    + If(icCARRY, \/ Negative(v1) /\ Negative(v2)
                  \/ Signed(tmp) > 0 /\ (Negative(v1) \/ Negative(v2)))

SubCC(v1, v2) ==
  LET tmp == Wrap(v1 - v2) IN
  NZ(tmp)
    + If(icOVERFLOW, Negative(v1) # Negative(v2) /\ Negative(tmp) # Negative(v1))
    + If(icCARRY, v1 < v2)

\* One product of two ints, kept in as many bits; only then is it widened, so
\* that what goes to Y is the extension of the low word.
UProduct(v1, v2) == [rd |-> Wrap(v1 * v2), y |-> 0]
SProduct(v1, v2) ==
  LET low == Wrap(Signed(v1) * Signed(v2))
  IN [rd |-> low, y |-> IF Negative(low) THEN 2^W - 1 ELSE 0]

UQuotient(y, v1, v2) ==
  LET q == Pair(y, v1) \div v2 IN IF q > 2^W - 1 THEN 2^W - 1 ELSE q
\* The quotient of the least double word by -1 overflows: undefined in C.
SQuotient(y, v1, v2) ==
  LET q == Truncated(SignedIn(2 * W, Pair(y, v1)), Signed(v2)) IN
  IF q = 2^(2 * W - 1) THEN Words
  ELSE IF q < -(2^(W - 1)) THEN {2^(W - 1)}
  ELSE IF q > 2^(W - 1) - 1 THEN {2^(W - 1) - 1}
  ELSE {Wrap(q)}
\* So does that of the least word.
SQuotientX(v1, v2) ==
  LET q == Truncated(Signed(v1), Signed(v2))
  IN IF q = 2^(W - 1) THEN Words ELSE {Wrap(q)}

\* A shift by W or more is undefined in C.
Shifted(op, v1, n) ==
  IF n >= W THEN Words
  ELSE {CASE op = "SLL" -> Wrap(v1 * 2^n)
          [] op = "SRL" -> v1 \div 2^n
          [] op = "SRA" -> Wrap(Signed(v1) \div 2^n)}

Divisions == {"UDIV", "SDIV", "UDIVcc", "SDIVcc", "UDIVX", "SDIVX"}
Divided(op, v1, v2, vcc) ==
  CASE op \in {"UDIV", "UDIVcc"} -> {UQuotient(vcc, v1, v2)}
    [] op \in {"SDIV", "SDIVcc"} -> SQuotient(vcc, v1, v2)
    [] op = "UDIVX" -> {v1 \div v2}
    [] op = "SDIVX" -> SQuotientX(v1, v2)

\* The bits set in rs1, or in the immediate.
fnPOPC(v) == Cardinality(Bits(v))

\* One step of a multiplication: Y and icc are inputs and outputs.
MulStep(v1, multiplicand, vy, vcc) ==
  LET old == v1 \div 2 + If(2^(W - 1), Test(vcc, icNEG) # Test(vcc, icOVERFLOW))
      new == IF vy % 2 = 1 THEN Wrap(old + multiplicand) ELSE old
      overflow == /\ vy % 2 = 1
                  /\ Negative(old) = Negative(multiplicand)
                  /\ Negative(new) # Negative(old)
  IN [rd |-> new, icc |-> NZ(new) + If(icOVERFLOW, overflow),
      y |-> vy \div 2 + If(2^(W - 1), v1 % 2 = 1)]

\* A product that sets icc as well.
MulCC(op, v1, v2) ==
  LET p == IF op = "UMULcc" THEN UProduct(v1, v2) ELSE SProduct(v1, v2)
  IN [rd |-> p.rd, icc |-> NZ(p.rd), y |-> p.y]

IntFunction(in, v1, v2, vcc) ==
  LET op == in.instruction
      b == Wrap(v2 + Carry(vcc))
  IN CASE op \in {"ADD", "SAVE", "RESTORE"} -> Result(Wrap(v1 + v2))
       [] op = "SUB" -> Result(Wrap(v1 - v2))
       [] op = "ADDC" -> Result(Wrap(v1 + b))
       [] op = "SUBC" -> Result(Wrap(v1 - b))
       [] op = "ADDcc" -> Results({Wrap(v1 + v2)}, AddCC(v1, v2))
       [] op = "SUBcc" -> Results({Wrap(v1 - v2)}, SubCC(v1, v2))
       [] op = "ADDCcc" -> Results({Wrap(v1 + b)}, AddCC(v1, b))
       [] op = "SUBCcc" -> Results({Wrap(v1 - b)}, SubCC(v1, b))
       [] op \in Arith3 -> Result(Logic(op, v1, v2))
       [] op \in Arith3cc -> LogicCC(op, v1, v2)
       [] op = "MULX" -> Result(Wrap(v1 * v2))
       [] op = "UMUL" -> Results({UProduct(v1, v2).rd}, UProduct(v1, v2).y)
       [] op = "SMUL" -> Results({SProduct(v1, v2).rd}, SProduct(v1, v2).y)
       [] op \in Divisions ->
            IF v2 = 0 THEN Exc("DIV0") ELSE Results(Divided(op, v1, v2, vcc), 0)
       [] op \in Shift -> Results(Shifted(op, v1, v2), 0)
       [] op = "MOVcc" -> Result(fnMOVcc(in, v1, v2, vcc))
       [] op = "MOVR" -> Result(fnMOVR(in, v1, v2, vcc))
       [] op = "POPC" -> Result(fnPOPC(IF in.aux1 THEN v2 ELSE v1))
       [] op = "SETHI" -> Result(Wrap(in.imm * 2^((10 * W) \div 32)))

\* Reading a state register; the barrier computes nothing.
fnarithSPECIAL1(in, v1) ==
  IF in.rs1 # "membar" THEN Result(v1)
  ELSE IF in.rd # "g0" THEN Exc("ILLEGAL") ELSE {Left}

\* Writing one: two of them matter to the whole system.
fnarithSPECIAL2(in, v1) ==
  CASE in.rd \in {"y", "icc"} -> Result(v1)
    [] in.rd \in {"asi", "fprs"} -> Exc("SERIALIZE")
    [] OTHER -> {Left}

\* A trap to the simulator; the numbers from 4096 are marks for statistics.
fnILLTRAP(in, v1) == IF in.aux2 = "mark" THEN Result(v1) ELSE Exc("SYSTRAP")

----------------------------------------------------------------------------
(* Floating point.  The arithmetic is the host's; here a number of n bits  *)
(* has a sign and a magnitude, which counts by 1 up to 2^(n-2) and by 4    *)
(* from there; the two largest magnitudes are infinity and not a number.   *)

Width(type) == IF type = "FPHALF" THEN W ELSE 2 * W
Sign(n) == 2^(n - 1)
NaN(n) == 2^(n - 1) - 1
Inf(n) == 2^(n - 1) - 2
Magnitude(n, x) == x % Sign(n)
IsNaN(n, x) == Magnitude(n, x) = NaN(n)
IsInf(n, x) == Magnitude(n, x) = Inf(n)

\* The integer that x is; beyond all others when it is infinite.
Real(n, x) ==
  LET m == Magnitude(n, x)
      r == IF m <= 2^(n - 2) THEN m ELSE 4 * m - 3 * 2^(n - 2)
  IN IF NegativeIn(n, x) THEN -r ELSE r

\* The nearest number; 0 has either sign.
Rounded(n, r) ==
  LET m == IF Abs(r) <= 2^(n - 2) THEN Abs(r) ELSE (Abs(r) + 3 * 2^(n - 2) + 2) \div 4
      finite == IF m > Inf(n) THEN Inf(n) ELSE m
  IN IF r = 0 THEN {0, Sign(n)} ELSE {finite + If(Sign(n), r < 0)}

Negated(n, x) == (x + Sign(n)) % 2^n

\* The host may raise SIGFPE for what is not finite: the handler has it
\* noted, and the instruction fails.
Checked(n, S) ==
  Results(S, 0)
    \cup IF \E r \in S : IsNaN(n, r) \/ IsInf(n, r) THEN Exc("FPERR") ELSE {}

\* x and y have n bits, the result m.
Sum(n, m, x, y) ==
  IF IsInf(n, x) /\ IsInf(n, y) /\ x # y THEN {NaN(m)}
  ELSE IF IsInf(n, x) \/ IsInf(n, y)
  THEN {Inf(m) + If(Sign(m), NegativeIn(n, IF IsInf(n, x) THEN x ELSE y))}
  ELSE Rounded(m, Real(n, x) + Real(n, y))

Product(n, m, x, y) ==
  LET sign == If(Sign(m), NegativeIn(n, x) # NegativeIn(n, y))
  IN IF IsInf(n, x) \/ IsInf(n, y)
     THEN {IF 0 \in {Real(n, x), Real(n, y)} THEN NaN(m) ELSE Inf(m) + sign}
     ELSE Rounded(m, Real(n, x) * Real(n, y))

FpQuotient(n, m, x, y) ==
  LET sign == If(Sign(m), NegativeIn(n, x) # NegativeIn(n, y))
      a == Abs(Real(n, x))
      b == Abs(Real(n, y))
      q == (2 * a + b) \div (2 * b)
  IN IF (IsInf(n, x) /\ IsInf(n, y)) \/ (a = 0 /\ b = 0) THEN {NaN(m)}
     ELSE IF IsInf(n, x) \/ b = 0 THEN {Inf(m) + sign}
     ELSE IF IsInf(n, y) THEN {sign}
     ELSE Rounded(m, IF sign = 0 THEN q ELSE -q)

Root(n, x) ==
  IF IsInf(n, x) THEN {x}
  ELSE LET r == Real(n, x)
       IN Rounded(n, CHOOSE q \in 0 .. r : q * q - q <= r /\ r <= q * q + q)

Add == {"FADDs", "FADDd", "FADDq"}
Subtract == {"FSUBs", "FSUBd", "FSUBq"}
Times == {"FMULs", "FMULd", "FMULq", "FsMULd", "FdMULq"}
FpDivide == {"FDIVs", "FDIVd", "FDIVq"}

Arithmetic2(op, n, m, x, y) ==
  IF IsNaN(n, x) \/ IsNaN(n, y) THEN {NaN(m)}
  ELSE CASE op \in Add -> Sum(n, m, x, y)
         [] op \in Subtract -> Sum(n, m, x, Negated(n, y))
         [] op \in Times -> Product(n, m, x, y)
         [] op \in FpDivide -> FpQuotient(n, m, x, y)

\* Conversions: of an integer, to one (what does not fit is undefined), and
\* from one format to the other.
FromInt == {"FiTOs", "FiTOd", "FiTOq", "FxTOs", "FxTOd", "FxToq"}
ToInt == {"FsTOi", "FdTOi", "FqTOi", "FsTOx", "FdTOx", "FqTOx"}
Converted(op, n, m, x) ==
  LET fits == ~IsInf(n, x) /\ ~IsNaN(n, x) /\ Real(n, x) \in -Sign(m) .. Sign(m) - 1
  IN IF op \in FromInt THEN Rounded(m, SignedIn(n, x))
     ELSE IF op \in ToInt
     THEN IF fits THEN {WrapTo(m, Real(n, x))} ELSE 0 .. 2^m - 1
     ELSE IF IsNaN(n, x) THEN {NaN(m)}
     ELSE IF IsInf(n, x) THEN {Inf(m) + If(Sign(m), NegativeIn(n, x))}
     ELSE IF n = m THEN {x}
     ELSE Rounded(m, Real(n, x))

Compared(n, x, y) ==
  IF IsNaN(n, x) \/ IsNaN(n, y) THEN fccUO
  ELSE IF Real(n, x) = Real(n, y) THEN fccEQ
  ELSE IF Real(n, x) < Real(n, y) THEN fccLT ELSE fccGT

\* Nothing but a number that is not negative has a root or keeps its sign.
NotNegative(n, x) == ~IsNaN(n, x) /\ Real(n, x) >= 0

FpFunction(in, v1, v2, vcc) ==
  LET op == in.instruction
      n == Width(in.rs2_regtype)
      m == Width(in.rd_regtype)
  IN CASE op \in Add \cup Subtract \cup Times \cup FpDivide ->
            Checked(m, Arithmetic2(op, n, m, v1, v2))
       [] op \in {"FMOVs", "FMOVd", "FMOVq"} -> Result(v2)
       [] op \in {"FNEGs", "FNEGd", "FNEGq"} -> Result(Negated(n, v2))
       [] op \in {"FABSs", "FABSd", "FABSq"} ->
            Result(IF NotNegative(n, v2) THEN v2 ELSE Negated(n, v2))
       [] op \in {"FSQRTs", "FSQRTd", "FSQRTq"} ->
            IF NotNegative(n, v2) THEN Results(Root(n, v2), 0) ELSE Exc("FPERR")
       [] op = "FMOVd0" -> Result(fnFMOVd0(in, v1, v2, vcc))
       [] op = "FMOVs0" -> Result(fnFMOVs0(in, v1, v2, vcc))
       [] op \in {"FMOVRs", "FMOVRd"} -> Result(fnFMOVR(in, v1, v2, vcc))
       [] op \in {"FCMPs", "FCMPd", "FCMPq"} -> Result(Compared(n, v1, v2))
       [] op \in {"FCMPEs", "FCMPEd", "FCMPEq"} ->
            IF Compared(n, v1, v2) = fccUO THEN Exc("FPERR")
            ELSE Result(Compared(n, v1, v2))
       [] OTHER -> Results(Converted(op, n, m, v2), 0)

----------------------------------------------------------------------------
(* Memory: the bytes of a value, the first one the highest.                *)

ByteBits == W \div 4
ByteMax == 2^ByteBits - 1
Bytes(n, x) == [k \in 1 .. n |-> (x \div 2^((n - k) * ByteBits)) % 2^ByteBits]
Joined(b) == MapThenSumSet(LAMBDA k : b[k] * 2^((Len(b) - k) * ByteBits), DOMAIN b)

\* The bytes that are moved: not all that the alignment is for.
Moved(op) ==
  CASE op \in {"LDX", "STX", "LDXA", "STXA", "CASXA"} -> 4
    [] op \in {"LDQF", "STQF", "LDQFA", "STQFA"} -> 8
    [] OTHER -> mem_length(op)

SignExtend(n, x) == IF NegativeIn(n, x) THEN Wrap(x - 2^n) ELSE x

\* b: the bytes at the address.
Loaded(op, b) ==
  IF op \in {"LDSB", "LDSH", "LDSBA", "LDSHA"}
  THEN SignExtend(Len(b) * ByteBits, Joined(b)) ELSE Joined(b)

Stores == UNION {StoreInt, StoreAlt, StorePair, StoreFp, StoreFpAlt, StoreHalf, RemoteWrites}
MemFunction(in, v1, vcc, b) ==
  LET op == in.instruction
      Both(r, bytes) == {[Left EXCEPT !.rd = r, !.bytes = bytes]}
  IN CASE op \in Stores -> Both(0, Bytes(Moved(op), v1))
       [] op \in {"LDSTUB", "LDSTUBA"} -> Both(Loaded(op, b), <<ByteMax>>)
       [] op \in Swaps -> Both(Loaded(op, b), Bytes(4, v1))
       [] op \in Cas ->
            Both(Loaded(op, b), IF Loaded(op, b) = v1 THEN Bytes(4, vcc) ELSE << >>)
       [] op \in LoadState -> {[Left EXCEPT !.exc = "SERIALIZE", !.rd = Joined(b)]}
       [] op \in Prefetches \cup {"FLUSH"} -> {Left}
       [] op = "FLUSHW" -> Exc("PRIVILEGED")
       [] OTHER -> Result(Loaded(op, b))

\* What a load may take from a store that is not done: st has its operation,
\* its address and the whole register that it stores.
MutMemMatch(op, addr, st) ==
  LET Forward(stores, loads, value) ==
        IF st.op \in stores /\ op \in loads /\ addr = st.addr THEN {value} ELSE {}
  IN UNION {Forward({"STW"}, {"LDUW", "LDSW", "LDUWA", "LDF"}, st.value),
            Forward({"STD"}, {"LDD"}, st.value),
            Forward({"STB"}, {"LDUB", "LDSB"}, st.value),
            Forward({"LDSTUB"}, {"LDUB"}, ByteMax),
            Forward({"STH"}, {"LDUH", "LDSH"}, st.value),
            Forward({"STDF"}, {"LDDF"}, st.value),
            Forward({"STF"}, {"LDF", "LDSW", "LDUW"}, st.value),
            IF st.op = "STDF" /\ op = "LDUW" /\ addr \in {st.addr, st.addr + 4}
            THEN {IF addr = st.addr THEN Lower(st.value) ELSE Upper(st.value)} ELSE {}}

MemMatch(op, addr, st) ==
  LET Forward(stores, loads, value) ==
        IF st.op \in stores /\ op \in loads /\ addr = st.addr THEN {value} ELSE {}
  IN UNION {Forward({"STW"}, {"LDUW", "LDSW", "LDUWA", "LDF"}, st.value),
            Forward({"STD"}, {"LDD"}, st.value),
            Forward({"STB"}, {"LDUB", "LDSB"}, st.value),
            Forward({"LDSTUB"}, {"LDUB"}, ByteMax),
            Forward({"STH"}, {"LDUH", "LDSH"}, st.value),
            Forward({"STDF"}, {"LDDF"}, st.value),
            Forward({"STF"}, {"LDF", "LDSW", "LDUW"}, st.value),
            IF st.op = "STDF" /\ op = "LDUW" /\ addr \in {st.addr, st.addr + 4}
            THEN {IF addr = st.addr THEN Upper(st.value) ELSE Lower(st.value)} ELSE {}}

----------------------------------------------------------------------------
\* The function of an instruction that is neither a branch nor in memory.
\* Those that end a trap need the state in which traps are handled.
Function(in, v1, v2, vcc, privstate) ==
  LET op == in.instruction
  IN CASE op \in Reserved \cup Tagged -> Exc("ILLEGAL")
       [] op \in {"RDPR", "WRPR"} -> Exc("PRIVILEGED")
       [] op \in {"SAVRESTD", "DONERETRY"} ->
            Exc(IF privstate THEN "SERIALIZE" ELSE "PRIVILEGED")
       [] op \in {"MULScc", "UMULcc", "SMULcc"} -> Exc("SERIALIZE")
       [] op = "arithSPECIAL1" -> fnarithSPECIAL1(in, v1)
       [] op = "arithSPECIAL2" -> fnarithSPECIAL2(in, v1)
       [] op = "ILLTRAP" -> fnILLTRAP(in, v1)
       [] OTHER -> IF in.rs2_regtype = "INT" THEN IntFunction(in, v1, v2, vcc)
                                             ELSE FpFunction(in, v1, v2, vcc)
=============================================================================
