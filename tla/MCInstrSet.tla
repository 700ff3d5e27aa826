----------------------------- MODULE MCInstrSet -----------------------------
(***************************************************************************)
(* Short programs such as compilers and the SPARC libraries write, and     *)
(* what each of them computes.                                             *)
(***************************************************************************)
EXTENDS InstrSet

Nop == [op |-> "OR", rd |-> "g0", rs1 |-> "g0", rs2 |-> "g0", i |-> FALSE, imm |-> 0,
        cond |-> "N", cc |-> "icc", annul |-> FALSE, taken |-> FALSE, asi |-> "none"]
R(op, rs1, rs2, rd) == [Nop EXCEPT !.op = op, !.rs1 = rs1, !.rs2 = rs2, !.rd = rd]
I(op, rs1, imm, rd) == [Nop EXCEPT !.op = op, !.rs1 = rs1, !.i = TRUE, !.imm = imm, !.rd = rd]
B(op, cond, rs1, imm) ==
  [Nop EXCEPT !.op = op, !.cond = cond, !.rs1 = rs1, !.imm = imm, !.cc = "fcc0"]
Annul(b) == [b EXCEPT !.annul = TRUE, !.taken = TRUE]
Mov(op, cond, cc, rs1, rd) == [I(op, rs1, 1, rd) EXCEPT !.cond = cond, !.cc = cc]
Compare(op, rs1, rs2) == [R(op, rs1, rs2, "g0") EXCEPT !.cc = "fcc0"]
Call(imm) == [Nop EXCEPT !.op = "CALL", !.imm = imm]
Trap(name) == [Nop EXCEPT !.op = "ILLTRAP", !.cond = name]
\* rd to or from the address b + imm.
M(op, rd, imm) == I(op, "b", imm, rd)

MCGlobals == {"a", "b", "c", "d", "m"}
Edge == {0, 1, 2, 100, 127, 128, 200, 255}
IntConds == {"A", "N", "E", "NE", "G", "LE", "GE", "L", "GU", "LEU", "CC", "CS",
             "POS", "NEG", "VC", "VS"}
FpConds == {"A", "N", "U", "G", "UG", "L", "UL", "LG", "NE", "E", "UE", "GE",
            "UGE", "LE", "ULE", "O"}
RegConds == {"Z", "LEZ", "LZ", "NZ", "GZ", "GEZ"}

----------------------------------------------------------------------------
\* c becomes 1 when the condition holds, by a branch around a clear: the
\* delay slot sets it; or it is set and then cleared in the annulled slot of
\* a branch that is not taken.
Jump(b) == <<b, I("OR", "g0", 1, "c"), I("OR", "g0", 0, "c")>>
\* In the slot of a branch that annuls it unless it is taken; one that is
\* always taken would annul it.  The static prediction is wrong: not taken.
Within(b) == <<[b EXCEPT !.annul = b.cond # "A"], I("OR", "g0", 1, "c")>>
BySubtraction(cond) ==
  <<<<R("SUBcc", "a", "b", "g0")>> \o Jump(B("Bicc", cond, "g0", 3)),
    <<R("SUBcc", "a", "b", "g0"), Mov("MOVcc", cond, "icc", "g0", "c")>>,
    <<R("SUBcc", "a", "b", "g0")>> \o Within(B("BPcc", cond, "g0", 2))>>
ByFloat(cond) ==
  <<<<Compare("FCMPd", "f0", "f2")>> \o Jump(B("FBfcc", cond, "g0", 3)),
    <<R("FNEGs", "g0", "f0", "f0"), R("FNEGs", "g0", "f2", "f2"), Compare("FCMPd", "f2", "f0"),
      Mov("MOVcc", cond, "fcc0", "g0", "c")>> >>
ByRegister(cond) ==
  <<Jump(B("BPr", cond, "a", 3)), <<Mov("MOVR", cond, "icc", "a", "c")>> >>

\* c = a * b by a loop whose first instruction is moved to the delay slot.
Loop == <<R("ADD", "c", "b", "c"), I("SUBcc", "a", 1, "a"), Annul(B("Bicc", "NE", "g0", -1)),
          R("ADD", "c", "b", "c")>>
\* Branches that always, and that never, are taken: c = 2 + 4 + 16.
Always == <<Annul(B("Bicc", "A", "g0", 2)), I("ADD", "c", 1, "c"),
            B("BPcc", "N", "g0", 4), I("ADD", "c", 2, "c"), I("ADD", "c", 4, "c"),
            Annul(B("BPcc", "N", "g0", -4)), I("ADD", "c", 8, "c"), I("ADD", "c", 16, "c")>>
\* A jump to a: to the exits that leave m = 1 or m = 2, or to nowhere.
Jumps == <<I("JMPL", "a", 0, "c"), I("ADD", "d", 1, "d"), I("OR", "g0", 1, "m"), Trap("exit"),
           I("OR", "g0", 2, "m")>>

\* The signed product a * b in d and m: one step for each bit of the
\* multiplier, one to shift, and a correction for a negative multiplier.
Multiply ==
  <<R("arithSPECIAL2", "a", "g0", "y"), R("ANDcc", "g0", "g0", "d")>>
    \o [i \in 1 .. W |-> R("MULScc", "d", "b", "d")]
    \o <<R("MULScc", "d", "g0", "d"), R("arithSPECIAL1", "y", "g0", "m"),
         R("SUBcc", "a", "g0", "g0"), B("Bicc", "GE", "g0", 3), Nop,
         R("SUB", "d", "b", "d")>>

\* The remainder of a by b, truncated: Y holds the sign of a.
Remainder ==
  <<I("SRA", "a", W - 1, "m"), R("arithSPECIAL2", "m", "g0", "y"), R("SDIV", "a", "b", "c"),
    R("SMUL", "c", "b", "d"), R("SUB", "a", "d", "d")>>

Divide(op) == <<R("arithSPECIAL2", "m", "g0", "y"), R(op, "a", "b", "c")>>

\* m:a - b:c in two words; the absolute value of a; a less than b, unsigned.
Difference == <<R("SUBcc", "a", "c", "d"), R("SUBC", "m", "b", "m")>>
Absolute == <<I("SRA", "a", W - 1, "m"), R("XOR", "a", "m", "c"), R("SUB", "c", "m", "c")>>
Logical == <<R("AND", "a", "b", "c"), R("ANDN", "a", "b", "d"), R("OR", "c", "d", "c"),
             R("XOR", "a", "b", "d"), R("XNOR", "a", "b", "m"), R("XOR", "d", "m", "d"),
             R("ORN", "a", "b", "m"), R("AND", "m", "b", "m")>>
Quotient == <<R("UDIVX", "a", "b", "c"), R("UMULcc", "c", "b", "d"), R("SUB", "a", "d", "m")>>
Less == <<R("SUBcc", "a", "b", "g0"), I("ADDC", "g0", 0, "c")>>

\* An integer to floating point and back; a product, exact and divided again;
\* the absolute value of the opposite.
Convert == <<R("FiTOd", "g0", "f0", "f2"), R("FdTOs", "g0", "f2", "f1"),
             R("FdTOi", "g0", "f2", "f0")>>
FpProduct == <<R("FsMULd", "f0", "f1", "f2"), R("FMULs", "f0", "f1", "f0"),
               R("FDIVs", "f0", "f1", "f0")>>
FpSum == <<R("FADDs", "f0", "f1", "f2"), R("FSUBs", "f2", "f1", "f3")>>
FpAbsolute == <<R("FNEGd", "g0", "f0", "f2"), R("FABSd", "g0", "f2", "f2"),
                R("FSQRTd", "g0", "f2", "f0")>>

----------------------------------------------------------------------------
\* Stores and what loads them again.
Copies == <<<<"STW", "LDUW">>, <<"STW", "LDSWA">>, <<"STH", "LDUH">>, <<"STH", "LDSH">>,
            <<"STB", "LDUB">>, <<"STB", "LDSB">>, <<"STX", "LDX">> >>
Copy(pair) == <<M(pair[1], "a", 0), M(pair[2], "c", 0)>>
BigEndian == <<M("STW", "a", 0), M("LDUB", "c", 0), M("LDUB", "d", 3), M("LDSH", "m", 2)>>
CopyPair == <<M("STD", "o0", 0), M("LDUW", "c", 4), M("LDD", "l0", 0)>>
CopyDouble == <<M("STDF", "f0", 0), M("LDUW", "c", 0), M("LDUW", "d", 4), M("LDF", "f3", 4),
                M("LDF", "f2", 0), R("FNEGd", "g0", "f0", "f0"), M("LDDF", "f0", 0)>>
SwapWords == <<M("STWA", "a", 0), M("SWAP", "c", 0), M("LDUW", "d", 0)>>
CompareAndSwap == <<M("STW", "a", 0), R("CASA", "b", "m", "c"), M("LDUW", "d", 0)>>
Lock == <<M("STB", "g0", 0), M("LDSTUB", "c", 0), M("LDSTUB", "d", 0)>>
Hint == <<M("PREFETCH", "g0", 1)>>
\* A state register that the whole system depends on.
Space == <<R("arithSPECIAL2", "a", "g0", "asi"), R("arithSPECIAL1", "asi", "g0", "c")>>

\* The condition code survives in memory, in the short form of the FSR.
SaveFSR(cond) ==
  <<Compare("FCMPd", "f0", "f2"), M("STXFSR", "g0", 0), M("STFSR", "g0", 0),
    Compare("FCMPd", "f0", "f0"), M("LDXFSR", "g0", 0), M("LDFSR", "g0", 0),
    Mov("MOVcc", cond, "fcc0", "g0", "c")>>

\* A word in a new page of the heap: stored there, found, cleared.
NewPage == <<I("OR", "g0", ALLOC_SIZE + 1, "o0"), Trap("sbrk"), R("OR", "g0", "o0", "d"),
             I("STW", "o0", 4, "a"), I("LDUW", "o0", 4, "c"), I("ADD", "o0", 4, "o0"),
             I("OR", "g0", 4, "o1"), Trap("bzero"), I("LDUW", "o0", 0, "m")>>
\* The sum of 1 to o0, by recursion; return as compilers have it, with the
\* window restored in the delay slot, or by the instruction of that name.
Frame == 32
Recursion(return) ==
  <<Call(3), Nop, Trap("exit"),
    I("SAVE", "o6", -Frame, "o6"), B("BPr", "Z", "i0", 6), R("OR", "g0", "i0", "l0"),
    Call(-3), I("SUB", "i0", 1, "o0"), R("ADD", "l0", "o0", "i0"), Nop>> \o return
ByRestore == <<I("JMPL", "i7", 8, "g0"), R("RESTORE", "g0", "g0", "g0")>>
ByReturn == <<I("RETURN", "i7", 8, "g0"), Nop>>

(* A program: its task, the condition it is about, which of the codes for   *)
(* that task, and the predictor.                                           *)
P(task, cond, code, bpb) == [task |-> task, cond |-> cond, code |-> code, bpb |-> bpb]
Predictors == {"TWOBIT", "TWOBITAGREE", "STATIC"}
Conditional ==
  [task : {"sub"}, cond : IntConds, code : 1 .. 3] \cup [task : {"float"}, cond : FpConds, code : 1 .. 2]
    \cup [task : {"register"}, cond : RegConds, code : 1 .. 2]
    \cup [task : {"fsr"}, cond : FpConds, code : {1}]
Plain == {"jump", "less", "multiply", "remainder", "UDIV", "SDIV", "absolute", "difference",
          "convert", "product", "magnitude", "bytes", "pair", "double", "swap", "cas", "lock",
          "hint", "space", "page", "logical", "quotient", "fpsum"}
Branching == [task : {"loop", "always"}, code : {1}] \cup [task : {"recursion"}, code : 1 .. 2]
MCPrograms ==
  {P(p.task, p.cond, p.code, IF p.code = 3 THEN "STATIC" ELSE "TWOBIT") : p \in Conditional}
    \cup {P(task, "A", 1, "TWOBIT") : task \in Plain}
    \cup {P("copy", "A", k, "TWOBIT") : k \in DOMAIN Copies}
    \cup {P(p.task, "A", p.code, t) : p \in Branching, t \in Predictors}

Body(p) ==
  CASE p.task = "sub" -> BySubtraction(p.cond)[p.code]
    [] p.task = "float" -> ByFloat(p.cond)[p.code]
    [] p.task = "register" -> ByRegister(p.cond)[p.code]
    [] p.task = "fsr" -> SaveFSR(p.cond)
    [] p.task = "copy" -> Copy(Copies[p.code])
    [] p.task = "recursion" -> Recursion(<<ByRestore, ByReturn>>[p.code])
    [] OTHER ->
         [jump |-> Jumps, less |-> Less, multiply |-> Multiply, remainder |-> Remainder,
          UDIV |-> Divide("UDIV"), SDIV |-> Divide("SDIV"), absolute |-> Absolute,
          difference |-> Difference, convert |-> Convert, product |-> FpProduct,
          magnitude |-> FpAbsolute, bytes |-> BigEndian, pair |-> CopyPair,
          double |-> CopyDouble, swap |-> SwapWords, cas |-> CompareAndSwap, lock |-> Lock,
          hint |-> Hint, space |-> Space, page |-> NewPage, loop |-> Loop,
          always |-> Always, logical |-> Logical,
          quotient |-> Quotient, fpsum |-> FpSum][p.task]
MCCode(p) == Body(p) \o <<Trap("exit")>>

MCShared == 224 .. 239
n2 == 2 * W
Doubled == {0, 1, 2, Sign(n2), Sign(n2) + 1, Inf(n2), NaN(n2)}
Addresses == {0, 1, 2, 4, 12, 15, 16, 60, 64, 66, 200, 220, 236, 240, 252}
MCInputs(p) ==
  CASE p.task = "float" -> [f0 : Doubled, f2 : Doubled]
    [] p.task = "fsr" -> [f0 : Doubled, f2 : {1}, b : {8, 200}]
    [] p.task = "register" -> [a : Edge]
    [] p.task \in {"absolute", "jump"} -> [a : Words]
    [] p.task \in {"UDIV", "SDIV"} -> [a : Edge, b : Edge, m : Edge]
    [] p.task = "difference" -> [a : Edge, b : {0, 1, 2}, c : Edge, m : {1}]
    [] p.task = "loop" -> [a : 1 .. 5, b : {3}]
    [] p.task \in {"always", "hint"} -> [b : Addresses]
    [] p.task = "convert" -> [f0 : {Pair(x, 0) : x \in Words}]
    [] p.task \in {"product", "fpsum"} -> [f0 : {Pair(x, y) : x, y \in Edge}]
    [] p.task = "magnitude" -> [f0 : {k * k : k \in 0 .. 20} \cup Doubled]
    [] p.task \in {"copy", "bytes"} -> [a : Edge, b : Addresses]
    [] p.task = "pair" -> [o0 : {1, 255}, o1 : {0, 2}, b : Addresses]
    [] p.task = "double" -> [f0 : {Pair(1, 2), Pair(255, 129)}, b : Addresses]
    [] p.task \in {"swap", "cas", "lock"} ->
         [a : {0, 200}, m : {0, 255}, c : {7}, b : Addresses]
    [] p.task = "page" -> [a : Edge]
    [] p.task = "recursion" -> [o0 : 0 .. 5, o6 : {lowshared - Frame}]
    [] OTHER -> [a : Edge, b : Edge]

----------------------------------------------------------------------------
Ended == exception = "EXIT"
a0 == given.a
b0 == given.b
Double(high, low) == high * 2^W + low
Now(r) == Word1(cwp, r)

IntRelation(cond) ==
  LET diff == Signed(a0) - Signed(b0) IN
  [A |-> TRUE, N |-> FALSE, E |-> a0 = b0, NE |-> a0 # b0,
   G |-> diff > 0, LE |-> diff <= 0, GE |-> diff >= 0, L |-> diff < 0,
   GU |-> a0 > b0, LEU |-> a0 <= b0, CC |-> a0 >= b0, CS |-> a0 < b0,
   POS |-> ~Negative(Wrap(diff)), NEG |-> Negative(Wrap(diff)),
   VC |-> diff \in -(2^(W - 1)) .. 2^(W - 1) - 1,
   VS |-> diff \notin -(2^(W - 1)) .. 2^(W - 1) - 1][cond]

FpRelation(cond) ==
  LET x == Real(n2, given.f0)
      y == Real(n2, given.f2)
      uo == IsNaN(n2, given.f0) \/ IsNaN(n2, given.f2)
      lt == ~uo /\ x < y
      gt == ~uo /\ x > y
      eq == ~uo /\ x = y
  IN [A |-> TRUE, N |-> FALSE, U |-> uo, G |-> gt, UG |-> ~lt /\ ~eq, L |-> lt,
      UL |-> ~gt /\ ~eq, LG |-> lt \/ gt, NE |-> ~eq, E |-> eq, UE |-> uo \/ eq,
      GE |-> gt \/ eq, UGE |-> ~lt, LE |-> lt \/ eq, ULE |-> ~gt, O |-> ~uo][cond]

RegRelation(cond) ==
  [Z |-> a0 = 0, LEZ |-> a0 = 0 \/ Negative(a0), LZ |-> Negative(a0), NZ |-> a0 # 0,
   GZ |-> a0 # 0 /\ ~Negative(a0), GEZ |-> ~Negative(a0)][cond]

(* Comparisons.  After a subtraction, a floating-point comparison or on the *)
(* value of a register, every condition of a branch and of a conditional    *)
(* move decides the relation it is named for, signed or unsigned, also when *)
(* the subtraction overflows, and with unordered operands.  Whatever the    *)
(* predictor says, delay slots are executed exactly when the branch says    *)
(* so, a loop runs as often as it should, and a jump goes where it points   *)
(* or ends the program.                                                     *)
Comparisons ==
  /\ Ended => CASE program.task = "sub" -> (Now("c") = 1) = IntRelation(program.cond)
                [] program.task = "float" -> (Now("c") = 1) = FpRelation(program.cond)
                [] program.task = "register" -> (Now("c") = 1) = RegRelation(program.cond)
                [] program.task = "less" -> (Now("c") = 1) = (a0 < b0)
                [] program.task = "loop" -> Now("c") = Wrap(a0 * b0)
                [] program.task = "always" -> Now("c") = 22
                [] program.task = "jump" ->
                     <<a0, Now("m"), Now("d")>>
                       \in {<<8, 1, 2>>, <<12, 1, 1>>, <<16, 0, 1>>, <<20, 2, 1>>, <<24, 0, 1>>}
                [] OTHER -> TRUE
  /\ program.task = "jump" /\ exception = "BADPC" => a0 % 4 # 0 \/ a0 \div 4 \notin 1 .. 6

\* r is what the division of n by d leaves.
IsRemainder(r, n, d) ==
  /\ Abs(r) < Abs(d)
  /\ r = 0 \/ (r < 0) = (n < 0)
  /\ (n - r) % Abs(d) = 0
\* q is the quotient, or the limit that it is beyond.
IsQuotient(q, n, d, lo, hi) ==
  \/ IsRemainder(n - q * d, n, d)
  \/ q = hi /\ (n < 0) = (d < 0) /\ Abs(n) >= Abs(d) * (hi + 1)
  \/ q = lo /\ (n < 0) # (d < 0) /\ Abs(n) >= Abs(d) * (Abs(lo) + 1)

MinInt == -(2^(W - 1))
MaxInt == 2^(W - 1) - 1

Dividing == {"UDIV", "SDIV", "remainder", "quotient"}
FiniteHalves ==
  \A z \in {Upper(given.f0), Lower(given.f0)} : ~IsNaN(W, z) /\ ~IsInf(W, z)

(* Arithmetic.  The routines built from several instructions compute what   *)
(* they are for: the steps of a multiplication, the double-word product;    *)
(* a division, the quotient truncated towards 0 and saturated, and an       *)
(* exception instead exactly for a divisor of 0; quotient, product and      *)
(* difference, the remainder; two subtractions, the double-word difference; *)
(* shift, exclusive or and difference, the absolute value; the logical      *)
(* operations agree with each other.  An integer goes through floating      *)
(* point unchanged, an exact sum or product can be undone, the root of a    *)
(* square is its magnitude, and floating point fails only for what is not   *)
(* finite.  The one quotient that the host's own division cannot represent  *)
(* is left out, as is the remainder of the one that saturates.              *)
Arithmetic ==
  /\ Ended =>
       CASE program.task = "multiply" ->
              Double(Now("d"), Now("m")) = (Signed(a0) * Signed(b0)) % 2^(2 * W)
         [] program.task = "remainder" ->
              (Signed(a0) = MinInt /\ Signed(b0) = -1)
                \/ IsRemainder(Signed(Now("d")), Signed(a0), Signed(b0))
         [] program.task = "UDIV" ->
              IsQuotient(Now("c"), Double(given.m, a0), b0, 0, 2^W - 1)
         [] program.task = "SDIV" ->
              LET n == Double(Signed(given.m), a0)
              IN \/ n = -(2^(2 * W - 1)) /\ Signed(b0) = -1
                 \/ IsQuotient(Signed(Now("c")), n, Signed(b0), MinInt, MaxInt)
         [] program.task = "absolute" -> Now("c") = Abs(Signed(a0))
         [] program.task = "difference" ->
              Double(Now("m"), Now("d"))
                = (Double(1, a0) - Double(b0, given.c)) % 2^(2 * W)
         [] program.task = "convert" ->
              Read(cwp, "FPHALF", "f0") = Upper(given.f0)
         [] program.task = "product" ->
              LET x == Real(W, Upper(given.f0))
                  y == Real(W, Lower(given.f0))
              IN FiniteHalves /\ Abs(x) * Abs(y) <= 2^(W - 2) /\ y # 0 =>
                   /\ Real(n2, Read(cwp, "FP", "f2")) = x * y
                   /\ Real(W, Read(cwp, "FPHALF", "f0")) = x
         [] program.task = "logical" ->
              /\ Now("c") = a0 /\ Now("d") = 2^W - 1
              /\ Bits(Now("m")) = Bits(a0) \cap Bits(b0)
         [] program.task = "quotient" -> Now("m") = a0 % b0
         [] program.task = "fpsum" ->
              LET x == Real(W, Upper(given.f0))
                  y == Real(W, Lower(given.f0))
              IN FiniteHalves /\ Abs(x + y) <= 2^(W - 2) =>
                   Real(W, Lower(Read(cwp, "FP", "f2"))) = x
         [] program.task = "magnitude" ->
              LET root == Real(n2, Read(cwp, "FP", "f0"))
              IN \A k \in 0 .. 20 : given.f0 = k * k => root = k
         [] OTHER -> TRUE
  /\ exception = "DIV0" => b0 = 0 /\ program.task \in Dividing
  /\ Ended /\ program.task \in Dividing => b0 # 0
  /\ exception = "FPERR" =>
       IF program.task \in {"product", "fpsum"}
       THEN LET x == Upper(given.f0)
                y == Lower(given.f0)
            IN \/ ~FiniteHalves
               \/ Real(W, y) = 0 \/ Abs(Real(W, x) * Real(W, y)) > 2^(W - 2)
               \/ Abs(Real(W, x) + Real(W, y)) > 2^(W - 2)
       ELSE IsNaN(n2, given.f0)

(* What a program computes is right, and so is the way it takes.            *)
Computed == Comparisons /\ Arithmetic

Alignment == [copy |-> <<4, 4, 2, 2, 1, 1, 8>>[program.code],
              bytes |-> 4, pair |-> 8, double |-> 8, swap |-> 4, cas |-> 4, lock |-> 1]
InMemory(a) == \/ a < Heap \/ a \in Shared
               \/ lowshared - MAXSTACKSIZE <= a /\ a < lowshared
Bytewise(n) == 2^(n * ByteBits)

(* Memory.  What is stored is what is loaded, from memory or from the store *)
(* that is not done, if it fits the size that was stored: words, halves,    *)
(* bytes, highest first, pairs and both halves of a double; an exchange, a  *)
(* compare and swap and a lock see the old value and leave the new one.     *)
(* The program ends with a segmentation fault exactly when the address can  *)
(* never be mapped, the stack growing down to it otherwise, and with a bus  *)
(* error exactly when it is not aligned; a prefetch never ends it.  A       *)
(* comparison survives in a stored FSR; a new page of the heap begins where *)
(* the old heap ended, and can be written and cleared.                      *)
Memory ==
  /\ Ended =>
       CASE program.task = "copy" ->
              LET size == IF Alignment.copy = 8 THEN 4 ELSE Alignment.copy
                  low == a0 % Bytewise(size)
                  fits == a0 \in {low, SignExtend(size * ByteBits, low)}
              IN /\ Now("c") % Bytewise(size) = low
                 /\ fits => Now("c") \in {low, SignExtend(size * ByteBits, low)}
         [] program.task = "bytes" ->
              /\ Now("c") = a0 \div Bytewise(3)
              /\ Now("d") = a0 % Bytewise(1)
              /\ Now("m") % Bytewise(2) = a0 % Bytewise(2)
              /\ Negative(Now("m")) = NegativeIn(2 * ByteBits, a0 % Bytewise(2))
         [] program.task = "pair" ->
              /\ Now("l0") = given.o0
              /\ Now("l1") = given.o1 /\ Now("c") = given.o1
         [] program.task = "double" ->
              /\ Now("c") = Upper(given.f0) /\ Now("d") = Lower(given.f0)
              /\ Read(cwp, "FP", "f2") = given.f0 /\ Read(cwp, "FP", "f0") = given.f0
         [] program.task = "swap" -> Now("c") = a0 /\ Now("d") = given.c
         [] program.task = "cas" ->
              Now("c") = a0 /\ Now("d") = IF a0 = given.m THEN given.c ELSE a0
         [] program.task = "space" -> Now("c") = a0
         [] program.task = "lock" -> Now("c") = 0 /\ Now("d") = ByteMax
         [] program.task = "fsr" -> (Now("c") = 1) = FpRelation(program.cond)
         [] program.task = "page" ->
              /\ Now("d") = Heap /\ highheap = Heap + 2 * ALLOC_SIZE
              /\ Now("c") = a0 /\ Now("m") = 0
         [] OTHER -> TRUE
  /\ program.task \in DOMAIN Alignment =>
       exception \in {"OK", IF ~InMemory(b0) THEN "SEGV"
                           ELSE IF b0 % Alignment[program.task] # 0 THEN "BUSERR"
                           ELSE "EXIT"}
  /\ program.task \in {"hint", "page", "fsr"} => exception \in {"OK", "EXIT"}

(* Windows.  A recursion deeper than the register windows, whose frames go  *)
(* to a stack that grows and come back, finds its locals and its return     *)
(* addresses unchanged: it returns the sum, whatever return addresses were  *)
(* predicted, also when the window traps in the delay slot of the return.   *)
(* Outside a trap there is always a window for each frame that is counted.  *)
Windows ==
  /\ program.task = "recursion" =>
       /\ exception \in {"OK", "EXIT"}
       /\ Ended => /\ Now("o0") = (given.o0 * (given.o0 + 1)) \div 2
                   /\ Now("o6") = given.o6
                   /\ cwp = NUM_WINS - 1 \/ given.o0 > 0
  /\ cwp \in Window
  /\ ~privstate => /\ CANSAVE >= 0 /\ CANRESTORE >= 0
                   /\ CANSAVE + CANRESTORE = NUM_WINS - 2
=============================================================================
