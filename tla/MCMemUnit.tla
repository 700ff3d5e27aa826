------------------------------ MODULE MCMemUnit ------------------------------
(***************************************************************************)
(* Short programs for the memory unit, with the memory barriers that the   *)
(* RSIM libraries use (acquire and release), a full one, and branches.     *)
(***************************************************************************)
EXTENDS MemUnit

CONSTANTS x, y

In(k, a, s, b) == [kind |-> k, a |-> a, size |-> s, bar |-> b]
Ld(a) == In("LD", a, "w", {})
St(a) == In("ST", a, "w", {})
Rmw(a) == In("RMW", a, "w", {})
Bar(b) == In("MB", x, "w", b)
Branch == In("BR", x, "w", {})
ACQ == Bar({"LL", "LS"})
REL == Bar({"LS", "SS"})
FULL == Bar({"LL", "LS", "SL", "SS"})
STLD == Bar({"SL"})

With(progs, modes) == [prog : progs, mode : modes]
Spec3 == {[st |-> s, ld |-> FALSE] : s \in {"STALL", "LIMBO", "EXCEPT"}}
SpecLoads == [st |-> "EXCEPT", ld |-> TRUE]
NoSpec == [st |-> "STALL", ld |-> FALSE]

MCCases ==
  With({<<St(x), Ld(x), St(x), Ld(x)>>,
        <<Ld(x), Ld(y), St(x), Ld(x)>>,
        <<St(x), In("LD", x, "b", {}), In("ST", x, "b", {}), Ld(x)>>,
        <<St(y), Branch, St(x), Ld(x)>>}, Spec3)
  \cup
  With({<<Ld(y), ACQ, Ld(x), St(x)>>,
        <<Rmw(y), ACQ, Ld(x), St(y)>>,
        <<St(x), FULL, Ld(y), Ld(x)>>}, {NoSpec, SpecLoads})
  \cup
  With({<<Rmw(y), ACQ, St(x), REL, St(y)>>}, {SpecLoads})
=============================================================================
