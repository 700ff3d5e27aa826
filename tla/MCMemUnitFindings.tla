------------------------- MODULE MCMemUnitFindings -------------------------
(***************************************************************************)
(* Programs on which the memory unit does other than its comments say.     *)
(***************************************************************************)
EXTENDS MCMemUnit

\* A barrier that orders the load after the store before it, but not the store after it.
SpecStoreCases == With({<<St(x), Bar({"SL", "LL"}), Ld(y), St(y)>>}, {SpecLoads})
=============================================================================
