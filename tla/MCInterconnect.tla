--------------------------- MODULE MCInterconnect ---------------------------
(***************************************************************************)
(* Two nodes; ports of the bus for one message, ports of the network for   *)
(* two.  Six requests fill the way to the other node up to the sender; the *)
(* other cases are answers of all kinds, both directions, and messages to  *)
(* a module of the same node.                                              *)
(***************************************************************************)
EXTENDS Interconnect

E(t, n) == [type |-> t, to |-> n]
MCNodes == 0..1
Quiet == [q \in MCNodes \X Sources |-> <<>>]
R == E("REQUEST", 1)
MCCases == {
  [Quiet EXCEPT ![<<0, 0>>] = <<R, R, R, R, R, R>>],
  [Quiet EXCEPT ![<<0, 1>>] = <<E("COHE_REPLY", 1), E("WRB", 1), E("REPLY", 1), E("REPLY", 1)>>],
  [Quiet EXCEPT ![<<0, 7>>] = <<E("COHE", 1)>>, ![<<1, 6>>] = <<E("REPLY", 0)>>],
  [Quiet EXCEPT ![<<0, 0>>] = <<E("REQUEST", 0), E("REQUEST", 1)>>, ![<<0, 6>>] = <<E("REPLY", 0)>>]}
=============================================================================
