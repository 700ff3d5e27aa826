------------------------------ MODULE MCNetwork ------------------------------
(***************************************************************************)
(* A mesh of two by two nodes.  Packets are longer than a buffer, so a     *)
(* blocked one holds two or three; two packets want one link; three are    *)
(* for one output port with room for two; one node fills its input port.   *)
(***************************************************************************)
EXTENDS Network

Pk(n, s) == [to |-> n, size |-> s]
Mesh22 == <<2, 2>>
Quiet == [n \in Nodes |-> <<>>]
MCCases == {
  [Quiet EXCEPT ![0] = <<Pk(3, 3), Pk(3, 4)>>, ![2] = <<Pk(3, 3)>>],
  [Quiet EXCEPT ![0] = <<Pk(1, 2), Pk(3, 3), Pk(1, 2)>>],
  [Quiet EXCEPT ![1] = <<Pk(0, 2)>>, ![3] = <<Pk(0, 4), Pk(0, 2)>>]}
=============================================================================
