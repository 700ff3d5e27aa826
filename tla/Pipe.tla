-------------------------------- MODULE Pipe --------------------------------
(***************************************************************************)
(* What an interconnection network promises its interfaces: a packet that  *)
(* PacketSend took stays inside until it arrives at the output port of its *)
(* destination, after the packets that the same source sent there before   *)
(* it; an output port holds no more than PortSize packets and gives them   *)
(* to PacketReceive in the order of arrival.  No packet is lost, made up   *)
(* or delivered twice.                                                     *)
(***************************************************************************)
EXTENDS Integers, Sequences

CONSTANTS Nodes, PortSize

VARIABLES
  sent,     \* [Nodes -> Nat]; the packets of s are <<s, 1>>, <<s, 2>>, ...
  inside,   \* [Nodes -> [Nodes -> Seq(Packets)]], source and destination
  arrived   \* [Nodes -> Seq(Packets)], the output ports

pipeVars == <<sent, inside, arrived>>

Init == /\ sent = [s \in Nodes |-> 0]
        /\ inside = [s \in Nodes |-> [d \in Nodes |-> <<>>]]
        /\ arrived = [d \in Nodes |-> <<>>]

Send(s, d) ==
  /\ sent' = [sent EXCEPT ![s] = @ + 1]
  /\ inside' = [inside EXCEPT ![s][d] = Append(@, <<s, sent[s] + 1>>)]
  /\ UNCHANGED arrived

Arrive(s, d) ==
  /\ inside[s][d] # <<>>
  /\ Len(arrived[d]) < PortSize
  /\ arrived' = [arrived EXCEPT ![d] = Append(@, Head(inside[s][d]))]
  /\ inside' = [inside EXCEPT ![s][d] = Tail(@)]
  /\ UNCHANGED sent

Receive(d) ==
  /\ arrived[d] # <<>>
  /\ arrived' = [arrived EXCEPT ![d] = Tail(@)]
  /\ UNCHANGED <<sent, inside>>

Next == \E d \in Nodes : \/ Receive(d)
                         \/ \E s \in Nodes : Send(s, d) \/ Arrive(s, d)

Spec == Init /\ [][Next]_pipeVars
=============================================================================
